---------------------------- MODULE MCUserRoles -----------------------------
(* UserRoles for TLC. A behaviour does everything with one role besides     *)
(* superadministrator, or uses two and only creates, assigns and deletes    *)
(* them: both at once are too much for a run.                               *)
EXTENDS UserRoles, TLC

CONSTANTS Second   \* the role that is used only in the scene "links"

ASSUME Second \in Roles

VARIABLE scene

MCInit == Init /\ scene \in {"all", "links"}

MCNext ==
  /\ \/ scene = "all" /\ Next /\ role'[Second] = "none"
     \/ scene = "links" /\ NextLinks
  /\ UNCHANGED scene

MCSpec == MCInit /\ [][MCNext]_<<vars, scene>>

Symmetry == Permutations(Requests)

=============================================================================
