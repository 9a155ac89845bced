--------------------------- MODULE MCFileFolders ----------------------------
(* FileFolders for TLC, with numbers for folders. A behaviour uses three    *)
(* folders and no item, or two folders and the items: both at once are more *)
(* than a run with fairness, which admits no symmetry, can take.            *)
EXTENDS FileFolders

VARIABLE scene

MCInit == Init /\ scene \in {"folders", "items"}

Used == IF scene = "folders" THEN Folders ELSE Items \cup {1, 2}

MCNext ==
  /\ Next
  /\ \A p \in Requests : Busy(p)' => req'[p].it \in Used
  /\ UNCHANGED scene

MCSpec ==
  /\ MCInit
  /\ [][MCNext]_<<vars, scene>>
  /\ \A p \in Requests : WF_vars(Statement(p))

=============================================================================
