---------------------------- MODULE MCAdministration ----------------------------
(* The page of users and roles for TLC: two roles, two permissions and one  *)
(* user. A behaviour keeps to the permissions of a role, the roles or the   *)
(* users (scene).                                                           *)
EXTENDS Administration, Naturals

CONSTANTS m, n, o

VARIABLE scene

(* A role without permissions, two of them for the users, and a user who    *)
(* has the first or none yet.                                               *)
MCInit ==
  /\ scene \in {"permissions", "roles", "users"}
  /\ AdminInit
  /\ role["a"] # None /\ role["a"].name = n
  /\ IF scene = "users" THEN role["b"] # None /\ role["b"].name = m ELSE role["b"] = None
  /\ link["a"] = [k \in Keys |-> "none"] /\ link["b"] = link["a"]
  /\ scene = "roles" => user["u"] # None
  /\ scene = "permissions" => user["u"] = None
  /\ user["u"] # None => user["u"].roles = {"a"}

Awaited == {q \in {"p", "q"} : request[q] # None}

Fetched == {l \in {"i", "j"} : load[l] # None}

AskBegins(q) == request[q] = None /\ request'[q] # None

FetchBegins(l) == load[l] = None /\ load'[l] # None

Permissions == \E j \in DOMAIN save : save[j] # None

(* A window is opened, or something is done in it.                          *)
Clicks == view # None /\ view' # None /\ store' = store /\ view' # view

AtRest == view # None => view.edited = None /\ view.form = None

OtherChanged ==
  /\ <<role', user'>> # <<role, user>> /\ stale' # {}
  /\ \A q \in Awaited : request'[q] # None /\ request'[q].step = request[q].step

(* The permissions of a role, updated by two at once.                       *)
PermissionsStep ==
  /\ <<role', user'>> = <<role, user>>
  /\ \A q \in {"p", "q"} : AskBegins(q) => q = "p" /\ request'[q].op = "updateRolePermissions"
  /\ load'["j"] = None
  /\ save[None] = None /\ save'[None] # None => stale = {} /\ Fetched = {}
  /\ view # None => view' # None /\ view'.edited = None

(* Two changes, or a change and a list, or two lists of which the first was *)
(* asked for by a page that is gone.                                        *)
Crossing ==
  /\ save'[None] = None
  /\ Cardinality(Awaited') + Cardinality(Fetched') <= 2
  /\ AskBegins("q") => request["p"] # None
  /\ FetchBegins("j") => "i" \in Fetched /\ load["i"].users.step # "shown" /\ Awaited = {} /\ ~Permissions

(* A second role comes and goes, the first is renamed.                      *)
RolesStep ==
  /\ Crossing
  /\ user' = user /\ link'["a"]["l"] = "none" /\ link'["b"] = link["b"]
  /\ load'["j"] = None
  /\ \A r \in {"a", "b"} : role'[r] # None => role'[r].name # o
  /\ \A q \in {"p", "q"} : AskBegins(q) /\ request'[q].op \in {"createRole", "updateRole"} =>
       request'[q].arg # o
  /\ role["b"] # None => link' = link
  /\ OtherChanged => role' = [role EXCEPT !["a"].name = m] /\ (stale = {} \/ Fetched # {})
  /\ Clicks => view'.form = None /\ view'.selected["b"] = {} /\ "l" \notin view'.selected["a"]
  /\ \A q \in {"p", "q"} : AskBegins(q) /\ request'[q].item = "b" => request'[q].op # "updateRole"

(* A user is changed while others change the user or rename the first role. *)
(* Two lists cross while there is the user and the name is the first.       *)
UsersStep ==
  /\ Crossing
  /\ link' = link /\ role'["b"] = role["b"]
  /\ role' # role => OtherChanged /\ role'["a"].name = o /\ (stale = {} \/ Fetched # {})
  /\ OtherChanged /\ user' # user =>
       stale = {} /\ Fetched = {} /\ (user'["u"].live => user'["u"].roles = {"b"})
  /\ Clicks => view'.at = "closed"
  /\ \A q \in {"p", "q"} : AskBegins(q) =>
       /\ request'[q].op \in UserOps
       /\ request'[q].op # "delete" => m \in request'[q].arg
       /\ request'[q].op = "create" => request'[q].arg = {m}
  /\ FetchBegins("j") => role["a"].name = n /\ user["u"] # None /\ user["u"].live

(* What is shown is loaded again, before anything else is done, when it may *)
(* not be what is kept.                                                     *)
AdminStep ==
  /\ AdminNext
  /\ \A q \in {"p", "q"} : AskBegins(q) => stale = {}
  /\ Clicks =>
       /\ stale = {} /\ Fetched = {}
       /\ request' # request \/ (Awaited = {} /\ ~Permissions)
  /\ view # None /\ view' = None =>
       /\ AtRest /\ Cardinality(Awaited) + Cardinality(Fetched) <= 1
       /\ view.at # "closed" => (Awaited # {} \/ Permissions) /\ stale = {}
  /\ \A l \in {"i", "j"} : FetchBegins(l) => AtRest /\ (view # None => stale # {})

MCNext ==
  /\ AdminStep
  /\ scene' = scene
  /\ scene = "permissions" => PermissionsStep
  /\ scene = "roles" => RolesStep
  /\ scene = "users" => UsersStep

MCSpec == MCInit /\ [][MCNext]_<<adminVs, scene>>

=============================================================================
