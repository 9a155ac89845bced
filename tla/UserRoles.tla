----------------------------- MODULE UserRoles ------------------------------
(***************************************************************************)
(* Users, roles and the links between them: UsersService and RoleService   *)
(* of services/users over the tables users, roles and user_roles, and the  *)
(* sessions that the login of gateways/authorization adds to user_sessions. *)
(*                                                                         *)
(* Only transferSuperadministrator opens a transaction. Every other method *)
(* is a chain of statements, and updateUserRoles sends its last ones all   *)
(* at once, so that they take effect in any order. Rows are deleted softly *)
(* (deletedAt): a link that was removed is restored, not inserted again.   *)
(* Names, logins and permissions are left out; a role is its uid.          *)
(***************************************************************************)

CONSTANTS
  Users,      \* uids of users, used and unused
  Root,       \* the user seeded with the role superadministrator
  Roles,      \* uids of the other roles, used and unused
  Super,      \* the role superadministrator
  Sessions,   \* slots for sessions that are not revoked
  Requests,   \* slots for requests in progress
  Postgres    \* the dialect: PostgreSQL, else MySQL or MariaDB

ASSUME UserRolesAssumption ==
  /\ Root \in Users
  /\ Super \notin Roles
  /\ Postgres \in BOOLEAN

VARIABLES
  user,       \* user[u]: the row of users
  role,       \* role[r]: the row of roles
  link,       \* link[u][r]: the row of user_roles
  session,    \* session[s]: a row of user_sessions and the claims of its token
  req,        \* req[p]: the request in slot p
  overlaps    \* history: the kinds of overlap there have been

vars == <<user, role, link, session, req, overlaps>>

AllRoles == Roles \cup {Super}

RowStates == {"none", "live", "deleted"}

UserLive(u) == user[u] = "live"

RoleLive(r) == role[r] = "live"

LinksOf(u) == {r \in AllRoles : link[u][r] = "live"}

Holders == {u \in Users : Super \in LinksOf(u)}

(* A method that maps the links of a user to roles fails on a link whose   *)
(* role is deleted: the association is null.                               *)
Readable(u) == \A r \in LinksOf(u) : RoleLive(r)

CreatePhases   == {"insertUser"}
UpdatePhases   == {"checkSuper", "readLinks", "writeLinks"}
DeletePhases   == {"destroyUser"}
TransferPhases == {"lockRows", "writeRows", "commit"}
RolePhases     == {"destroyRole"}
LoginPhases    == {"insertSession"}
Phases == CreatePhases \cup UpdatePhases \cup DeletePhases
            \cup TransferPhases \cup RolePhases \cup LoginPhases

Idle == [phase |-> "idle"]

(* keep: the roles asked for, or the one to be deleted; drop, revive, add: *)
(* the links updateUserRoles has still to write; seen: the users whose     *)
(* superadministrator row a transfer reads, ended: the sessions it revokes *)
(* when it commits; super: what a login read.                              *)
Pending ==
  [phase : Phases, user : Users, keep : SUBSET AllRoles,
   drop : SUBSET AllRoles, revive : SUBSET AllRoles, add : SUBSET AllRoles,
   seen : SUBSET Users, ended : SUBSET Sessions, super : BOOLEAN]

Pend(phase, u, keep) ==
  [phase |-> phase, user |-> u, keep |-> keep, drop |-> {}, revive |-> {},
   add |-> {}, seen |-> {}, ended |-> {}, super |-> FALSE]

At(p, phase) == req[p].phase = phase

Goto(p, phase) == req' = [req EXCEPT ![p].phase = phase]

Answer(p) == req' = [req EXCEPT ![p] = Idle]

(* A session that is revoked stays so: its slot is free again.             *)
NoSession == [user |-> Root, super |-> FALSE, live |-> FALSE]

Init ==
  /\ user = [u \in Users |-> IF u = Root THEN "live" ELSE "none"]
  /\ role = [r \in AllRoles |-> IF r = Super THEN "live" ELSE "none"]
  /\ link = [u \in Users |-> [r \in AllRoles |->
               IF u = Root /\ r = Super THEN "live" ELSE "none"]]
  /\ session = [s \in Sessions |-> NoSession]
  /\ req = [p \in Requests |-> Idle]
  /\ overlaps = {}

-----------------------------------------------------------------------------
(* Overlaps                                                                *)

Others(p, phases) == {q \in Requests \ {p} : req[q].phase \in phases}

(* A transfer commits while another request acts on what it read of the    *)
(* superadministrator before, and a login on the roles it read.            *)
TransferOverlap(p) ==
  LET decided == {"readLinks", "writeLinks", "destroyUser"}
                   \cup (IF Postgres THEN {"writeRows"} ELSE {})
  IN (IF Others(p, decided) # {} THEN {"super"} ELSE {})
       \cup (IF Others(p, {"insertSession"}) # {} THEN {"login"} ELSE {})

(* A user is deleted while the superadministrator role is on its way to it. *)
DeleteOverlap(p) ==
  IF \E q \in Others(p, TransferPhases) : req[q].user = req[p].user
    THEN {"super"} ELSE {}

(* A role is destroyed while a request that found it is about to assign it, *)
(* or assigned while a request that found it unused is about to destroy it. *)
DestroyOverlap(p) ==
  IF \E q \in Others(p, CreatePhases \cup UpdatePhases) :
       req[p].keep \cap req[q].keep # {}
    THEN {"role"} ELSE {}

AssignOverlap(p, r) ==
  IF \E q \in Others(p, RolePhases) : r \in req[q].keep THEN {"role"} ELSE {}

(* The links of one user are written by two requests at once.              *)
WriteOverlap(p) ==
  IF \E q \in Others(p, {"writeLinks"}) : req[q].user = req[p].user
    THEN {"links"} ELSE {}

(* The users whose rows of the role superadministrator a transaction has   *)
(* locked or written, until it commits: other writers of them wait.        *)
Held == UNION {req[q].seen \cup {req[q].user} : q \in {q \in Requests : At(q, "commit")}}

Free(u, r) == r # Super \/ u \notin Held

(* A login adds a session of somebody whose sessions a transfer has        *)
(* revoked and is still to commit.                                         *)
LoginOverlap(p) == IF req[p].user \in Held THEN {"login"} ELSE {}

-----------------------------------------------------------------------------
(* create and update: find the roles by name, write the user, then the     *)
(* links. The superadministrator role is not given by create.              *)

CreateUser(p) ==
  /\ At(p, "idle")
  /\ \E u \in Users, keep \in SUBSET Roles :
       /\ user[u] = "none"
       /\ \A q \in Others(p, CreatePhases) : req[q].user # u
       /\ keep # {}
       /\ \A r \in keep : RoleLive(r)
       /\ req' = [req EXCEPT ![p] = Pend("insertUser", u, keep)]
  /\ UNCHANGED <<user, role, link, session, overlaps>>

InsertUser(p) ==
  /\ At(p, "insertUser")
  /\ user' = [user EXCEPT ![req[p].user] = "live"]
  /\ req' = [req EXCEPT ![p].phase = "writeLinks", ![p].add = req[p].keep]
  /\ UNCHANGED <<role, link, session, overlaps>>

UpdateUser(p) ==
  /\ At(p, "idle")
  /\ \E u \in Users, keep \in SUBSET AllRoles :
       /\ UserLive(u)
       /\ keep # {}
       /\ \A r \in keep : RoleLive(r)
       /\ req' = [req EXCEPT ![p] = Pend("checkSuper", u, keep)]
  /\ UNCHANGED <<user, role, link, session, overlaps>>

(* Defect: the superadministrator role may be added or removed.            *)
CheckSuperNever(p) ==
  /\ At(p, "checkSuper")
  /\ Goto(p, "readLinks")
  /\ UNCHANGED <<user, role, link, session, overlaps>>

(* assertSuperadministratorRoleCanBeUpdated: the user has the role now if  *)
(* and only if it is asked for. The search stops when it finds the role.   *)
CheckSuper(p) ==
  LET u == req[p].user IN
  /\ At(p, "checkSuper")
  /\ IF /\ UserLive(u)
        /\ (Super \in req[p].keep) = (u \in Holders)
        /\ u \in Holders \/ Readable(u)
       THEN Goto(p, "readLinks")
       ELSE Answer(p)
  /\ UNCHANGED <<user, role, link, session, overlaps>>

(* The request ends with its last link.                                    *)
Rest(r) == IF r.drop \cup r.revive \cup r.add = {} THEN Idle ELSE r

(* Defect: all links are removed, and only links that are new are written. *)
ReadLinksReplacesAll(p) ==
  LET u    == req[p].user
      keep == req[p].keep
  IN
  /\ At(p, "readLinks")
  /\ req' = [req EXCEPT ![p] = Rest([req[p] EXCEPT
       !.phase  = "writeLinks",
       !.drop   = LinksOf(u),
       !.revive = {r \in keep : link[u][r] = "deleted"},
       !.add    = {r \in keep : link[u][r] = "none"}])]
  /\ overlaps' = overlaps \cup WriteOverlap(p)
  /\ UNCHANGED <<user, role, link, session>>

(* updateUserRoles reads all the links of the user, removed or not.        *)
ReadLinks(p) ==
  LET u    == req[p].user
      keep == req[p].keep
  IN
  /\ At(p, "readLinks")
  /\ req' = [req EXCEPT ![p] = Rest([req[p] EXCEPT
       !.phase  = "writeLinks",
       !.drop   = LinksOf(u) \ keep,
       !.revive = {r \in keep : link[u][r] = "deleted"},
       !.add    = {r \in keep : link[u][r] = "none"}])]
  /\ overlaps' = overlaps \cup WriteOverlap(p)
  /\ UNCHANGED <<user, role, link, session>>

DropLinks(p) ==
  /\ At(p, "writeLinks")
  /\ req[p].drop # {}
  /\ \A r \in req[p].drop : Free(req[p].user, r)
  /\ link' = [link EXCEPT ![req[p].user] =
       [r \in AllRoles |-> IF r \in req[p].drop /\ @[r] = "live"
                             THEN "deleted" ELSE @[r]]]
  /\ req' = [req EXCEPT ![p] = Rest([req[p] EXCEPT !.drop = {}])]
  /\ UNCHANGED <<user, role, session, overlaps>>

ReviveLink(p) ==
  /\ At(p, "writeLinks")
  /\ \E r \in req[p].revive :
       /\ Free(req[p].user, r)
       /\ link' = [link EXCEPT ![req[p].user][r] = "live"]
       /\ req' = [req EXCEPT ![p] = Rest([req[p] EXCEPT !.revive = req[p].revive \ {r}])]
       /\ overlaps' = overlaps \cup AssignOverlap(p, r)
  /\ UNCHANGED <<user, role, session>>

(* The unique key (userUid, roleUid) refuses a row that is there by now.   *)
AddLink(p) ==
  /\ At(p, "writeLinks")
  /\ \E r \in req[p].add :
       /\ Free(req[p].user, r)
       /\ link' = IF link[req[p].user][r] = "none"
                    THEN [link EXCEPT ![req[p].user][r] = "live"]
                    ELSE link
       /\ req' = [req EXCEPT ![p] = Rest([req[p] EXCEPT !.add = req[p].add \ {r}])]
       /\ overlaps' = overlaps \cup AssignOverlap(p, r)
  /\ UNCHANGED <<user, role, session>>

-----------------------------------------------------------------------------
(* delete: the links stay.                                                 *)

DeleteUser(p) ==
  /\ At(p, "idle")
  /\ \E u \in Users :
       /\ UserLive(u)
       /\ u \notin Holders
       /\ Readable(u)
       /\ req' = [req EXCEPT ![p] = Pend("destroyUser", u, {})]
  /\ UNCHANGED <<user, role, link, session, overlaps>>

DestroyUser(p) ==
  /\ At(p, "destroyUser")
  /\ user' = [user EXCEPT ![req[p].user] = "deleted"]
  /\ overlaps' = overlaps \cup DeleteOverlap(p)
  /\ Answer(p)
  /\ UNCHANGED <<role, link, session>>

-----------------------------------------------------------------------------
(* transferSuperadministrator: find the user; in a transaction, lock the   *)
(* role's rows, remove those of the others, write the user's own, revoke   *)
(* the sessions of all of them. Nobody sees it before it commits.          *)

Transfer(p) ==
  /\ At(p, "idle")
  /\ \E u \in Users :
       /\ UserLive(u)
       /\ req' = [req EXCEPT ![p] = Pend("lockRows", u, {})]
  /\ UNCHANGED <<user, role, link, session, overlaps>>

SuperRows == {u \in Users : link[u][Super] # "none"}

(* SELECT ... FOR UPDATE begins. PostgreSQL (READ COMMITTED) fixes which   *)
(* rows it returns.                                                        *)
LockRows(p) ==
  /\ At(p, "lockRows")
  /\ req' = [req EXCEPT ![p].phase = "writeRows",
                        ![p].seen  = IF Postgres THEN SuperRows ELSE {}]
  /\ UNCHANGED <<user, role, link, session, overlaps>>

(* MySQL returns the rows that are there when the wait is over.            *)
Locked(p) == IF Postgres THEN req[p].seen ELSE SuperRows

Affected(p) == (Locked(p) \cap Holders) \cup {req[p].user}

Find(p, users) ==
  req' = [req EXCEPT
    ![p].phase = "commit",
    ![p].seen  = Locked(p),
    ![p].ended = {s \in Sessions : session[s].live /\ session[s].user \in users}]

(* Defect: only the sessions of the new superadministrator are revoked.    *)
WriteRowsOfTarget(p) ==
  /\ At(p, "writeRows")
  /\ Others(p, {"commit"}) = {}
  /\ Find(p, {req[p].user})
  /\ UNCHANGED <<user, role, link, session, overlaps>>

(* The SELECT has waited for any other transfer, as both lock the row of   *)
(* the first superadministrator. Its rows, in the state they have by then, *)
(* are written, and the sessions there are now are revoked.                *)
WriteRows(p) ==
  /\ At(p, "writeRows")
  /\ Others(p, {"commit"}) = {}
  /\ Find(p, Affected(p))
  /\ UNCHANGED <<user, role, link, session, overlaps>>

(* The INSERT of the user's own row is refused, and the transaction rolled *)
(* back, if the row is there and the SELECT did not return it.             *)
CommitTransfer(p) ==
  LET target  == req[p].user
      removed == (req[p].seen \cap Holders) \ {target}
  IN
  /\ At(p, "commit")
  /\ target \in req[p].seen \/ link[target][Super] = "none"
  /\ link' = [u \in Users |-> [link[u] EXCEPT ![Super] =
       IF u = target THEN "live" ELSE IF u \in removed THEN "deleted" ELSE @]]
  /\ session' = [s \in Sessions |-> IF s \in req[p].ended THEN NoSession ELSE session[s]]
  /\ overlaps' = overlaps \cup TransferOverlap(p)
  /\ Answer(p)
  /\ UNCHANGED <<user, role>>

-----------------------------------------------------------------------------
(* RoleService: createRole is one INSERT; deleteRole counts the links of   *)
(* the role, whether or not their users are deleted.                       *)

CreateRole ==
  /\ \E r \in Roles :
       /\ role[r] = "none"
       /\ role' = [role EXCEPT ![r] = "live"]
  /\ UNCHANGED <<user, link, session, req, overlaps>>

(* Defect: the links are not counted.                                      *)
DeleteRoleUncounted(p) ==
  /\ At(p, "idle")
  /\ \E r \in Roles :
       /\ RoleLive(r)
       /\ req' = [req EXCEPT ![p] = Pend("destroyRole", Root, {r})]
  /\ UNCHANGED <<user, role, link, session, overlaps>>

DeleteRole(p) ==
  /\ At(p, "idle")
  /\ \E r \in Roles :
       /\ RoleLive(r)
       /\ \A u \in Users : link[u][r] # "live"
       /\ req' = [req EXCEPT ![p] = Pend("destroyRole", Root, {r})]
  /\ UNCHANGED <<user, role, link, session, overlaps>>

DestroyRole(p) ==
  /\ At(p, "destroyRole")
  /\ role' = [r \in AllRoles |-> IF r \in req[p].keep THEN "deleted" ELSE role[r]]
  /\ overlaps' = overlaps \cup DestroyOverlap(p)
  /\ Answer(p)
  /\ UNCHANGED <<user, link, session>>

-----------------------------------------------------------------------------
(* login: read the user and its roles, ask services/notifications whether  *)
(* a second factor is needed, insert the session, sign a token that claims *)
(* the roles that were read. No token is signed if a role was null.        *)

Login(p) ==
  /\ At(p, "idle")
  /\ \E u \in Users :
       /\ UserLive(u)
       /\ req' = [req EXCEPT ![p] = [Pend("insertSession", u, {}) EXCEPT
                    !.super = u \in Holders /\ Readable(u)]]
  /\ UNCHANGED <<user, role, link, session, overlaps>>

(* MySQL locks the gaps too: the INSERT waits for a transfer that revokes  *)
(* the sessions of the user.                                               *)
InsertSession(p) ==
  /\ At(p, "insertSession")
  /\ Postgres \/ req[p].user \notin Held
  /\ \E s \in Sessions :
       /\ ~session[s].live
       /\ session' = [session EXCEPT ![s] =
            [user |-> req[p].user, super |-> req[p].super, live |-> TRUE]]
  /\ overlaps' = overlaps \cup LoginOverlap(p)
  /\ Answer(p)
  /\ UNCHANGED <<user, role, link>>

(* revokeSession: logout, or from the list of one's sessions. It waits for *)
(* a transfer that revokes the same row.                                   *)
RevokeSession ==
  /\ \E s \in Sessions :
       /\ session[s].live
       /\ \A q \in Requests : At(q, "commit") => s \notin req[q].ended
       /\ session' = [session EXCEPT ![s] = NoSession]
  /\ UNCHANGED <<user, role, link, req, overlaps>>

-----------------------------------------------------------------------------
(* A statement fails, or the worker dies. A transaction is rolled back.    *)
FailRequest(p) ==
  /\ ~At(p, "idle")
  /\ overlaps' = IF At(p, "writeLinks") THEN overlaps \cup {"links"} ELSE overlaps
  /\ Answer(p)
  /\ UNCHANGED <<user, role, link, session>>

TransferStep(p) == Transfer(p) \/ LockRows(p) \/ WriteRows(p) \/ CommitTransfer(p)

LinkStep(p) ==
  \/ CreateUser(p) \/ InsertUser(p)
  \/ UpdateUser(p) \/ CheckSuper(p) \/ ReadLinks(p)
  \/ DropLinks(p) \/ ReviveLink(p) \/ AddLink(p)
  \/ DeleteRole(p) \/ DestroyRole(p)

NextOf(p) ==
  \/ LinkStep(p)
  \/ DeleteUser(p) \/ DestroyUser(p)
  \/ TransferStep(p)
  \/ Login(p) \/ InsertSession(p)
  \/ FailRequest(p)

Next == CreateRole \/ RevokeSession \/ \E p \in Requests : NextOf(p)

Spec == Init /\ [][Next]_vars

(* Nothing but users being created and the role being transferred.         *)
NextTransfer ==
  \/ CreateRole
  \/ \E p \in Requests :
       CreateUser(p) \/ InsertUser(p) \/ AddLink(p) \/ TransferStep(p) \/ FailRequest(p)

TransferSpec == Init /\ [][NextTransfer]_vars

(* Nothing but roles being created, assigned and deleted.                  *)
NextLinks == CreateRole \/ \E p \in Requests : LinkStep(p) \/ FailRequest(p)

-----------------------------------------------------------------------------
(* Properties                                                              *)

TypeOK ==
  /\ user \in [Users -> RowStates]
  /\ role \in [AllRoles -> RowStates]
  /\ link \in [Users -> [AllRoles -> RowStates]]
  /\ session \in [Sessions -> [user : Users, super : BOOLEAN, live : BOOLEAN]]
  /\ req \in [Requests -> {Idle} \cup Pending]
  /\ overlaps \subseteq {"super", "login", "role", "links"}

(* "Exactly one user has the role superadministrator at any time." It does *)
(* not hold when a transfer commits while a request acts on what it read   *)
(* of the role before.                                                     *)
ExactlyOneSuperadministrator == \E u \in Users : UserLive(u) /\ Holders = {u}

(* Transfers, updates and deletions keep exactly one superadministrator,   *)
(* and a live one, as long as no update or deletion that has passed its    *)
(* check is still to write when a transfer commits.                        *)
OneSuperadministratorUnlessOverlap ==
  ExactlyOneSuperadministrator \/ "super" \in overlaps

(* A session whose token claims the role belongs to the one who has it:    *)
(* the transfer revokes the others, except one whose login has read the    *)
(* roles before the transfer commits and inserts the session after, or, on *)
(* PostgreSQL, between the revocation of the sessions and the commit.      *)
ClaimsAreCurrentUnlessOverlap ==
  \/ \A s \in Sessions :
       session[s].live /\ session[s].super => session[s].user \in Holders
  \/ overlaps \cap {"super", "login"} # {}

(* The role changes hands in a transfer and at once: when other users have *)
(* it than before, then because a transfer gave it to its target, and      *)
(* nobody who had it or has it now keeps a session, except on PostgreSQL   *)
(* after a login between revocation and commit. No update, deletion or     *)
(* failure moves it, until a transfer has overlapped one.                  *)
HandedOverWhole ==
  [][\/ Holders' = Holders
     \/ "super" \in overlaps
     \/ /\ \E p \in Requests : At(p, "commit") /\ Holders' = {req[p].user}
        /\ \/ \A s \in Sessions :
                session'[s].live => session'[s].user \notin Holders \cup Holders'
           \/ Postgres /\ "login" \in overlaps]_vars

(* A role that is assigned is not deleted ("a role assigned to users cannot *)
(* be deleted"), unless one request was assigning it while another had     *)
(* counted its links: every list of users fails from then on.              *)
LinkedRolesLiveUnlessOverlap ==
  (\A u \in Users : Readable(u)) \/ "role" \in overlaps

(* A user has a role ("a user needs at least one role") when nobody is     *)
(* writing its links. Those who gave the superadministrator role away may  *)
(* have none left; so may a user whose links two requests wrote at once,   *)
(* or one request in part.                                                 *)
Writing(u) == \E p \in Requests : At(p, "writeLinks") /\ req[p].user = u

HasRoleUnlessOverlap ==
  \/ \A u \in Users : UserLive(u) =>
       \/ LinksOf(u) # {}
       \/ Writing(u)
       \/ link[u][Super] = "deleted"
  \/ "links" \in overlaps

=============================================================================
