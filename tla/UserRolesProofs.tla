--------------------------- MODULE UserRolesProofs ----------------------------
(***************************************************************************)
(* Theorems about UserRoles, for every set of users, roles, sessions and   *)
(* requests and for both kinds of database.                                *)
(***************************************************************************)
EXTENDS UserRoles, TLAPS

-----------------------------------------------------------------------------
(* What a request has in hand                                              *)

(* The user to be created is not there yet and nobody else's; roles are    *)
(* asked for; a link to be dropped is not one that was asked for.          *)
Fits(p) ==
  /\ At(p, "insertUser") =>
       /\ user[req[p].user] = "none"
       /\ req[p].keep \subseteq Roles
       /\ req[p].drop \cup req[p].revive = {}
       /\ \A q \in Requests \ {p} : At(q, "insertUser") => req[q].user # req[p].user
  /\ req[p].phase \in UpdatePhases \cup DeletePhases \cup TransferPhases =>
       user[req[p].user] # "none"
  /\ req[p].phase \in CreatePhases \cup UpdatePhases => req[p].keep # {}
  /\ At(p, "writeLinks") =>
       /\ req[p].drop \cap req[p].keep = {}
       /\ req[p].revive \cup req[p].add \subseteq req[p].keep
       /\ req[p].revive \cap req[p].add = {}
  /\ At(p, "destroyRole") => req[p].keep \subseteq Roles

Slots == \A p \in Requests : Fits(p)

Unlinked ==
  \A u \in Users, r \in AllRoles : user[u] = "none" => link[u][r] = "none"

-----------------------------------------------------------------------------
(* The superadministrator                                                  *)

(* What a request has read of the role superadministrator is so still: who *)
(* is updated has it if and only if it is asked for, who is deleted has it *)
(* not, who is to have it is live, and a transfer has the row of whoever   *)
(* has it among those that it locks.                                       *)
SuperRead(p) ==
  /\ At(p, "readLinks") => (Super \in req[p].keep <=> link[req[p].user][Super] = "live")
  /\ At(p, "writeLinks") => Super \notin req[p].drop \cup req[p].revive \cup req[p].add
  /\ At(p, "destroyUser") => link[req[p].user][Super] # "live"
  /\ req[p].phase \in TransferPhases => UserLive(req[p].user)
  /\ At(p, "commit") \/ (At(p, "writeRows") /\ Postgres) =>
       \A u \in Users : link[u][Super] = "live" => u \in req[p].seen

OneHolder == \E h \in Users : /\ UserLive(h)
                              /\ \A u \in Users : link[u][Super] = "live" <=> u = h

Supers == "super" \in overlaps \/ (OneHolder /\ \A p \in Requests : SuperRead(p))

(* A session, or a login on its way to one, that claims the role is of a   *)
(* user who has it.                                                        *)
ClaimsHold ==
  /\ \A s \in Sessions :
       session[s].live /\ session[s].super => link[session[s].user][Super] = "live"
  /\ \A p \in Requests :
       At(p, "insertSession") /\ req[p].super => link[req[p].user][Super] = "live"

Claims == overlaps \cap {"super", "login"} # {} \/ ClaimsHold

(* One transfer at a time has the locks, and it has found every session of *)
(* those who have the role or get it.                                      *)
OneCommits ==
  \A p, q \in Requests : At(p, "commit") /\ At(q, "commit") => p = q

SessionsFound(p) ==
  At(p, "commit") =>
    \A s \in Sessions :
      /\ session[s].live
      /\ link[session[s].user][Super] = "live" \/ session[s].user = req[p].user
      => s \in req[p].ended

Found ==
  \/ "super" \in overlaps
  \/ Postgres /\ "login" \in overlaps
  \/ \A p \in Requests : SessionsFound(p)

-----------------------------------------------------------------------------
(* Deleted roles                                                           *)

(* The roles a request is about to assign exist, one that it is about to   *)
(* delete is not assigned.                                                 *)
RolesRead(p) ==
  /\ req[p].phase \in CreatePhases \cup UpdatePhases =>
       \A r \in req[p].keep : RoleLive(r)
  /\ At(p, "destroyRole") =>
       \A u \in Users, r \in req[p].keep : link[u][r] # "live"

LinkedLive == \A u \in Users, r \in AllRoles : link[u][r] = "live" => RoleLive(r)

LinkedRoles == "role" \in overlaps \/ (LinkedLive /\ \A p \in Requests : RolesRead(p))

-----------------------------------------------------------------------------
(* Users without a role                                                    *)

(* What a request has still to write gives its user every role asked for,  *)
(* but for a superadministrator role that was transferred meanwhile.       *)
LinksRead(p) ==
  At(p, "writeLinks") =>
    /\ \A q \in Requests \ {p} : At(q, "writeLinks") => req[q].user # req[p].user
    /\ \A r \in req[p].keep \ (req[p].revive \cup req[p].add) :
         \/ link[req[p].user][r] = "live"
         \/ r = Super /\ link[req[p].user][r] = "deleted"
    /\ \A r \in req[p].add \ {Super} : link[req[p].user][r] = "none"

HasRole(u) ==
  UserLive(u) => \/ \E r \in AllRoles : link[u][r] = "live"
                 \/ Writing(u)
                 \/ link[u][Super] = "deleted"

HaveRoles ==
  "links" \in overlaps
    \/ ((\A u \in Users : HasRole(u)) /\ \A p \in Requests : LinksRead(p))

IInv ==
  /\ TypeOK
  /\ Slots
  /\ Unlinked
  /\ role[Super] = "live"
  /\ Supers
  /\ Claims
  /\ OneCommits
  /\ Found
  /\ LinkedRoles
  /\ HaveRoles

-----------------------------------------------------------------------------
(* Slots                                                                   *)

Slot == {Idle} \cup Pending

LEMMA PendingSlot ==
  ASSUME TypeOK, NEW p \in Requests
  PROVE  /\ ~At(p, "idle") <=> req[p] \in Pending
         /\ req[p].phase \in Phases <=> req[p] \in Pending
         /\ req[p] \in Pending => /\ req[p].user \in Users
                                  /\ req[p].keep \subseteq AllRoles
                                  /\ req[p].drop \subseteq AllRoles
                                  /\ req[p].revive \subseteq AllRoles
                                  /\ req[p].add \subseteq AllRoles
                                  /\ req[p].seen \subseteq Users
                                  /\ req[p].ended \subseteq Sessions
                                  /\ req[p].super \in BOOLEAN
<1>1. req[p] \in {Idle} \cup Pending
  BY DEF TypeOK
<1>2. Idle.phase = "idle"
  BY DEF Idle
<1>3. req[p] \in Pending => req[p].phase \in Phases
  BY DEF Pending
<1>4. "idle" \notin Phases
  BY DEF Phases, CreatePhases, UpdatePhases, DeletePhases, TransferPhases, RolePhases,
         LoginPhases
<1>. QED  BY <1>1, <1>2, <1>3, <1>4 DEF At, Pending

LEMMA SetSlot ==
  ASSUME TypeOK, NEW p \in Requests, NEW r \in Slot, req' = [req EXCEPT ![p] = r]
  PROVE  /\ req' \in [Requests -> Slot]
         /\ req'[p] = r
         /\ \A q \in Requests \ {p} : req'[q] = req[q]
BY DEF TypeOK, Slot

LEMMA AnswerSlot ==
  ASSUME TypeOK, NEW p \in Requests, Answer(p)
  PROVE  /\ req' \in [Requests -> Slot]
         /\ req'[p].phase = "idle"
         /\ \A q \in Requests \ {p} : req'[q] = req[q]
BY DEF TypeOK, Slot, Answer, Idle

(* A request ends with its last link.                                      *)
LEMMA RestSlot ==
  ASSUME TypeOK, NEW p \in Requests, NEW r \in Pending, req' = [req EXCEPT ![p] = Rest(r)]
  PROVE  /\ req' \in [Requests -> Slot]
         /\ \A q \in Requests \ {p} : req'[q] = req[q]
         /\ \/ r.drop \cup r.revive \cup r.add = {} /\ req'[p].phase = "idle"
            \/ r.drop \cup r.revive \cup r.add # {} /\ req'[p] = r
BY DEF TypeOK, Slot, Rest, Idle

(* What a request begins with.                                             *)
LEMMA NewSlot ==
  ASSUME TypeOK, NEW p \in Requests,
         \/ CreateUser(p) \/ UpdateUser(p) \/ DeleteUser(p)
         \/ Transfer(p) \/ DeleteRole(p) \/ Login(p)
  PROVE  /\ req' \in [Requests -> Slot]
         /\ \A q \in Requests \ {p} : req'[q] = req[q]
         /\ UNCHANGED <<user, role, link, session, overlaps>>
         /\ req'[p].user \in Users
         /\ \/ /\ req'[p].phase = "insertUser" /\ user[req'[p].user] = "none"
               /\ \A q \in Requests \ {p} : At(q, "insertUser") => req[q].user # req'[p].user
               /\ req'[p].keep \subseteq Roles /\ req'[p].keep # {}
               /\ req'[p].drop \cup req'[p].revive = {}
               /\ \A r \in req'[p].keep : RoleLive(r)
            \/ /\ req'[p].phase = "checkSuper" /\ UserLive(req'[p].user)
               /\ req'[p].keep # {} /\ \A r \in req'[p].keep : RoleLive(r)
            \/ /\ req'[p].phase = "destroyUser" /\ UserLive(req'[p].user)
               /\ link[req'[p].user][Super] # "live"
            \/ req'[p].phase = "lockRows" /\ UserLive(req'[p].user)
            \/ /\ req'[p].phase = "destroyRole" /\ req'[p].keep \subseteq Roles
               /\ \A u \in Users, r \in req'[p].keep : link[u][r] # "live"
            \/ /\ req'[p].phase = "insertSession"
               /\ req'[p].super => link[req'[p].user][Super] = "live"
<1>0. {"insertUser", "checkSuper", "destroyUser", "lockRows", "destroyRole", "insertSession"}
        \subseteq Phases
  BY DEF Phases, CreatePhases, UpdatePhases, DeletePhases, TransferPhases, RolePhases,
         LoginPhases
<1>1. ASSUME NEW s \in Phases, NEW u \in Users, NEW keep \in SUBSET AllRoles, NEW r,
             r = Pend(s, u, keep), req' = [req EXCEPT ![p] = r]
      PROVE  /\ req' \in [Requests -> Slot]
             /\ \A q \in Requests \ {p} : req'[q] = req[q]
             /\ req'[p].phase = s /\ req'[p].user = u /\ req'[p].keep = keep
             /\ req'[p].drop \cup req'[p].revive = {}
  <2>1. /\ r \in Slot /\ r.phase = s /\ r.user = u /\ r.keep = keep
        /\ r.drop \cup r.revive = {}
    BY <1>1 DEF Pend, Slot, Pending
  <2>. QED  BY <1>1, <2>1, SetSlot
<1>2. CASE CreateUser(p)
  <2>1. PICK u \in Users, keep \in SUBSET Roles :
          /\ user[u] = "none" /\ keep # {} /\ \A r \in keep : RoleLive(r)
          /\ \A q \in Others(p, CreatePhases) : req[q].user # u
          /\ req' = [req EXCEPT ![p] = Pend("insertUser", u, keep)]
    BY <1>2 DEF CreateUser
  <2>2. keep \in SUBSET AllRoles
    BY DEF AllRoles
  <2>3. /\ req' \in [Requests -> Slot]
        /\ \A q \in Requests \ {p} : req'[q] = req[q]
        /\ req'[p].phase = "insertUser" /\ req'[p].user = u /\ req'[p].keep = keep
        /\ req'[p].drop \cup req'[p].revive = {}
    BY <1>0, <1>1, <2>1, <2>2
  <2>. QED  BY <1>2, <2>1, <2>3 DEF CreateUser, Others, CreatePhases, At
<1>3. CASE UpdateUser(p)
  <2>1. PICK u \in Users, keep \in SUBSET AllRoles :
          /\ UserLive(u) /\ keep # {} /\ \A r \in keep : RoleLive(r)
          /\ req' = [req EXCEPT ![p] = Pend("checkSuper", u, keep)]
    BY <1>3 DEF UpdateUser
  <2>2. /\ req' \in [Requests -> Slot]
        /\ \A q \in Requests \ {p} : req'[q] = req[q]
        /\ req'[p].phase = "checkSuper" /\ req'[p].user = u /\ req'[p].keep = keep
    BY <1>0, <1>1, <2>1
  <2>. QED  BY <1>3, <2>1, <2>2 DEF UpdateUser
<1>4. CASE DeleteUser(p)
  <2>1. PICK u \in Users :
          /\ UserLive(u)
          /\ u \notin Holders
          /\ req' = [req EXCEPT ![p] = Pend("destroyUser", u, {})]
    BY <1>4 DEF DeleteUser
  <2>2. /\ req' \in [Requests -> Slot]
        /\ \A q \in Requests \ {p} : req'[q] = req[q]
        /\ req'[p].phase = "destroyUser" /\ req'[p].user = u
    BY <1>0, <1>1, <2>1
  <2>. QED  BY <1>4, <2>1, <2>2 DEF DeleteUser, Holders, LinksOf, AllRoles
<1>5. CASE Transfer(p)
  <2>1. PICK u \in Users :
          UserLive(u) /\ req' = [req EXCEPT ![p] = Pend("lockRows", u, {})]
    BY <1>5 DEF Transfer
  <2>2. /\ req' \in [Requests -> Slot]
        /\ \A q \in Requests \ {p} : req'[q] = req[q]
        /\ req'[p].phase = "lockRows" /\ req'[p].user = u
    BY <1>0, <1>1, <2>1
  <2>. QED  BY <1>5, <2>1, <2>2 DEF Transfer
<1>6. CASE DeleteRole(p)
  <2>1. PICK r \in Roles :
          /\ \A u \in Users : link[u][r] # "live"
          /\ req' = [req EXCEPT ![p] = Pend("destroyRole", Root, {r})]
    BY <1>6 DEF DeleteRole
  <2>2. Root \in Users /\ {r} \in SUBSET AllRoles
    BY UserRolesAssumption DEF AllRoles
  <2>3. /\ req' \in [Requests -> Slot]
        /\ \A q \in Requests \ {p} : req'[q] = req[q]
        /\ req'[p].phase = "destroyRole" /\ req'[p].user = Root /\ req'[p].keep = {r}
    BY <1>0, <1>1, <2>1, <2>2
  <2>. QED  BY <1>6, <2>1, <2>2, <2>3 DEF DeleteRole
<1>7. CASE Login(p)
  <2>1. PICK u \in Users :
          req' = [req EXCEPT ![p] = [Pend("insertSession", u, {}) EXCEPT
                    !.super = u \in Holders /\ Readable(u)]]
    BY <1>7 DEF Login
  <2>2. PICK super \in BOOLEAN : super = (u \in Holders /\ Readable(u))
    OBVIOUS
  <2>3. PICK r0 : r0 = Pend("insertSession", u, {})
    OBVIOUS
  <2>4. PICK r : r = [r0 EXCEPT !.super = super]
    OBVIOUS
  <2>5. r \in Slot /\ r.phase = "insertSession" /\ r.user = u /\ r.super = super
    BY <1>0, <2>3, <2>4 DEF Pend, Slot, Pending
  <2>6. req' = [req EXCEPT ![p] = r]
    BY <2>1, <2>2, <2>3, <2>4
  <2>7. super => link[u][Super] = "live"
    BY <2>2 DEF Holders, LinksOf
  <2>. QED  BY <1>7, <2>5, <2>6, <2>7, SetSlot DEF Login
<1>. QED  BY <1>2, <1>3, <1>4, <1>5, <1>6, <1>7

(* The user is written, its links are not.                                 *)
LEMMA InsertSlot ==
  ASSUME TypeOK, NEW p \in Requests, InsertUser(p)
  PROVE  /\ At(p, "insertUser") /\ req[p] \in Pending
         /\ req' \in [Requests -> Slot]
         /\ \A q \in Requests \ {p} : req'[q] = req[q]
         /\ req'[p] \in Pending /\ req'[p].phase = "writeLinks"
         /\ req'[p].user = req[p].user /\ req'[p].keep = req[p].keep
         /\ req'[p].drop = req[p].drop /\ req'[p].revive = req[p].revive
         /\ req'[p].add = req[p].keep
         /\ user' = [user EXCEPT ![req[p].user] = "live"]
         /\ UNCHANGED <<role, link, session, overlaps>>
<1>1. At(p, "insertUser") /\ req[p] \in Pending
  BY PendingSlot DEF InsertUser, At
<1>2. PICK r : r = [req[p] EXCEPT !.phase = "writeLinks", !.add = req[p].keep]
  OBVIOUS
<1>3. r \in Pending
  BY <1>1, <1>2 DEF Pending, Phases, UpdatePhases
<1>4. req' = [req EXCEPT ![p] = r]
  BY <1>1, <1>2 DEF InsertUser, TypeOK, Pending
<1>5. /\ req' \in [Requests -> Slot] /\ req'[p] = r
      /\ \A q \in Requests \ {p} : req'[q] = req[q]
  BY <1>3, <1>4, SetSlot DEF Slot
<1>6. /\ r.phase = "writeLinks" /\ r.user = req[p].user /\ r.keep = req[p].keep
      /\ r.drop = req[p].drop /\ r.revive = req[p].revive /\ r.add = req[p].keep
  BY <1>1, <1>2 DEF Pending
<1>. QED  BY <1>1, <1>3, <1>5, <1>6 DEF InsertUser

(* A request goes on, or is answered.                                      *)
LEMMA GotoSlot ==
  ASSUME TypeOK, NEW p \in Requests, NEW s \in Phases, req[p] \in Pending, Goto(p, s)
  PROVE  /\ req' \in [Requests -> Slot]
         /\ \A q \in Requests \ {p} : req'[q] = req[q]
         /\ req'[p] \in Pending /\ req'[p].phase = s
         /\ req'[p].user = req[p].user /\ req'[p].keep = req[p].keep
<1>1. PICK r : r = [req[p] EXCEPT !.phase = s]
  OBVIOUS
<1>2. r \in Pending /\ r.phase = s /\ r.user = req[p].user /\ r.keep = req[p].keep
  BY <1>1 DEF Pending
<1>3. req' = [req EXCEPT ![p] = r]
  BY <1>1 DEF Goto, TypeOK, Pending
<1>. QED  BY <1>2, <1>3, SetSlot DEF Slot

(* An update goes on if its user has the superadministrator role and keeps *)
(* it, or has it not and is not to get it.                                 *)
LEMMA CheckSlot ==
  ASSUME TypeOK, NEW p \in Requests, CheckSuper(p)
  PROVE  /\ At(p, "checkSuper") /\ req[p] \in Pending
         /\ UNCHANGED <<user, role, link, session, overlaps>>
         /\ req' \in [Requests -> Slot]
         /\ \A q \in Requests \ {p} : req'[q] = req[q]
         /\ \/ req'[p].phase = "idle"
            \/ /\ req'[p] \in Pending /\ req'[p].phase = "readLinks"
               /\ req'[p].user = req[p].user /\ req'[p].keep = req[p].keep
               /\ UserLive(req[p].user)
               /\ Super \in req[p].keep <=> link[req[p].user][Super] = "live"
<1>1. At(p, "checkSuper") /\ req[p] \in Pending
  BY PendingSlot DEF CheckSuper, At
<1>2. "readLinks" \in Phases
  BY DEF Phases, UpdatePhases
<1>3. CASE Answer(p)
  BY <1>1, <1>3, AnswerSlot DEF CheckSuper
<1>4. CASE ~Answer(p)
  <2>1. /\ Goto(p, "readLinks") /\ UserLive(req[p].user)
        /\ (Super \in req[p].keep) = (req[p].user \in Holders)
    BY <1>4 DEF CheckSuper
  <2>2. req[p].user \in Holders <=> link[req[p].user][Super] = "live"
    BY <1>1, PendingSlot DEF Holders, LinksOf, AllRoles
  <2>. QED  BY <1>1, <1>2, <2>1, <2>2, GotoSlot DEF CheckSuper
<1>. QED  BY <1>3, <1>4

(* A transfer on its way to its commit.                                    *)
Lock(p) == LockRows(p) \/ WriteRows(p)

LEMMA LockSlot ==
  ASSUME TypeOK, NEW p \in Requests, Lock(p)
  PROVE  /\ req[p].phase \in {"lockRows", "writeRows"} /\ req[p] \in Pending
         /\ UNCHANGED <<user, role, link, session, overlaps>>
         /\ req' \in [Requests -> Slot]
         /\ \A q \in Requests \ {p} : req'[q] = req[q]
         /\ req'[p] \in Pending /\ req'[p].user = req[p].user
         /\ \/ req'[p].phase = "writeRows" /\ (Postgres => req'[p].seen = SuperRows)
            \/ /\ req'[p].phase = "commit" /\ req[p].phase = "writeRows"
               /\ req'[p].seen = Locked(p)
               /\ Others(p, {"commit"}) = {}
               /\ \A s \in Sessions :
                    session[s].live /\ session[s].user \in Affected(p) => s \in req'[p].ended
<1>1. req[p].phase \in {"lockRows", "writeRows"} /\ req[p] \in Pending
  BY PendingSlot DEF Lock, LockRows, WriteRows, At
<1>2. CASE LockRows(p)
  <2>1. PICK seen \in SUBSET Users : seen = IF Postgres THEN SuperRows ELSE {}
    BY DEF SuperRows
  <2>2. PICK r : r = [req[p] EXCEPT !.phase = "writeRows", !.seen = seen]
    OBVIOUS
  <2>3. r \in Pending /\ r.phase = "writeRows" /\ r.user = req[p].user /\ r.seen = seen
    BY <1>1, <2>2 DEF Pending, Phases, TransferPhases
  <2>4. req' = [req EXCEPT ![p] = r]
    BY <1>2, <2>1, <2>2 DEF LockRows, TypeOK, Pending
  <2>. QED  BY <1>1, <1>2, <2>1, <2>3, <2>4, SetSlot DEF Slot, LockRows
<1>3. CASE WriteRows(p)
  <2>1. PICK seen : seen = Locked(p)
    OBVIOUS
  <2>2. seen \in SUBSET Users
    BY <1>1, <2>1, PendingSlot DEF Locked, SuperRows
  <2>3. PICK ended \in SUBSET Sessions :
          ended = {s \in Sessions : session[s].live /\ session[s].user \in Affected(p)}
    OBVIOUS
  <2>4. PICK r : r = [req[p] EXCEPT !.phase = "commit", !.seen = seen, !.ended = ended]
    OBVIOUS
  <2>5. /\ r \in Pending /\ r.phase = "commit" /\ r.user = req[p].user
        /\ r.seen = seen /\ r.ended = ended
    BY <1>1, <2>2, <2>4 DEF Pending, Phases, TransferPhases
  <2>6. req' = [req EXCEPT ![p] = r]
    BY <1>3, <2>1, <2>3, <2>4 DEF WriteRows, Find, TypeOK, Pending
  <2>7. req' \in [Requests -> Slot] /\ req'[p] = r /\ \A q \in Requests \ {p} : req'[q] = req[q]
    BY <2>5, <2>6, SetSlot DEF Slot
  <2>8. At(p, "writeRows") /\ Others(p, {"commit"}) = {}
    BY <1>3 DEF WriteRows
  <2>9. UNCHANGED <<user, role, link, session, overlaps>>
    BY <1>3 DEF WriteRows
  <2>. QED  BY <1>1, <2>1, <2>3, <2>5, <2>7, <2>8, <2>9 DEF At
<1>. QED  BY <1>2, <1>3 DEF Lock

(* updateUserRoles has read the links of the user.                         *)
LEMMA ReadSlot ==
  ASSUME TypeOK, NEW p \in Requests, ReadLinks(p)
  PROVE  /\ At(p, "readLinks") /\ req[p] \in Pending
         /\ UNCHANGED <<user, role, link, session>>
         /\ overlaps' = overlaps \cup WriteOverlap(p)
         /\ req' \in [Requests -> Slot]
         /\ \A q \in Requests \ {p} : req'[q] = req[q]
         /\ \/ /\ req'[p].phase = "idle"
               /\ \A r \in req[p].keep : link[req[p].user][r] = "live"
            \/ /\ req'[p] \in Pending /\ req'[p].phase = "writeLinks"
               /\ req'[p].user = req[p].user /\ req'[p].keep = req[p].keep
               /\ req'[p].drop = LinksOf(req[p].user) \ req[p].keep
               /\ req'[p].revive = {r \in req[p].keep : link[req[p].user][r] = "deleted"}
               /\ req'[p].add = {r \in req[p].keep : link[req[p].user][r] = "none"}
<1>. DEFINE D == LinksOf(req[p].user) \ req[p].keep
            V == {r \in req[p].keep : link[req[p].user][r] = "deleted"}
            A == {r \in req[p].keep : link[req[p].user][r] = "none"}
<1>1. At(p, "readLinks") /\ req[p] \in Pending
  BY PendingSlot DEF ReadLinks, At
<1>2. PICK d, v, a : d = D /\ v = V /\ a = A
  OBVIOUS
<1>3. d \in SUBSET AllRoles /\ v \in SUBSET AllRoles /\ a \in SUBSET AllRoles
  BY <1>1, <1>2, PendingSlot DEF LinksOf
<1>4. PICK r : r = [req[p] EXCEPT !.phase = "writeLinks", !.drop = d, !.revive = v,
                                  !.add = a]
  OBVIOUS
<1>5. /\ r \in Pending /\ r.phase = "writeLinks" /\ r.user = req[p].user
      /\ r.keep = req[p].keep /\ r.drop = d /\ r.revive = v /\ r.add = a
  BY <1>1, <1>3, <1>4 DEF Pending, Phases, UpdatePhases
<1>6. req' = [req EXCEPT ![p] = Rest(r)]
  BY <1>2, <1>4 DEF ReadLinks
<1>7. /\ req' \in [Requests -> Slot]
      /\ \A q \in Requests \ {p} : req'[q] = req[q]
      /\ \/ d \cup v \cup a = {} /\ req'[p].phase = "idle"
         \/ d \cup v \cup a # {} /\ req'[p] = r
  BY <1>5, <1>6, RestSlot
<1>8. ASSUME d \cup v \cup a = {}
      PROVE  \A x \in req[p].keep : link[req[p].user][x] = "live"
  <2>. TAKE x \in req[p].keep
  <2>1. link[req[p].user][x] \in RowStates
    BY <1>1, PendingSlot DEF TypeOK
  <2>2. x \notin v /\ x \notin a
    BY <1>8
  <2>. QED  BY <1>2, <2>1, <2>2 DEF RowStates
<1>. QED  BY <1>1, <1>2, <1>5, <1>7, <1>8 DEF ReadLinks

(* What is left of a request when a statement on its links has returned.   *)
Left(p, d, v, a) ==
  /\ req' \in [Requests -> Slot]
  /\ \A q \in Requests \ {p} : req'[q] = req[q]
  /\ \/ d \cup v \cup a = {} /\ req'[p].phase = "idle"
     \/ /\ req'[p] \in Pending /\ req'[p].phase = "writeLinks"
        /\ req'[p].user = req[p].user /\ req'[p].keep = req[p].keep
        /\ req'[p].drop = d /\ req'[p].revive = v /\ req'[p].add = a

LEMMA WriteSlot ==
  ASSUME TypeOK, NEW p \in Requests, At(p, "writeLinks"), NEW r \in Pending,
         r.phase = req[p].phase, r.user = req[p].user, r.keep = req[p].keep,
         req' = [req EXCEPT ![p] = Rest(r)]
  PROVE  Left(p, r.drop, r.revive, r.add)
BY RestSlot DEF Left, At

LEMMA DropSlot ==
  ASSUME TypeOK, NEW p \in Requests, DropLinks(p)
  PROVE  /\ At(p, "writeLinks") /\ req[p] \in Pending
         /\ UNCHANGED <<user, role, session, overlaps>>
         /\ Left(p, {}, req[p].revive, req[p].add)
         /\ link' \in [Users -> [AllRoles -> RowStates]]
         /\ \A u \in Users, r \in AllRoles :
              link'[u][r] = IF u = req[p].user /\ r \in req[p].drop /\ link[u][r] = "live"
                              THEN "deleted" ELSE link[u][r]
<1>1. At(p, "writeLinks") /\ req[p] \in Pending
  BY PendingSlot DEF DropLinks, At
<1>2. PICK r : r = [req[p] EXCEPT !.drop = {}]
  OBVIOUS
<1>3. /\ r \in Pending /\ r.phase = req[p].phase /\ r.user = req[p].user
      /\ r.keep = req[p].keep /\ r.drop = {} /\ r.revive = req[p].revive
      /\ r.add = req[p].add
  BY <1>1, <1>2 DEF Pending
<1>4. req' = [req EXCEPT ![p] = Rest(r)]
  BY <1>2 DEF DropLinks
<1>5. Left(p, {}, req[p].revive, req[p].add)
  BY <1>1, <1>3, <1>4, WriteSlot
<1>6. PICK g : g = [x \in AllRoles |->
                      IF x \in req[p].drop /\ link[req[p].user][x] = "live"
                        THEN "deleted" ELSE link[req[p].user][x]]
  OBVIOUS
<1>7. req[p].user \in Users
  BY <1>1, PendingSlot
<1>8. link' = [link EXCEPT ![req[p].user] = g]
  BY <1>6, <1>7 DEF DropLinks, TypeOK
<1>9. g \in [AllRoles -> RowStates]
  BY <1>6, <1>7 DEF TypeOK, RowStates
<1>. QED  BY <1>1, <1>5, <1>6, <1>7, <1>8, <1>9 DEF TypeOK, DropLinks

LEMMA ReviveSlot ==
  ASSUME TypeOK, NEW p \in Requests, ReviveLink(p)
  PROVE  \E x \in req[p].revive :
         /\ At(p, "writeLinks") /\ req[p] \in Pending
         /\ UNCHANGED <<user, role, session>>
         /\ overlaps' = overlaps \cup AssignOverlap(p, x)
         /\ Left(p, req[p].drop, req[p].revive \ {x}, req[p].add)
         /\ link' \in [Users -> [AllRoles -> RowStates]]
         /\ \A u \in Users, r \in AllRoles :
              link'[u][r] = IF u = req[p].user /\ r = x THEN "live" ELSE link[u][r]
<1>1. At(p, "writeLinks") /\ req[p] \in Pending
  BY PendingSlot DEF ReviveLink, At
<1>2. PICK x \in req[p].revive :
        /\ link' = [link EXCEPT ![req[p].user][x] = "live"]
        /\ req' = [req EXCEPT ![p] = Rest([req[p] EXCEPT !.revive = req[p].revive \ {x}])]
        /\ overlaps' = overlaps \cup AssignOverlap(p, x)
  BY DEF ReviveLink
<1>3. PICK v : v = req[p].revive \ {x}
  OBVIOUS
<1>4. PICK r : r = [req[p] EXCEPT !.revive = v]
  OBVIOUS
<1>5. v \in SUBSET AllRoles /\ x \in AllRoles /\ req[p].user \in Users
  BY <1>1, <1>2, <1>3, PendingSlot
<1>6. /\ r \in Pending /\ r.phase = req[p].phase /\ r.user = req[p].user
      /\ r.keep = req[p].keep /\ r.drop = req[p].drop /\ r.revive = v
      /\ r.add = req[p].add
  BY <1>1, <1>4, <1>5 DEF Pending
<1>7. req' = [req EXCEPT ![p] = Rest(r)]
  BY <1>2, <1>3, <1>4
<1>8. Left(p, req[p].drop, v, req[p].add)
  BY <1>1, <1>6, <1>7, WriteSlot
<1>9. /\ link' \in [Users -> [AllRoles -> RowStates]]
      /\ \A u \in Users, r1 \in AllRoles :
           link'[u][r1] = IF u = req[p].user /\ r1 = x THEN "live" ELSE link[u][r1]
  BY <1>2, <1>5 DEF TypeOK, RowStates
<1>. QED  BY <1>1, <1>2, <1>3, <1>8, <1>9 DEF ReviveLink

LEMMA AddSlot ==
  ASSUME TypeOK, NEW p \in Requests, AddLink(p)
  PROVE  \E x \in req[p].add :
         /\ At(p, "writeLinks") /\ req[p] \in Pending
         /\ UNCHANGED <<user, role, session>>
         /\ overlaps' = overlaps \cup AssignOverlap(p, x)
         /\ Left(p, req[p].drop, req[p].revive, req[p].add \ {x})
         /\ link' \in [Users -> [AllRoles -> RowStates]]
         /\ \A u \in Users, r \in AllRoles :
              link'[u][r] = IF u = req[p].user /\ r = x /\ link[u][r] = "none"
                              THEN "live" ELSE link[u][r]
<1>1. At(p, "writeLinks") /\ req[p] \in Pending
  BY PendingSlot DEF AddLink, At
<1>2. PICK x \in req[p].add :
        /\ link' = IF link[req[p].user][x] = "none"
                     THEN [link EXCEPT ![req[p].user][x] = "live"]
                     ELSE link
        /\ req' = [req EXCEPT ![p] = Rest([req[p] EXCEPT !.add = req[p].add \ {x}])]
        /\ overlaps' = overlaps \cup AssignOverlap(p, x)
  BY DEF AddLink
<1>3. PICK a : a = req[p].add \ {x}
  OBVIOUS
<1>4. PICK r : r = [req[p] EXCEPT !.add = a]
  OBVIOUS
<1>5. a \in SUBSET AllRoles /\ x \in AllRoles /\ req[p].user \in Users
  BY <1>1, <1>2, <1>3, PendingSlot
<1>6. /\ r \in Pending /\ r.phase = req[p].phase /\ r.user = req[p].user
      /\ r.keep = req[p].keep /\ r.drop = req[p].drop /\ r.revive = req[p].revive
      /\ r.add = a
  BY <1>1, <1>4, <1>5 DEF Pending
<1>7. req' = [req EXCEPT ![p] = Rest(r)]
  BY <1>2, <1>3, <1>4
<1>8. Left(p, req[p].drop, req[p].revive, a)
  BY <1>1, <1>6, <1>7, WriteSlot
<1>9. CASE link[req[p].user][x] = "none"
  <2>1. link' = [link EXCEPT ![req[p].user][x] = "live"]
    BY <1>2, <1>9
  <2>2. /\ link' \in [Users -> [AllRoles -> RowStates]]
        /\ \A u \in Users, r1 \in AllRoles :
             link'[u][r1] = IF u = req[p].user /\ r1 = x THEN "live" ELSE link[u][r1]
    BY <2>1, <1>5 DEF TypeOK, RowStates
  <2>3. \A u \in Users, r1 \in AllRoles :
          link'[u][r1] = IF u = req[p].user /\ r1 = x /\ link[u][r1] = "none"
                           THEN "live" ELSE link[u][r1]
    BY <1>9, <2>2
  <2>. QED  BY <1>1, <1>2, <1>3, <1>8, <2>2, <2>3 DEF AddLink
<1>10. CASE link[req[p].user][x] # "none"
  <2>1. link' = link
    BY <1>2, <1>10
  <2>2. /\ link' \in [Users -> [AllRoles -> RowStates]]
        /\ \A u \in Users, r1 \in AllRoles :
             link'[u][r1] = IF u = req[p].user /\ r1 = x /\ link[u][r1] = "none"
                              THEN "live" ELSE link[u][r1]
    BY <1>10, <2>1 DEF TypeOK
  <2>. QED  BY <1>1, <1>2, <1>3, <1>8, <2>2 DEF AddLink
<1>. QED  BY <1>9, <1>10

(* The links a transfer leaves, and the sessions.                          *)
LEMMA CommitSlot ==
  ASSUME TypeOK, NEW p \in Requests, CommitTransfer(p)
  PROVE  /\ At(p, "commit") /\ req[p] \in Pending
         /\ UNCHANGED <<user, role>>
         /\ overlaps' = overlaps \cup TransferOverlap(p)
         /\ req' \in [Requests -> Slot] /\ req'[p].phase = "idle"
         /\ \A q \in Requests \ {p} : req'[q] = req[q]
         /\ link' \in [Users -> [AllRoles -> RowStates]]
         /\ \A u \in Users, r \in Roles : link'[u][r] = link[u][r]
         /\ link'[req[p].user][Super] = "live"
         /\ \A u \in Users \ {req[p].user} :
              link'[u][Super] = IF u \in req[p].seen /\ link[u][Super] = "live"
                                  THEN "deleted" ELSE link[u][Super]
         /\ session' = [s \in Sessions |->
              IF s \in req[p].ended THEN NoSession ELSE session[s]]
<1>. DEFINE t == req[p].user
            removed == (req[p].seen \cap Holders) \ {t}
<1>1. At(p, "commit") /\ req[p] \in Pending
  BY PendingSlot DEF CommitTransfer, At
<1>2. t \in Users
  BY <1>1, PendingSlot
<1>3. \A u \in Users : u \in Holders <=> link[u][Super] = "live"
  BY DEF Holders, LinksOf, AllRoles
<1>4. PICK rem : rem = removed
  OBVIOUS
<1>5. link' = [u \in Users |-> [link[u] EXCEPT ![Super] =
                 IF u = t THEN "live" ELSE IF u \in rem THEN "deleted" ELSE @]]
  BY <1>4 DEF CommitTransfer
<1>6. Super \in AllRoles /\ \A r \in Roles : r \in AllRoles /\ r # Super
  BY UserRolesAssumption DEF AllRoles
<1>7. \A u \in Users : link[u] \in [AllRoles -> RowStates]
  BY DEF TypeOK
<1>8. ASSUME NEW u \in Users
      PROVE  /\ link'[u] \in [AllRoles -> RowStates]
             /\ \A r \in Roles : link'[u][r] = link[u][r]
             /\ link'[u][Super] = IF u = t THEN "live"
                                  ELSE IF u \in rem THEN "deleted" ELSE link[u][Super]
  <2>1. PICK x \in RowStates : x = IF u = t THEN "live"
                                ELSE IF u \in rem THEN "deleted" ELSE link[u][Super]
    BY <1>6, <1>7 DEF RowStates
  <2>2. link'[u] = [link[u] EXCEPT ![Super] = x]
    BY <1>5, <2>1
  <2>. QED  BY <1>6, <1>7, <2>1, <2>2
<1>9. link' \in [Users -> [AllRoles -> RowStates]]
  BY <1>5, <1>8
<1>10. session' = [s \in Sessions |->
         IF s \in req[p].ended THEN NoSession ELSE session[s]]
  BY DEF CommitTransfer
<1>11. \A u \in Users \ {t} : u \in rem <=> u \in req[p].seen /\ link[u][Super] = "live"
  BY <1>3, <1>4
<1>12. \A u \in Users \ {t} :
         link'[u][Super] = IF u \in req[p].seen /\ link[u][Super] = "live"
                             THEN "deleted" ELSE link[u][Super]
  BY <1>8, <1>11
<1>13. /\ req' \in [Requests -> Slot] /\ req'[p].phase = "idle"
       /\ \A q \in Requests \ {p} : req'[q] = req[q]
  BY AnswerSlot DEF CommitTransfer
<1>. QED  BY <1>1, <1>2, <1>8, <1>9, <1>10, <1>12, <1>13 DEF CommitTransfer

-----------------------------------------------------------------------------
(* Steps                                                                   *)

NewRequest(p) ==
  \/ CreateUser(p) \/ UpdateUser(p) \/ DeleteUser(p)
  \/ Transfer(p) \/ DeleteRole(p) \/ Login(p)

(* A request that ends and leaves the users and their links alone.         *)
Leave(p) == DestroyRole(p) \/ InsertSession(p) \/ FailRequest(p)

LEMMA StepCases ==
  ASSUME NEW p \in Requests, NextOf(p)
  PROVE  \/ NewRequest(p) \/ InsertUser(p) \/ CheckSuper(p) \/ ReadLinks(p)
         \/ DropLinks(p) \/ ReviveLink(p) \/ AddLink(p)
         \/ DestroyUser(p) \/ Lock(p) \/ CommitTransfer(p) \/ Leave(p)
BY DEF NextOf, LinkStep, TransferStep, NewRequest, Leave, Lock

LEMMA LeaveSlot ==
  ASSUME TypeOK, NEW p \in Requests, Leave(p)
  PROVE  /\ UNCHANGED <<user, link>>
         /\ req' \in [Requests -> Slot] /\ req'[p].phase = "idle"
         /\ \A q \in Requests \ {p} : req'[q] = req[q]
BY AnswerSlot DEF Leave, DestroyRole, InsertSession, FailRequest

LEMMA DestroySlot ==
  ASSUME TypeOK, NEW p \in Requests, DestroyUser(p)
  PROVE  /\ At(p, "destroyUser") /\ req[p].user \in Users
         /\ UNCHANGED <<role, link, session>>
         /\ user' = [user EXCEPT ![req[p].user] = "deleted"]
         /\ overlaps' = overlaps \cup DeleteOverlap(p)
         /\ req' \in [Requests -> Slot] /\ req'[p].phase = "idle"
         /\ \A q \in Requests \ {p} : req'[q] = req[q]
<1>1. At(p, "destroyUser") /\ req[p].user \in Users
  BY PendingSlot DEF DestroyUser, At
<1>. QED  BY <1>1, AnswerSlot DEF DestroyUser

(* The other requests are where they were.                                 *)
LEMMA OtherSlots ==
  ASSUME TypeOK, NEW p \in Requests, NextOf(p)
  PROVE  req' \in [Requests -> Slot] /\ \A q \in Requests \ {p} : req'[q] = req[q]
<1>1. CASE NewRequest(p)  BY <1>1, NewSlot DEF NewRequest
<1>2. CASE InsertUser(p)  BY <1>2, InsertSlot
<1>3. CASE CheckSuper(p)  BY <1>3, CheckSlot
<1>4. CASE ReadLinks(p)  BY <1>4, ReadSlot
<1>5. CASE DropLinks(p)  BY <1>5, DropSlot DEF Left
<1>6. CASE ReviveLink(p)  BY <1>6, ReviveSlot DEF Left
<1>7. CASE AddLink(p)  BY <1>7, AddSlot DEF Left
<1>8. CASE DestroyUser(p)  BY <1>8, DestroySlot
<1>9. CASE Lock(p)  BY <1>9, LockSlot
<1>10. CASE CommitTransfer(p)  BY <1>10, CommitSlot
<1>11. CASE Leave(p)  BY <1>11, LeaveSlot
<1>. QED  BY <1>1, <1>2, <1>3, <1>4, <1>5, <1>6, <1>7, <1>8, <1>9, <1>10, <1>11, StepCases

Kinds == {"super", "login", "role", "links"}

LEMMA OverlapKinds ==
  ASSUME NEW p, NEW r
  PROVE  /\ TransferOverlap(p) \subseteq Kinds /\ DeleteOverlap(p) \subseteq Kinds
         /\ DestroyOverlap(p) \subseteq Kinds /\ AssignOverlap(p, r) \subseteq Kinds
         /\ WriteOverlap(p) \subseteq Kinds /\ LoginOverlap(p) \subseteq Kinds
BY DEF TransferOverlap, LoginOverlap, DeleteOverlap, DestroyOverlap, AssignOverlap, WriteOverlap, Kinds

(* No overlap is forgotten.                                                *)
LEMMA OverlapsGrow ==
  ASSUME TypeOK, NEW p \in Requests, NextOf(p)
  PROVE  overlaps \subseteq overlaps' /\ overlaps' \subseteq Kinds
<1>0. overlaps \subseteq Kinds
  BY DEF TypeOK, Kinds
<1>1. CASE NewRequest(p)  BY <1>0, <1>1, NewSlot DEF NewRequest
<1>2. CASE InsertUser(p)  BY <1>0, <1>2, InsertSlot
<1>3. CASE CheckSuper(p)  BY <1>0, <1>3, CheckSlot
<1>4. CASE ReadLinks(p)  BY <1>0, <1>4, ReadSlot, OverlapKinds
<1>5. CASE DropLinks(p)  BY <1>0, <1>5, DropSlot
<1>6. CASE ReviveLink(p)  BY <1>0, <1>6, ReviveSlot, OverlapKinds
<1>7. CASE AddLink(p)  BY <1>0, <1>7, AddSlot, OverlapKinds
<1>8. CASE DestroyUser(p)  BY <1>0, <1>8, DestroySlot, OverlapKinds
<1>9. CASE Lock(p)  BY <1>0, <1>9, LockSlot
<1>10. CASE CommitTransfer(p)  BY <1>0, <1>10, CommitSlot, OverlapKinds
<1>11. CASE DestroyRole(p)  BY <1>0, <1>11, OverlapKinds DEF DestroyRole
<1>12. CASE InsertSession(p)  BY <1>0, <1>12, OverlapKinds DEF InsertSession
<1>13. CASE FailRequest(p)  BY <1>0, <1>13 DEF FailRequest, Kinds
<1>. QED
  BY <1>1, <1>2, <1>3, <1>4, <1>5, <1>6, <1>7, <1>8, <1>9, <1>10, <1>11, <1>12, <1>13,
     StepCases DEF Leave

(* A row of users is never removed; an unused uid is taken by one request. *)
LEMMA UserSteps ==
  ASSUME TypeOK, NEW p \in Requests, NextOf(p)
  PROVE  \/ user' = user
         \/ At(p, "insertUser") /\ InsertUser(p)
         \/ At(p, "destroyUser") /\ DestroyUser(p)
<1>1. CASE NewRequest(p)  BY <1>1, NewSlot DEF NewRequest
<1>2. CASE InsertUser(p)  BY <1>2, InsertSlot
<1>3. CASE CheckSuper(p)  BY <1>3, CheckSlot
<1>4. CASE ReadLinks(p)  BY <1>4, ReadSlot
<1>5. CASE DropLinks(p)  BY <1>5, DropSlot
<1>6. CASE ReviveLink(p)  BY <1>6, ReviveSlot
<1>7. CASE AddLink(p)  BY <1>7, AddSlot
<1>8. CASE DestroyUser(p)  BY <1>8, DestroySlot
<1>9. CASE Lock(p)  BY <1>9, LockSlot
<1>10. CASE CommitTransfer(p)  BY <1>10, CommitSlot
<1>11. CASE Leave(p)  BY <1>11, LeaveSlot
<1>. QED  BY <1>1, <1>2, <1>3, <1>4, <1>5, <1>6, <1>7, <1>8, <1>9, <1>10, <1>11, StepCases

LEMMA StepTypes ==
  ASSUME TypeOK, NEW p \in Requests, NextOf(p)
  PROVE  TypeOK'
<1>1. req' \in [Requests -> {Idle} \cup Pending]
  BY OtherSlots DEF Slot
<1>2. overlaps' \subseteq {"super", "login", "role", "links"}
  BY OverlapsGrow DEF Kinds
<1>3. user' \in [Users -> RowStates]
  BY UserSteps, InsertSlot, DestroySlot DEF TypeOK, RowStates
<1>4. role' \in [AllRoles -> RowStates]
  <2>1. CASE DestroyRole(p)
    BY <2>1 DEF DestroyRole, TypeOK, RowStates
  <2>2. CASE ~DestroyRole(p)
    <3>1. role' = role
      BY <2>2 DEF NextOf, LinkStep, TransferStep, CreateUser, InsertUser, UpdateUser,
           CheckSuper, ReadLinks, DropLinks, ReviveLink, AddLink, DeleteRole, DeleteUser,
           DestroyUser, Transfer, LockRows, WriteRows, CommitTransfer, Login, InsertSession,
           FailRequest
    <3>. QED  BY <3>1 DEF TypeOK
  <2>. QED  BY <2>1, <2>2
<1>5. link' \in [Users -> [AllRoles -> RowStates]]
  <2>0. link \in [Users -> [AllRoles -> RowStates]]
    BY DEF TypeOK
  <2>1. CASE NewRequest(p)  BY <2>0, <2>1, NewSlot DEF NewRequest
  <2>2. CASE InsertUser(p)  BY <2>0, <2>2, InsertSlot
  <2>3. CASE CheckSuper(p)  BY <2>0, <2>3, CheckSlot
  <2>4. CASE ReadLinks(p)  BY <2>0, <2>4, ReadSlot
  <2>5. CASE DropLinks(p)  BY <2>5, DropSlot
  <2>6. CASE ReviveLink(p)  BY <2>6, ReviveSlot
  <2>7. CASE AddLink(p)  BY <2>7, AddSlot
  <2>8. CASE DestroyUser(p)  BY <2>0, <2>8, DestroySlot
  <2>9. CASE Lock(p)  BY <2>0, <2>9, LockSlot
  <2>10. CASE CommitTransfer(p)  BY <2>10, CommitSlot
  <2>11. CASE Leave(p)  BY <2>0, <2>11, LeaveSlot
  <2>. QED  BY <2>1, <2>2, <2>3, <2>4, <2>5, <2>6, <2>7, <2>8, <2>9, <2>10, <2>11, StepCases
<1>6. session' \in [Sessions -> [user : Users, super : BOOLEAN, live : BOOLEAN]]
  <2>0. NoSession \in [user : Users, super : BOOLEAN, live : BOOLEAN]
    BY UserRolesAssumption DEF NoSession
  <2>1. CASE InsertSession(p)
    <3>1. At(p, "insertSession") /\ req[p].user \in Users /\ req[p].super \in BOOLEAN
      BY <2>1, PendingSlot DEF InsertSession, At
    <3>. QED  BY <2>1, <3>1 DEF InsertSession, TypeOK
  <2>2. CASE CommitTransfer(p)
    <3>1. session' = [s \in Sessions |-> IF s \in req[p].ended THEN NoSession ELSE session[s]]
      BY <2>2, CommitSlot
    <3>2. \A s \in Sessions : session[s] \in [user : Users, super : BOOLEAN, live : BOOLEAN]
      BY DEF TypeOK
    <3>. QED  BY <2>0, <3>1, <3>2
  <2>3. CASE ~InsertSession(p) /\ ~CommitTransfer(p)
    <3>1. session' = session
      BY <2>3 DEF NextOf, LinkStep, TransferStep, CreateUser, InsertUser, UpdateUser,
           CheckSuper, ReadLinks, DropLinks, ReviveLink, AddLink, DeleteRole, DestroyRole,
           DeleteUser, DestroyUser, Transfer, LockRows, WriteRows, Login, FailRequest
    <3>. QED  BY <3>1 DEF TypeOK
  <2>. QED  BY <2>1, <2>2, <2>3
<1>. QED  BY <1>1, <1>2, <1>3, <1>4, <1>5, <1>6 DEF TypeOK

-----------------------------------------------------------------------------
(* What a request has in hand                                              *)

(* A request that has ended has nothing in hand.                           *)
LEMMA IdleSlot ==
  ASSUME NEW p \in Requests, req'[p].phase = "idle"
  PROVE  /\ Fits(p)' /\ SuperRead(p)' /\ RolesRead(p)' /\ LinksRead(p)'
         /\ \A s \in Phases : ~At(p, s)'
<1>1. \A s \in Phases : req'[p].phase # s
  BY DEF Phases, CreatePhases, UpdatePhases, DeletePhases, TransferPhases, RolePhases,
         LoginPhases
<1>. QED
  BY <1>1 DEF Fits, SuperRead, RolesRead, LinksRead, At, Phases, CreatePhases, UpdatePhases,
     DeletePhases, TransferPhases, RolePhases, LoginPhases

(* The other requests keep what they have, whatever one of them does.      *)
LEMMA OtherFits ==
  ASSUME TypeOK, Slots, NEW p \in Requests, NextOf(p),
         At(p, "insertUser")' => \A q \in Requests \ {p} : At(q, "insertUser") =>
                                   req[q].user # req'[p].user
  PROVE  \A q \in Requests \ {p} : Fits(q)'
<1>. SUFFICES ASSUME NEW q \in Requests \ {p} PROVE Fits(q)'
  OBVIOUS
<1>1. req'[q] = req[q] /\ Fits(q) /\ Fits(p)
  BY OtherSlots DEF Slots
<1>2. \A u \in Users : user[u] # "none" => user'[u] # "none"
  BY UserSteps, InsertSlot, DestroySlot DEF TypeOK
<1>3. ASSUME At(q, "insertUser") PROVE user'[req[q].user] = "none"
  <2>1. req[q].user \in Users /\ user[req[q].user] = "none"
    BY <1>1, <1>3, PendingSlot DEF Fits, At, Phases, CreatePhases
  <2>2. CASE user' = user  BY <2>1, <2>2
  <2>3. CASE At(p, "insertUser") /\ InsertUser(p)
    BY <1>1, <1>3, <2>1, <2>3, InsertSlot DEF Fits, TypeOK
  <2>4. CASE At(p, "destroyUser") /\ DestroyUser(p)
    <3>1. user[req[p].user] # "none"
      BY <1>1, <2>4 DEF Fits, At, DeletePhases
    <3>. QED  BY <2>1, <2>4, <3>1, DestroySlot DEF TypeOK
  <2>. QED  BY <2>2, <2>3, <2>4, UserSteps
<1>4. ASSUME At(q, "insertUser"), NEW q1 \in Requests \ {q}, At(q1, "insertUser")'
      PROVE  req'[q1].user # req[q].user
  <2>1. CASE q1 = p  BY <1>4, <2>1 DEF At
  <2>2. CASE q1 # p  BY <1>1, <1>4, <2>2, OtherSlots DEF At, Fits
  <2>. QED  BY <2>1, <2>2
<1>5. ASSUME req[q].phase \in UpdatePhases \cup DeletePhases \cup TransferPhases
      PROVE  user'[req[q].user] # "none"
  <2>1. req[q].user \in Users
    BY <1>5, PendingSlot DEF Phases
  <2>. QED  BY <1>1, <1>2, <1>5, <2>1 DEF Fits
<1>. QED  BY <1>1, <1>3, <1>4, <1>5 DEF Fits, At

LEMMA LeftFits ==
  ASSUME NEW p \in Requests, TypeOK, Slots, req[p] \in Pending, user' = user,
         At(p, "writeLinks"), NEW d \in SUBSET req[p].drop, NEW v \in SUBSET req[p].revive,
         NEW a \in SUBSET req[p].add, Left(p, d, v, a)
  PROVE  Fits(p)' /\ req'[p].phase # "insertUser"
<1>1. CASE req'[p].phase = "idle"  BY <1>1, IdleSlot
<1>2. CASE req'[p].phase # "idle"
  <2>1. /\ req'[p].phase = "writeLinks" /\ req'[p].user = req[p].user
        /\ req'[p].keep = req[p].keep /\ req'[p].drop = d /\ req'[p].revive = v
        /\ req'[p].add = a
    BY <1>2 DEF Left
  <2>. QED
    BY <2>1 DEF Slots, Fits, At, CreatePhases, UpdatePhases, DeletePhases, TransferPhases
<1>. QED  BY <1>1, <1>2

LEMMA StepSlots ==
  ASSUME TypeOK, Slots, NEW p \in Requests, NextOf(p)
  PROVE  Slots'
<1>0. Fits(p)
  BY DEF Slots
<1>. USE DEF CreatePhases, UpdatePhases, DeletePhases, TransferPhases
<1>. SUFFICES /\ Fits(p)'
              /\ At(p, "insertUser")' => \A q \in Requests \ {p} : At(q, "insertUser") =>
                                           req[q].user # req'[p].user
  BY OtherFits DEF Slots
<1>1. CASE NewRequest(p)
  <2>1. \A q \in Requests \ {p} : req'[q] = req[q]
    BY OtherSlots
  <2>2. user' = user
    BY <1>1, NewSlot DEF NewRequest
  <2>. QED  BY <1>1, <2>1, <2>2, NewSlot DEF NewRequest, Fits, At, UserLive
<1>2. CASE InsertUser(p)
  <2>1. user'[req[p].user] = "live"
    BY <1>2, InsertSlot DEF TypeOK, Pending
  <2>. QED  BY <1>0, <1>2, <2>1, InsertSlot DEF Fits, At
<1>3. CASE CheckSuper(p)
  BY <1>0, <1>3, CheckSlot, IdleSlot DEF Fits, At
<1>4. CASE ReadLinks(p)
  <2>1. CASE req'[p].phase = "idle"  BY <2>1, IdleSlot DEF At
  <2>2. CASE req'[p].phase # "idle"
    BY <1>0, <1>4, <2>2, ReadSlot DEF Fits, At, LinksOf
  <2>. QED  BY <2>1, <2>2
<1>5. CASE DropLinks(p)
  <2>1. /\ Left(p, {}, req[p].revive, req[p].add) /\ user' = user
        /\ At(p, "writeLinks") /\ req[p] \in Pending
    BY <1>5, DropSlot
  <2>2. {} \in SUBSET req[p].drop
    OBVIOUS
  <2>3. Fits(p)' /\ req'[p].phase # "insertUser"
    BY <2>1, <2>2, LeftFits
  <2>. QED  BY <2>3 DEF At
<1>6. CASE ReviveLink(p)
  <2>1. PICK x \in req[p].revive :
          /\ Left(p, req[p].drop, req[p].revive \ {x}, req[p].add) /\ user' = user
          /\ At(p, "writeLinks") /\ req[p] \in Pending
    BY <1>6, ReviveSlot
  <2>2. req[p].revive \ {x} \in SUBSET req[p].revive
    OBVIOUS
  <2>3. Fits(p)' /\ req'[p].phase # "insertUser"
    BY <2>1, <2>2, LeftFits
  <2>. QED  BY <2>3 DEF At
<1>7. CASE AddLink(p)
  <2>1. PICK x \in req[p].add :
          /\ Left(p, req[p].drop, req[p].revive, req[p].add \ {x}) /\ user' = user
          /\ At(p, "writeLinks") /\ req[p] \in Pending
    BY <1>7, AddSlot
  <2>2. req[p].add \ {x} \in SUBSET req[p].add
    OBVIOUS
  <2>3. Fits(p)' /\ req'[p].phase # "insertUser"
    BY <2>1, <2>2, LeftFits
  <2>. QED  BY <2>3 DEF At
<1>8. CASE DestroyUser(p)  BY <1>8, DestroySlot, IdleSlot DEF At
<1>9. CASE Lock(p)
  BY <1>0, <1>9, LockSlot DEF Fits, At
<1>10. CASE CommitTransfer(p)  BY <1>10, CommitSlot, IdleSlot DEF At
<1>11. CASE Leave(p)  BY <1>11, LeaveSlot, IdleSlot DEF At
<1>. QED  BY <1>1, <1>2, <1>3, <1>4, <1>5, <1>6, <1>7, <1>8, <1>9, <1>10, <1>11, StepCases

(* Links are written for users whose row is there.                         *)
LEMMA StepUnlinked ==
  ASSUME TypeOK, Slots, Unlinked, NEW p \in Requests, NextOf(p)
  PROVE  Unlinked'
<1>0. \A u \in Users : user'[u] = "none" => user[u] = "none"
  BY UserSteps, InsertSlot, DestroySlot DEF TypeOK
<1>1. ASSUME link' = link PROVE Unlinked'
  BY <1>0, <1>1 DEF Unlinked
<1>2. ASSUME At(p, "writeLinks") \/ At(p, "commit")
      PROVE  user[req[p].user] # "none"
  BY <1>2 DEF Slots, Fits, At, UpdatePhases, TransferPhases
<1>3. CASE NewRequest(p)  BY <1>1, <1>3, NewSlot DEF NewRequest
<1>4. CASE InsertUser(p)  BY <1>1, <1>4, InsertSlot
<1>5. CASE CheckSuper(p)  BY <1>1, <1>5, CheckSlot
<1>6. CASE ReadLinks(p)  BY <1>1, <1>6, ReadSlot
<1>7. CASE DropLinks(p)  BY <1>0, <1>2, <1>7, DropSlot DEF Unlinked
<1>8. CASE ReviveLink(p)
  <2>1. /\ At(p, "writeLinks")
        /\ \A u \in Users, r \in AllRoles : u # req[p].user => link'[u][r] = link[u][r]
    BY <1>8, ReviveSlot
  <2>. QED  BY <1>0, <1>2, <2>1 DEF Unlinked
<1>9. CASE AddLink(p)
  <2>1. /\ At(p, "writeLinks")
        /\ \A u \in Users, r \in AllRoles : u # req[p].user => link'[u][r] = link[u][r]
    BY <1>9, AddSlot
  <2>. QED  BY <1>0, <1>2, <2>1 DEF Unlinked
<1>10. CASE DestroyUser(p)  BY <1>1, <1>10, DestroySlot
<1>11. CASE Lock(p)  BY <1>1, <1>11, LockSlot
<1>12. CASE CommitTransfer(p)
  <2>. SUFFICES ASSUME NEW u \in Users, NEW r \in AllRoles, user'[u] = "none"
                PROVE  link'[u][r] = "none"
    BY DEF Unlinked
  <2>1. u # req[p].user /\ \A x \in AllRoles : link[u][x] = "none"
    BY <1>0, <1>2, <1>12, CommitSlot DEF Unlinked
  <2>2. CASE r \in Roles  BY <1>12, <2>1, <2>2, CommitSlot
  <2>3. CASE r = Super  BY <1>12, <2>1, <2>3, CommitSlot DEF AllRoles
  <2>. QED  BY <2>2, <2>3 DEF AllRoles
<1>13. CASE Leave(p)  BY <1>1, <1>13, LeaveSlot
<1>. QED
  BY <1>3, <1>4, <1>5, <1>6, <1>7, <1>8, <1>9, <1>10, <1>11, <1>12, <1>13, StepCases

(* The role superadministrator is not deleted.                             *)
LEMMA StepSuperRole ==
  ASSUME TypeOK, Slots, role[Super] = "live", NEW p \in Requests, NextOf(p)
  PROVE  role'[Super] = "live"
<1>1. CASE DestroyRole(p)
  <2>1. req[p].keep \subseteq Roles /\ Super \in AllRoles
    BY <1>1 DEF DestroyRole, Slots, Fits, AllRoles
  <2>. QED  BY <1>1, <2>1, UserRolesAssumption DEF DestroyRole
<1>2. CASE ~DestroyRole(p)
  <2>1. role' = role
    BY <1>2 DEF NextOf, LinkStep, TransferStep, CreateUser, InsertUser, UpdateUser,
         CheckSuper, ReadLinks, DropLinks, ReviveLink, AddLink, DeleteRole, DeleteUser,
         DestroyUser, Transfer, LockRows, WriteRows, CommitTransfer, Login, InsertSession, FailRequest
  <2>. QED  BY <2>1
<1>. QED  BY <1>1, <1>2

-----------------------------------------------------------------------------
(* The superadministrator                                                  *)

(* Only a transfer changes who has the role, as long as what the others    *)
(* have read of it is so.                                                  *)
LEMMA SuperLinks ==
  ASSUME TypeOK, NEW p \in Requests, SuperRead(p), NextOf(p), ~CommitTransfer(p)
  PROVE  \A u \in Users : link'[u][Super] = link[u][Super]
<1>0. Super \in AllRoles
  BY DEF AllRoles
<1>1. CASE NewRequest(p)  BY <1>1, NewSlot DEF NewRequest
<1>2. CASE InsertUser(p)  BY <1>2, InsertSlot
<1>3. CASE CheckSuper(p)  BY <1>3, CheckSlot
<1>4. CASE ReadLinks(p)  BY <1>4, ReadSlot
<1>5. CASE DropLinks(p)  BY <1>0, <1>5, DropSlot DEF SuperRead
<1>6. CASE ReviveLink(p)
  <2>1. PICK x \in req[p].revive :
          /\ At(p, "writeLinks")
          /\ \A u \in Users, r \in AllRoles :
               link'[u][r] = IF u = req[p].user /\ r = x THEN "live" ELSE link[u][r]
    BY <1>6, ReviveSlot
  <2>2. x # Super
    BY <2>1 DEF SuperRead
  <2>. QED  BY <1>0, <2>1, <2>2
<1>7. CASE AddLink(p)  BY <1>0, <1>7, AddSlot DEF SuperRead
<1>8. CASE DestroyUser(p)  BY <1>8, DestroySlot
<1>9. CASE Lock(p)  BY <1>9, LockSlot
<1>10. CASE Leave(p)  BY <1>10, LeaveSlot
<1>. QED  BY <1>1, <1>2, <1>3, <1>4, <1>5, <1>6, <1>7, <1>8, <1>9, <1>10, StepCases

(* What the request that steps reads, or still has to write, agrees with   *)
(* the role.                                                               *)
LEMMA OwnSuperRead ==
  ASSUME TypeOK, Slots, NEW p \in Requests, SuperRead(p), NextOf(p), ~CommitTransfer(p)
  PROVE  SuperRead(p)'
<1>0. Super \in AllRoles /\ Super \notin Roles
  BY UserRolesAssumption DEF AllRoles
<1>1. \A u \in Users : link'[u][Super] = link[u][Super]
  BY SuperLinks
<1>. USE DEF TransferPhases
<1>2. ASSUME req'[p].phase = "idle" PROVE SuperRead(p)'
  BY <1>2, IdleSlot
<1>3. ASSUME NEW d \in SUBSET req[p].drop, NEW v \in SUBSET req[p].revive,
             NEW a \in SUBSET req[p].add, Left(p, d, v, a), At(p, "writeLinks")
      PROVE  SuperRead(p)'
  <2>1. CASE req'[p].phase = "idle"  BY <1>2, <2>1
  <2>2. CASE req'[p].phase # "idle"  BY <1>3, <2>2 DEF SuperRead, Left, At
  <2>. QED  BY <2>1, <2>2
<1>4. CASE NewRequest(p)  BY <1>4, NewSlot DEF NewRequest, SuperRead, At, UserLive
<1>5. CASE InsertUser(p)
  BY <1>0, <1>5, InsertSlot DEF SuperRead, At, Slots, Fits
<1>6. CASE CheckSuper(p)
  BY <1>2, <1>6, CheckSlot DEF SuperRead, At
<1>7. CASE ReadLinks(p)
  <2>1. CASE req'[p].phase = "idle"  BY <1>2, <2>1
  <2>2. CASE req'[p].phase # "idle"
    BY <1>7, <2>2, ReadSlot DEF SuperRead, At, LinksOf
  <2>. QED  BY <2>1, <2>2
<1>8. CASE DropLinks(p)
  <2>1. {} \in SUBSET req[p].drop
    OBVIOUS
  <2>2. Left(p, {}, req[p].revive, req[p].add) /\ At(p, "writeLinks")
    BY <1>8, DropSlot
  <2>. QED  BY <1>3, <2>1, <2>2
<1>9. CASE ReviveLink(p)
  <2>1. PICK x \in req[p].revive :
          Left(p, req[p].drop, req[p].revive \ {x}, req[p].add) /\ At(p, "writeLinks")
    BY <1>9, ReviveSlot
  <2>2. req[p].revive \ {x} \in SUBSET req[p].revive
    OBVIOUS
  <2>. QED  BY <1>3, <2>1, <2>2
<1>10. CASE AddLink(p)
  <2>1. PICK x \in req[p].add :
          Left(p, req[p].drop, req[p].revive, req[p].add \ {x}) /\ At(p, "writeLinks")
    BY <1>10, AddSlot
  <2>2. req[p].add \ {x} \in SUBSET req[p].add
    OBVIOUS
  <2>. QED  BY <1>3, <2>1, <2>2
<1>11. CASE DestroyUser(p)  BY <1>2, <1>11, DestroySlot
<1>12. CASE Lock(p)
  <2>1. \A u \in Users : link[u][Super] = "live" => u \in SuperRows
    BY DEF SuperRows
  <2>2. UserLive(req[p].user)
    BY <1>12, LockSlot DEF SuperRead, At
  <2>3. At(p, "writeRows") => \A u \in Users : link[u][Super] = "live" => u \in Locked(p)
    BY <2>1 DEF SuperRead, Locked
  <2>. QED  BY <1>12, <2>1, <2>2, <2>3, LockSlot DEF SuperRead, At, UserLive
<1>13. CASE Leave(p)  BY <1>2, <1>13, LeaveSlot
<1>. QED
  BY <1>4, <1>5, <1>6, <1>7, <1>8, <1>9, <1>10, <1>11, <1>12, <1>13, StepCases

(* A transfer leaves the role with its target alone: every row that was    *)
(* live is one that it has locked.                                         *)
LEMMA CommitHolder ==
  ASSUME TypeOK, NEW p \in Requests, SuperRead(p), CommitTransfer(p)
  PROVE  /\ user'[req[p].user] = "live" /\ req[p].user \in Users
         /\ \A u \in Users : link'[u][Super] = "live" <=> u = req[p].user
<1>1. At(p, "commit") /\ req[p].user \in Users /\ user' = user
  BY CommitSlot, PendingSlot
<1>2. user'[req[p].user] = "live"
  BY <1>1 DEF SuperRead, At, TransferPhases, UserLive
<1>3. \A u \in Users : link[u][Super] = "live" => u \in req[p].seen
  BY <1>1 DEF SuperRead
<1>4. \A u \in Users \ {req[p].user} : link'[u][Super] # "live"
  BY <1>3, CommitSlot
<1>. QED  BY <1>1, <1>2, <1>4, CommitSlot

LEMMA StepSupers ==
  ASSUME TypeOK, Slots, Supers, OneCommits, NEW p \in Requests, NextOf(p)
  PROVE  Supers'
<1>. SUFFICES ASSUME "super" \notin overlaps' PROVE (OneHolder /\ \A q \in Requests : SuperRead(q))'
  BY DEF Supers
<1>0. "super" \notin overlaps /\ OneHolder /\ \A q \in Requests : SuperRead(q)
  BY OverlapsGrow DEF Supers
<1>1. \A q \in Requests \ {p} : req'[q] = req[q]
  BY OtherSlots
<1>2. CASE CommitTransfer(p)
  <2>1. OneHolder'
    <3>1. PICK h \in Users : h = req[p].user
      BY <1>0, <1>2, CommitHolder
    <3>2. user'[h] = "live" /\ \A u \in Users : link'[u][Super] = "live" <=> u = h
      BY <1>0, <1>2, <3>1, CommitHolder
    <3>. QED  BY <3>2 DEF OneHolder, UserLive
  <2>2. SuperRead(p)'
    BY <1>2, CommitSlot, IdleSlot
  <2>3. ASSUME NEW q \in Requests \ {p} PROVE SuperRead(q)'
    <3>1. /\ req[q].phase \notin {"readLinks", "writeLinks", "destroyUser"}
          /\ Postgres => req[q].phase # "writeRows"
          /\ req[q].phase # "commit"
      BY <1>2, CommitSlot DEF TransferOverlap, Others, OneCommits, At
    <3>2. req[q].phase \in TransferPhases => user'[req[q].user] = "live"
      BY <1>0, <1>2, CommitSlot DEF SuperRead, UserLive
    <3>. QED  BY <1>1, <3>1, <3>2 DEF SuperRead, At, UserLive
  <2>. QED  BY <2>1, <2>2, <2>3
<1>3. CASE ~CommitTransfer(p)
  <2>1. \A u \in Users : link'[u][Super] = link[u][Super]
    BY <1>0, <1>3, SuperLinks
  <2>2. ASSUME NEW u \in Users, UserLive(u)
        PROVE  user'[u] = "live" \/ (DestroyUser(p) /\ At(p, "destroyUser") /\ u = req[p].user)
    BY <2>2, UserSteps, InsertSlot, DestroySlot DEF TypeOK, UserLive
  <2>3. OneHolder'
    <3>1. PICK h \in Users : /\ UserLive(h)
                             /\ \A u \in Users : link[u][Super] = "live" <=> u = h
      BY <1>0 DEF OneHolder
    <3>2. user'[h] = "live"
      BY <1>0, <2>2, <3>1 DEF SuperRead
    <3>. QED  BY <2>1, <3>1, <3>2 DEF OneHolder, UserLive
  <2>4. ASSUME NEW q \in Requests \ {p} PROVE SuperRead(q)'
    <3>0. SuperRead(q) /\ req'[q] = req[q]
      BY <1>0, <1>1
    <3>1. req[q].phase \in Phases => req[q].user \in Users
      BY PendingSlot
    <3>2. ASSUME req[q].phase \in TransferPhases PROVE user'[req[q].user] = "live"
      <4>1. req[q].user \in Users /\ UserLive(req[q].user)
        BY <3>0, <3>1, <3>2 DEF SuperRead, Phases
      <4>2. CASE DestroyUser(p) /\ req[q].user = req[p].user
        <5>1. q \in Others(p, TransferPhases)
          BY <3>2 DEF Others
        <5>2. DeleteOverlap(p) = {"super"}
          BY <4>2, <5>1 DEF DeleteOverlap
        <5>3. overlaps' = overlaps \cup DeleteOverlap(p)
          BY <4>2, DestroySlot
        <5>. QED  BY <5>2, <5>3
      <4>. QED  BY <2>2, <4>1, <4>2
    <3>3. \A s \in {"readLinks", "writeLinks", "destroyUser", "writeRows", "commit"} : s \in Phases
      BY DEF Phases, UpdatePhases, DeletePhases, TransferPhases
    <3>. QED  BY <2>1, <3>0, <3>1, <3>2, <3>3 DEF SuperRead, At, UserLive
  <2>5. SuperRead(p)'
    BY <1>0, <1>3, OwnSuperRead
  <2>. QED  BY <2>3, <2>4, <2>5
<1>. QED  BY <1>2, <1>3

(* Who loses the role loses the sessions that claim it, but for a login    *)
(* that had read it.                                                       *)
LEMMA StepClaims ==
  ASSUME TypeOK, Supers, Claims, Found, NEW p \in Requests, NextOf(p)
  PROVE  Claims'
<1>. SUFFICES ASSUME overlaps' \cap {"super", "login"} = {} PROVE ClaimsHold'
  BY DEF Claims
<1>0. /\ ClaimsHold /\ "super" \notin overlaps /\ "login" \notin overlaps
      /\ \A q \in Requests : SuperRead(q)
  BY OverlapsGrow DEF Claims, Supers
<1>1. \A q \in Requests \ {p} : req'[q] = req[q]
  BY OtherSlots
<1>2. \A s \in Sessions : session[s].user \in Users
  BY DEF TypeOK
<1>3. \A q \in Requests : At(q, "insertSession") => req[q].user \in Users
  BY PendingSlot DEF At, Phases, LoginPhases
<1>4. CASE CommitTransfer(p)
  <2>1. \A u \in Users : link'[u][Super] = "live" <=> u = req[p].user
    BY <1>0, <1>4, CommitHolder
  <2>2. ASSUME NEW s \in Sessions, session'[s].live, session'[s].super
        PROVE  link'[session'[s].user][Super] = "live"
    <3>1. session'[s] # NoSession
      BY <2>2 DEF NoSession
    <3>2. /\ session'[s] = session[s]
          /\ s \notin req[p].ended
      BY <1>4, <3>1, CommitSlot
    <3>3. link[session[s].user][Super] = "live"
      BY <1>0, <2>2, <3>2 DEF ClaimsHold
    <3>4. SessionsFound(p) /\ At(p, "commit")
      BY <1>0, <1>4, CommitSlot DEF Found
    <3>. QED  BY <2>2, <3>2, <3>3, <3>4 DEF SessionsFound
  <2>3. ASSUME NEW q \in Requests PROVE ~At(q, "insertSession")'
    <3>1. CASE q = p  BY <1>4, <3>1, CommitSlot DEF At
    <3>2. CASE q # p
      <4>1. ASSUME At(q, "insertSession") PROVE FALSE
        <5>1. q \in Others(p, {"insertSession"})
          BY <3>2, <4>1 DEF Others, At
        <5>2. "login" \in TransferOverlap(p)
          BY <5>1 DEF TransferOverlap
        <5>. QED  BY <1>4, <5>2, CommitSlot
      <4>. QED  BY <1>1, <3>2, <4>1 DEF At
    <3>. QED  BY <3>1, <3>2
  <2>. QED  BY <2>2, <2>3 DEF ClaimsHold
<1>5. CASE ~CommitTransfer(p)
  <2>1. \A u \in Users : link'[u][Super] = link[u][Super]
    BY <1>0, <1>5, SuperLinks
  <2>2. ASSUME NEW s \in Sessions, session'[s].live, session'[s].super
        PROVE  link'[session'[s].user][Super] = "live"
    <3>1. CASE InsertSession(p)
      <4>1. At(p, "insertSession")
        BY <3>1 DEF InsertSession
      <4>2. \/ session'[s] = session[s]
            \/ session'[s].user = req[p].user /\ session'[s].super = req[p].super
        BY <3>1 DEF InsertSession, TypeOK
      <4>. QED  BY <1>0, <1>2, <1>3, <2>1, <2>2, <4>1, <4>2 DEF ClaimsHold
    <3>2. CASE ~InsertSession(p)
      <4>1. session' = session
        BY <1>5, <3>2 DEF NextOf, LinkStep, TransferStep, CreateUser, InsertUser, UpdateUser,
             CheckSuper, ReadLinks, DropLinks, ReviveLink, AddLink, DeleteRole, DestroyRole,
             DeleteUser, DestroyUser, Transfer, LockRows, WriteRows, Login, FailRequest
      <4>. QED  BY <1>0, <1>2, <2>1, <2>2, <4>1 DEF ClaimsHold
    <3>. QED  BY <3>1, <3>2
  <2>3. ASSUME NEW q \in Requests \ {p}, At(q, "insertSession")', req'[q].super
        PROVE  link'[req'[q].user][Super] = "live"
    BY <1>0, <1>1, <1>3, <2>1, <2>3 DEF ClaimsHold, At
  <2>4. ASSUME At(p, "insertSession")', req'[p].super
        PROVE  link'[req'[p].user][Super] = "live"
    <3>1. NewRequest(p)
      BY <2>4, StepCases, InsertSlot, CheckSlot, ReadSlot, DropSlot, ReviveSlot, AddSlot,
         DestroySlot, LockSlot, LeaveSlot, CommitSlot DEF At, Left
    <3>. QED  BY <2>4, <3>1, NewSlot DEF NewRequest, At
  <2>. QED  BY <2>2, <2>3, <2>4 DEF ClaimsHold
<1>. QED  BY <1>4, <1>5

(* A transfer gets the locks when no other has them.                       *)
LEMMA CommitBegins ==
  ASSUME TypeOK, NEW p \in Requests, NextOf(p), At(p, "commit")'
  PROVE  Lock(p) /\ Others(p, {"commit"}) = {}
<1>. USE DEF At
<1>1. CASE NewRequest(p)  BY <1>1, NewSlot DEF NewRequest
<1>2. CASE InsertUser(p)  BY <1>2, InsertSlot
<1>3. CASE CheckSuper(p)  BY <1>3, CheckSlot
<1>4. CASE ReadLinks(p)  BY <1>4, ReadSlot
<1>5. CASE DropLinks(p)  BY <1>5, DropSlot DEF Left
<1>6. CASE ReviveLink(p)  BY <1>6, ReviveSlot DEF Left
<1>7. CASE AddLink(p)  BY <1>7, AddSlot DEF Left
<1>8. CASE DestroyUser(p)  BY <1>8, DestroySlot
<1>9. CASE Lock(p)  BY <1>9, LockSlot
<1>10. CASE CommitTransfer(p)  BY <1>10, CommitSlot
<1>11. CASE Leave(p)  BY <1>11, LeaveSlot
<1>. QED  BY <1>1, <1>2, <1>3, <1>4, <1>5, <1>6, <1>7, <1>8, <1>9, <1>10, <1>11, StepCases

LEMMA StepOneCommits ==
  ASSUME TypeOK, OneCommits, NEW p \in Requests, NextOf(p)
  PROVE  OneCommits'
<1>1. \A q \in Requests \ {p} : req'[q] = req[q]
  BY OtherSlots
<1>2. ASSUME NEW q \in Requests \ {p}, At(p, "commit")', At(q, "commit")' PROVE FALSE
  <2>1. q \in Others(p, {"commit"})
    BY <1>1, <1>2 DEF Others, At
  <2>. QED  BY <1>2, <2>1, CommitBegins
<1>. QED  BY <1>1, <1>2 DEF OneCommits, At

(* A login inserts a session of nobody whose sessions have been found, or, *)
(* on PostgreSQL, its overlap is recorded.                                 *)
LEMMA StepFound ==
  ASSUME TypeOK, Supers, OneCommits, Found, NEW p \in Requests, NextOf(p)
  PROVE  Found'
<1>. SUFFICES ASSUME "super" \notin overlaps', ~(Postgres /\ "login" \in overlaps'),
                     NEW q \in Requests, At(q, "commit")',
                     NEW s \in Sessions, session'[s].live,
                     link'[session'[s].user][Super] = "live" \/ session'[s].user = req'[q].user
              PROVE  s \in req'[q].ended
  BY DEF Found, SessionsFound
<1>0. /\ \A x \in Requests : SuperRead(x) /\ SessionsFound(x)
      /\ "super" \notin overlaps /\ ~(Postgres /\ "login" \in overlaps)
  BY OverlapsGrow DEF Supers, Found
<1>1. \A x \in Requests \ {p} : req'[x] = req[x]
  BY OtherSlots
<1>2. ~CommitTransfer(p)
  <2>. SUFFICES ASSUME CommitTransfer(p) PROVE FALSE
    OBVIOUS
  <2>1. At(p, "commit") /\ req'[p].phase = "idle"
    BY CommitSlot
  <2>. QED  BY <1>1, <2>1 DEF At, OneCommits
<1>3. \A u \in Users : link'[u][Super] = link[u][Super]
  BY <1>0, <1>2, SuperLinks
<1>4. session[s].user \in Users
  BY DEF TypeOK
<1>5. CASE InsertSession(p)
  <2>1. /\ At(p, "insertSession") /\ req'[p].phase = "idle" /\ overlaps' = overlaps \cup LoginOverlap(p)
        /\ Postgres \/ req[p].user \notin Held
    BY <1>5, LeaveSlot DEF InsertSession, Leave
  <2>2. q # p /\ req'[q] = req[q] /\ At(q, "commit")
    BY <1>1, <2>1 DEF At
  <2>3. req[p].user \notin Held
    BY <2>1 DEF LoginOverlap
  <2>4. req[p].user \notin req[q].seen /\ req[p].user # req[q].user
    BY <2>2, <2>3 DEF Held
  <2>5. req[p].user \in Users
    BY <2>1, PendingSlot DEF At, Phases, LoginPhases
  <2>6. link[req[p].user][Super] # "live"
    BY <1>0, <2>2, <2>4, <2>5 DEF SuperRead
  <2>7. session'[s].user = req[p].user \/ session'[s] = session[s]
    BY <1>5 DEF InsertSession, TypeOK
  <2>8. session'[s] = session[s]
    BY <1>3, <2>2, <2>4, <2>5, <2>6, <2>7
  <2>. QED  BY <1>0, <1>3, <1>4, <2>2, <2>8 DEF SessionsFound
<1>6. CASE ~InsertSession(p)
  <2>1. session' = session
    BY <1>2, <1>6 DEF NextOf, LinkStep, TransferStep, CreateUser, InsertUser, UpdateUser,
         CheckSuper, ReadLinks, DropLinks, ReviveLink, AddLink, DeleteRole, DestroyRole,
         DeleteUser, DestroyUser, Transfer, LockRows, WriteRows, Login, FailRequest
  <2>2. CASE q = p
    <3>1. Lock(p) /\ req'[p].phase = "commit"
      BY <2>2, CommitBegins DEF At
    <3>2. /\ At(p, "writeRows") /\ req'[p].user = req[p].user
          /\ \A x \in Sessions :
               session[x].live /\ session[x].user \in Affected(p) => x \in req'[p].ended
      BY <3>1, LockSlot DEF At
    <3>3. link[session[s].user][Super] = "live" => session[s].user \in Locked(p) \cap Holders
      BY <1>0, <1>4, <3>2 DEF SuperRead, Locked, SuperRows, Holders, LinksOf, AllRoles
    <3>4. session[s].user \in Affected(p)
      BY <1>3, <1>4, <2>1, <2>2, <3>2, <3>3 DEF Affected
    <3>. QED  BY <2>1, <2>2, <3>2, <3>4
  <2>3. CASE q # p
    BY <1>0, <1>1, <1>3, <1>4, <2>1, <2>3 DEF SessionsFound, At
  <2>. QED  BY <2>2, <2>3
<1>. QED  BY <1>5, <1>6

-----------------------------------------------------------------------------
(* Deleted roles                                                           *)

LEMMA RoleSteps ==
  ASSUME NEW p \in Requests, NextOf(p)
  PROVE  role' = role \/ DestroyRole(p)
BY DEF NextOf, LinkStep, TransferStep, CreateUser, InsertUser, UpdateUser, CheckSuper,
   ReadLinks, DropLinks, ReviveLink, AddLink, DeleteRole, DeleteUser, DestroyUser, Transfer,
   LockRows, WriteRows, CommitTransfer, Login, InsertSession, FailRequest

(* A link becomes live by a transfer, or by an update that asks for it.    *)
LEMMA LinkSteps ==
  ASSUME TypeOK, NEW p \in Requests, NextOf(p), NEW u \in Users, NEW r \in AllRoles,
         link'[u][r] = "live", link[u][r] # "live"
  PROVE  \/ r = Super /\ CommitTransfer(p)
         \/ /\ At(p, "writeLinks") /\ r \in req[p].revive \cup req[p].add
            /\ overlaps' = overlaps \cup AssignOverlap(p, r)
<1>1. CASE NewRequest(p)  BY <1>1, NewSlot DEF NewRequest
<1>2. CASE InsertUser(p)  BY <1>2, InsertSlot
<1>3. CASE CheckSuper(p)  BY <1>3, CheckSlot
<1>4. CASE ReadLinks(p)  BY <1>4, ReadSlot
<1>5. CASE DropLinks(p)  BY <1>5, DropSlot
<1>6. CASE ReviveLink(p)  BY <1>6, ReviveSlot
<1>7. CASE AddLink(p)  BY <1>7, AddSlot
<1>8. CASE DestroyUser(p)  BY <1>8, DestroySlot
<1>9. CASE Lock(p)  BY <1>9, LockSlot
<1>10. CASE CommitTransfer(p)  BY <1>10, CommitSlot DEF AllRoles
<1>11. CASE Leave(p)  BY <1>11, LeaveSlot
<1>. QED  BY <1>1, <1>2, <1>3, <1>4, <1>5, <1>6, <1>7, <1>8, <1>9, <1>10, <1>11, StepCases

(* A request that goes on asks for the same roles.                         *)
LEMMA KeepSteps ==
  ASSUME TypeOK, NEW p \in Requests, NextOf(p)
  PROVE  \/ NewRequest(p)
         \/ req'[p].phase \in {"idle", "writeRows", "commit"}
         \/ /\ req[p].phase \in CreatePhases \cup UpdatePhases
            /\ req'[p].phase \in UpdatePhases
            /\ req'[p].keep = req[p].keep /\ req'[p].user = req[p].user
            /\ ~Leave(p)
<1>. USE DEF CreatePhases, UpdatePhases, At
<1>2. CASE InsertUser(p)
  BY <1>2, InsertSlot DEF Leave, DestroyRole, InsertSession, FailRequest, Answer, Idle, TypeOK
<1>3. CASE CheckSuper(p) /\ ~Leave(p)  BY <1>3, CheckSlot
<1>4. CASE ReadLinks(p) /\ ~Leave(p)  BY <1>4, ReadSlot
<1>5. CASE DropLinks(p) /\ ~Leave(p)  BY <1>5, DropSlot DEF Left
<1>6. CASE ReviveLink(p) /\ ~Leave(p)  BY <1>6, ReviveSlot DEF Left
<1>7. CASE AddLink(p) /\ ~Leave(p)  BY <1>7, AddSlot DEF Left
<1>8. CASE DestroyUser(p)  BY <1>8, DestroySlot
<1>9. CASE Lock(p)  BY <1>9, LockSlot
<1>10. CASE CommitTransfer(p)  BY <1>10, CommitSlot
<1>11. CASE Leave(p)  BY <1>11, LeaveSlot
<1>. QED  BY <1>2, <1>3, <1>4, <1>5, <1>6, <1>7, <1>8, <1>9, <1>10, <1>11, StepCases

LEMMA StepLinkedRoles ==
  ASSUME TypeOK, Slots, role[Super] = "live", LinkedRoles, NEW p \in Requests, NextOf(p)
  PROVE  LinkedRoles'
<1>. SUFFICES ASSUME "role" \notin overlaps'
              PROVE  LinkedLive' /\ \A q \in Requests : RolesRead(q)'
  BY DEF LinkedRoles
<1>0. "role" \notin overlaps /\ LinkedLive /\ \A q \in Requests : RolesRead(q)
  BY OverlapsGrow DEF LinkedRoles
<1>1. \A q \in Requests \ {p} : req'[q] = req[q]
  BY OtherSlots
<1>2. \A q \in Requests : req[q].phase \in Phases => req[q].keep \subseteq AllRoles
  BY PendingSlot
<1>3. /\ DestroyRole(p) => /\ link' = link /\ At(p, "destroyRole")
                           /\ overlaps' = overlaps \cup DestroyOverlap(p)
                           /\ req[p].keep \subseteq Roles
                           /\ \A r \in AllRoles \ req[p].keep : role'[r] = role[r]
      /\ ~DestroyRole(p) => role' = role
  BY RoleSteps DEF DestroyRole, Slots, Fits
<1>4. ASSUME At(p, "writeLinks") PROVE \A r \in req[p].revive \cup req[p].add : RoleLive(r)
  BY <1>0, <1>4 DEF Slots, Fits, RolesRead, At, UpdatePhases
<1>5. LinkedLive'
  <2>. SUFFICES ASSUME NEW u \in Users, NEW r \in AllRoles, link'[u][r] = "live"
                PROVE  role'[r] = "live"
    BY DEF LinkedLive, RoleLive
  <2>1. CASE DestroyRole(p)
    <3>1. link[u][r] = "live" /\ r \notin req[p].keep
      BY <1>0, <1>3, <2>1 DEF RolesRead
    <3>. QED  BY <1>0, <1>3, <2>1, <3>1 DEF LinkedLive, RoleLive
  <2>2. CASE ~DestroyRole(p)
    <3>1. CASE link[u][r] = "live"  BY <1>0, <1>3, <2>2, <3>1 DEF LinkedLive, RoleLive
    <3>2. CASE link[u][r] # "live"  BY <1>3, <1>4, <2>2, <3>2, LinkSteps DEF RoleLive
    <3>. QED  BY <3>1, <3>2
  <2>. QED  BY <2>1, <2>2
<1>6. ASSUME NEW q \in Requests \ {p} PROVE RolesRead(q)'
  <2>0. req'[q] = req[q] /\ RolesRead(q)
    BY <1>0, <1>1
  <2>1. ASSUME req[q].phase \in CreatePhases \cup UpdatePhases, NEW r \in req[q].keep
        PROVE  role'[r] = "live"
    <3>1. role[r] = "live" /\ r \in AllRoles
      BY <1>2, <2>0, <2>1 DEF RolesRead, RoleLive, Phases
    <3>2. CASE DestroyRole(p)
      <4>1. ASSUME r \in req[p].keep PROVE FALSE
        <5>1. q \in Others(p, CreatePhases \cup UpdatePhases)
          BY <2>1 DEF Others
        <5>2. DestroyOverlap(p) = {"role"}
          BY <2>1, <4>1, <5>1 DEF DestroyOverlap
        <5>. QED  BY <1>3, <3>2, <5>2
      <4>. QED  BY <1>3, <3>1, <3>2, <4>1
    <3>. QED  BY <1>3, <3>1, <3>2
  <2>2. ASSUME At(q, "destroyRole"), NEW u \in Users, NEW r \in req[q].keep
        PROVE  link'[u][r] # "live"
    <3>1. /\ link[u][r] # "live" /\ r \in AllRoles /\ r # Super
      BY <2>0, <2>2, UserRolesAssumption DEF RolesRead, Slots, Fits, AllRoles
    <3>2. AssignOverlap(p, r) = {"role"}
      <4>1. q \in Others(p, RolePhases)
        BY <2>2 DEF Others, At, RolePhases
      <4>. QED  BY <2>2, <4>1 DEF AssignOverlap
    <3>. QED  BY <3>1, <3>2, LinkSteps
  <2>. QED  BY <2>0, <2>1, <2>2 DEF RolesRead, RoleLive, At
<1>7. RolesRead(p)'
  <2>1. CASE NewRequest(p)
    <3>1. UNCHANGED <<role, link>>
      BY <2>1, NewSlot DEF NewRequest
    <3>. QED
      BY <2>1, <3>1, NewSlot DEF NewRequest, RolesRead, RoleLive, At, CreatePhases,
         UpdatePhases
  <2>2. CASE req'[p].phase = "idle"  BY <2>2, IdleSlot
  <2>3. CASE req'[p].phase \in {"writeRows", "commit"}
    BY <2>3 DEF RolesRead, At, CreatePhases, UpdatePhases
  <2>4. CASE /\ req[p].phase \in CreatePhases \cup UpdatePhases
             /\ req'[p].phase \in UpdatePhases
             /\ req'[p].keep = req[p].keep /\ ~Leave(p)
    <3>1. role' = role
      BY <2>4, RoleSteps DEF Leave
    <3>. QED  BY <1>0, <2>4, <3>1 DEF RolesRead, RoleLive, At, UpdatePhases
  <2>. QED  BY <2>1, <2>2, <2>3, <2>4, KeepSteps
<1>. QED  BY <1>5, <1>6, <1>7

-----------------------------------------------------------------------------
(* Users without a role                                                    *)

(* A request that is not writing leaves who is being written alone.        *)
LEMMA WritingKept ==
  ASSUME NEW p \in Requests, ~At(p, "writeLinks"), NEW u,
         \A q \in Requests \ {p} : req'[q] = req[q], Writing(u)
  PROVE  Writing(u)'
<1>1. PICK q \in Requests : At(q, "writeLinks") /\ req[q].user = u
  BY DEF Writing
<1>. QED  BY <1>1 DEF Writing, At

(* The links of a user change in the step of the request that writes them, *)
(* or the superadministrator role is given to it or taken from it.         *)
LEMMA HasRoleKept ==
  ASSUME TypeOK, NEW p \in Requests, ~At(p, "writeLinks"), NEW u \in Users, HasRole(u),
         \A q \in Requests \ {p} : req'[q] = req[q],
         user'[u] = "live" => UserLive(u),
         \A r \in AllRoles : link[u][r] = "live" =>
           link'[u][r] = "live" \/ (r = Super /\ link'[u][r] = "deleted"),
         link[u][Super] = "deleted" => link'[u][Super] \in {"live", "deleted"}
  PROVE  HasRole(u)'
<1>. SUFFICES ASSUME user'[u] = "live"
              PROVE  \/ \E r \in AllRoles : link'[u][r] = "live"
                     \/ Writing(u)'
                     \/ link'[u][Super] = "deleted"
  BY DEF HasRole, UserLive
<1>1. CASE \E r \in AllRoles : link[u][r] = "live"  BY <1>1
<1>2. CASE Writing(u)  BY <1>2, WritingKept
<1>3. CASE link[u][Super] = "deleted"  BY <1>3 DEF AllRoles
<1>. QED  BY <1>1, <1>2, <1>3 DEF HasRole, UserLive

(* What the others have still to write does not depend on this one.        *)
LEMMA OtherLinksRead ==
  ASSUME TypeOK, NEW p \in Requests, NEW q \in Requests \ {p}, LinksRead(q),
         \A q1 \in Requests \ {p} : req'[q1] = req[q1],
         At(p, "writeLinks")' /\ At(q, "writeLinks") => req'[p].user # req[q].user,
         At(q, "writeLinks") =>
           \A r \in AllRoles :
             \/ link'[req[q].user][r] = link[req[q].user][r]
             \/ /\ r = Super
                /\ link[req[q].user][r] \in {"live", "deleted"} =>
                     link'[req[q].user][r] \in {"live", "deleted"}
  PROVE  LinksRead(q)'
<1>. SUFFICES ASSUME At(q, "writeLinks") PROVE LinksRead(q)'
  BY DEF LinksRead, At
<1>0. req'[q] = req[q] /\ req[q].keep \subseteq AllRoles /\ req[q].add \subseteq AllRoles
  BY PendingSlot DEF At, Phases, UpdatePhases
<1>1. ASSUME NEW q1 \in Requests \ {q}, At(q1, "writeLinks")'
      PROVE  req'[q1].user # req[q].user
  <2>1. CASE q1 = p  BY <1>1, <2>1 DEF At
  <2>2. CASE q1 # p  BY <1>1, <2>2 DEF LinksRead, At
  <2>. QED  BY <2>1, <2>2
<1>2. ASSUME NEW r \in req[q].keep \ (req[q].revive \cup req[q].add)
      PROVE  \/ link'[req[q].user][r] = "live"
             \/ r = Super /\ link'[req[q].user][r] = "deleted"
  <2>1. r \in AllRoles
    BY <1>0
  <2>2. link[req[q].user][r] = "live" \/ (r = Super /\ link[req[q].user][r] = "deleted")
    BY <1>2 DEF LinksRead
  <2>. QED  BY <2>1, <2>2
<1>3. ASSUME NEW r \in req[q].add \ {Super}
      PROVE  link'[req[q].user][r] = "none"
  BY <1>0, <1>3 DEF LinksRead
<1>. QED  BY <1>0, <1>1, <1>2, <1>3 DEF LinksRead, At

(* The links that are written, and what is left to write.                  *)
LEMMA WriteRoles ==
  ASSUME TypeOK, Slots, NEW p \in Requests, req[p] \in Pending, At(p, "writeLinks"),
         \A u \in Users : HasRole(u), \A q \in Requests : LinksRead(q), user' = user,
         NEW d \in SUBSET req[p].drop, NEW v \in SUBSET req[p].revive,
         NEW a \in SUBSET req[p].add, Left(p, d, v, a),
         \A u \in Users \ {req[p].user}, r \in AllRoles : link'[u][r] = link[u][r],
         \A r \in req[p].keep \ (v \cup a) :
           \/ link'[req[p].user][r] = "live"
           \/ r = Super /\ link'[req[p].user][r] = "deleted",
         \A r \in a \ {Super} : link'[req[p].user][r] = "none"
  PROVE  (\A u \in Users : HasRole(u))' /\ \A q \in Requests : LinksRead(q)'
<1>0. \A q \in Requests \ {p} : req'[q] = req[q]
  BY DEF Left
<1>1. \A q \in Requests \ {p} : At(q, "writeLinks") =>
        req[q].user \in Users /\ req[q].user # req[p].user
  BY PendingSlot DEF LinksRead, At, Phases, UpdatePhases
<1>2. req'[p].phase = "writeLinks" => req'[p].user = req[p].user
  BY DEF Left
<1>3. \A q \in Requests \ {p} : LinksRead(q)'
  <2>. TAKE q \in Requests \ {p}
  <2>1. At(p, "writeLinks")' /\ At(q, "writeLinks") => req'[p].user # req[q].user
    BY <1>1, <1>2 DEF At
  <2>. QED  BY <1>0, <1>1, <2>1, OtherLinksRead
<1>4. LinksRead(p)'
  <2>1. CASE req'[p].phase = "idle"  BY <2>1, IdleSlot
  <2>2. CASE req'[p].phase # "idle"
    <3>1. /\ req'[p].phase = "writeLinks" /\ req'[p].user = req[p].user
          /\ req'[p].keep = req[p].keep /\ req'[p].drop = d /\ req'[p].revive = v
          /\ req'[p].add = a
      BY <2>2 DEF Left
    <3>. QED  BY <1>0, <1>1, <3>1 DEF LinksRead, At
  <2>. QED  BY <2>1, <2>2
<1>5. ASSUME NEW u \in Users PROVE HasRole(u)'
  <2>. SUFFICES ASSUME user[u] = "live"
                PROVE  \/ \E r \in AllRoles : link'[u][r] = "live"
                       \/ Writing(u)'
                       \/ link'[u][Super] = "deleted"
    BY DEF HasRole, UserLive
  <2>1. CASE u # req[p].user
    <3>1. CASE Writing(u)
      <4>1. PICK q \in Requests : At(q, "writeLinks") /\ req[q].user = u
        BY <3>1 DEF Writing
      <4>. QED  BY <1>0, <2>1, <4>1 DEF Writing, At
    <3>2. CASE ~Writing(u)
      BY <2>1, <3>2 DEF HasRole, UserLive, AllRoles
    <3>. QED  BY <3>1, <3>2
  <2>2. CASE u = req[p].user /\ req'[p].phase = "idle"
    <3>1. req[p].keep # {} /\ req[p].keep \subseteq AllRoles
      BY PendingSlot DEF Slots, Fits, At, UpdatePhases
    <3>2. v \cup a = {}
      BY <2>2 DEF Left
    <3>. QED  BY <2>2, <3>1, <3>2
  <2>3. CASE u = req[p].user /\ req'[p].phase # "idle"
    BY <2>3 DEF Left, Writing, At
  <2>. QED  BY <2>1, <2>2, <2>3
<1>. QED  BY <1>3, <1>4, <1>5

LEMMA StepHaveRoles ==
  ASSUME TypeOK, Slots, Unlinked, HaveRoles, NEW p \in Requests, NextOf(p)
  PROVE  HaveRoles'
<1>. SUFFICES ASSUME "links" \notin overlaps'
              PROVE  (\A u \in Users : HasRole(u))' /\ \A q \in Requests : LinksRead(q)'
  BY DEF HaveRoles
<1>0. /\ "links" \notin overlaps
      /\ \A u \in Users : HasRole(u)
      /\ \A q \in Requests : LinksRead(q)
  BY OverlapsGrow DEF HaveRoles
<1>1. \A q \in Requests \ {p} : req'[q] = req[q]
  BY OtherSlots
<1>2. \A q \in Requests : At(q, "writeLinks") => req[q].user \in Users
  BY PendingSlot DEF At, Phases, UpdatePhases
(* Where no link changes, or a transfer has been made.                     *)
<1>3. ASSUME ~At(p, "writeLinks"), req'[p].phase # "writeLinks",
             \A u \in Users : user'[u] = "live" => UserLive(u),
             \A u \in Users, r \in AllRoles :
               \/ link'[u][r] = link[u][r]
               \/ /\ r = Super
                  /\ link[u][r] = "live" => link'[u][r] \in {"live", "deleted"}
                  /\ link[u][r] = "deleted" => link'[u][r] \in {"live", "deleted"}
      PROVE  (\A u \in Users : HasRole(u))' /\ \A q \in Requests : LinksRead(q)'
  <2>1. \A u \in Users : HasRole(u)'
    <3>. TAKE u \in Users
    <3>1. \A r \in AllRoles : link[u][r] = "live" =>
            link'[u][r] = "live" \/ (r = Super /\ link'[u][r] = "deleted")
      BY <1>3
    <3>2. link[u][Super] = "deleted" => link'[u][Super] \in {"live", "deleted"}
      BY <1>3 DEF AllRoles
    <3>. QED  BY <1>0, <1>1, <1>3, <3>1, <3>2, HasRoleKept
  <2>2. ASSUME NEW q \in Requests \ {p} PROVE LinksRead(q)'
    <3>1. At(q, "writeLinks") =>
            \A r \in AllRoles :
              \/ link'[req[q].user][r] = link[req[q].user][r]
              \/ /\ r = Super
                 /\ link[req[q].user][r] \in {"live", "deleted"} =>
                      link'[req[q].user][r] \in {"live", "deleted"}
      BY <1>2, <1>3
    <3>2. ~At(p, "writeLinks")'
      BY <1>3 DEF At
    <3>. QED  BY <1>0, <1>1, <3>1, <3>2, OtherLinksRead
  <2>3. LinksRead(p)'
    BY <1>3 DEF LinksRead, At
  <2>. QED  BY <2>1, <2>2, <2>3
<1>4. CASE NewRequest(p)
  <2>1. ~At(p, "writeLinks")
    BY <1>4 DEF NewRequest, CreateUser, UpdateUser, DeleteUser, Transfer, DeleteRole, Login, At
  <2>2. UNCHANGED <<user, link>> /\ req'[p].phase # "writeLinks"
    BY <1>4, NewSlot DEF NewRequest
  <2>. QED  BY <1>3, <2>1, <2>2 DEF UserLive
<1>5. CASE InsertUser(p)
  <2>1. /\ At(p, "insertUser") /\ link' = link /\ req[p] \in Pending
        /\ req'[p].phase = "writeLinks" /\ req'[p].user = req[p].user
        /\ req'[p].keep = req[p].keep /\ req'[p].add = req[p].keep
        /\ user' = [user EXCEPT ![req[p].user] = "live"]
    BY <1>5, InsertSlot
  <2>2. /\ req[p].user \in Users /\ user[req[p].user] = "none"
        /\ req[p].keep \subseteq Roles /\ \A r \in AllRoles : link[req[p].user][r] = "none"
    BY <2>1, PendingSlot DEF Slots, Fits, Unlinked
  <2>3. \A q \in Requests : At(q, "writeLinks") => req[q].user # req[p].user
    BY <2>2 DEF Slots, Fits, At, UpdatePhases
  <2>4. ASSUME NEW u \in Users PROVE HasRole(u)'
    <3>1. CASE u = req[p].user
      BY <2>1, <3>1 DEF HasRole, Writing, At
    <3>2. CASE u # req[p].user
      <4>1. user'[u] = "live" => UserLive(u)
        BY <2>1, <3>2 DEF UserLive, TypeOK
      <4>2. ~At(p, "writeLinks")
        BY <2>1 DEF At
      <4>. QED  BY <1>0, <1>1, <2>1, <4>1, <4>2, HasRoleKept
    <3>. QED  BY <3>1, <3>2
  <2>5. ASSUME NEW q \in Requests \ {p} PROVE LinksRead(q)'
    <3>1. At(p, "writeLinks")' /\ At(q, "writeLinks") => req'[p].user # req[q].user
      BY <2>1, <2>3
    <3>. QED  BY <1>0, <1>1, <2>1, <3>1, OtherLinksRead
  <2>6. LinksRead(p)'
    <3>1. \A q \in Requests \ {p} : At(q, "writeLinks")' => req'[q].user # req'[p].user
      BY <1>1, <2>1, <2>3 DEF At
    <3>2. \A r \in req[p].keep : link'[req'[p].user][r] = "none"
      BY <2>1, <2>2 DEF AllRoles
    <3>. QED  BY <2>1, <3>1, <3>2 DEF LinksRead
  <2>. QED  BY <2>4, <2>5, <2>6
<1>6. CASE CheckSuper(p)
  <2>1. ~At(p, "writeLinks") /\ UNCHANGED <<user, link>> /\ req'[p].phase # "writeLinks"
    BY <1>6, CheckSlot DEF At
  <2>. QED  BY <1>3, <2>1 DEF UserLive
<1>7. CASE ReadLinks(p)
  <2>1. /\ ~At(p, "writeLinks") /\ UNCHANGED <<user, link>> /\ req[p] \in Pending
        /\ overlaps' = overlaps \cup WriteOverlap(p)
    BY <1>7, ReadSlot DEF At
  <2>2. CASE req'[p].phase = "idle"
    BY <1>3, <2>1, <2>2 DEF UserLive
  <2>3. CASE req'[p].phase # "idle"
    <3>1. /\ req'[p].phase = "writeLinks" /\ req'[p].user = req[p].user
          /\ req'[p].keep = req[p].keep
          /\ req'[p].revive = {r \in req[p].keep : link[req[p].user][r] = "deleted"}
          /\ req'[p].add = {r \in req[p].keep : link[req[p].user][r] = "none"}
      BY <1>7, <2>3, ReadSlot
    <3>2. \A q \in Requests \ {p} : At(q, "writeLinks") => req[q].user # req[p].user
      <4>. SUFFICES ASSUME NEW q \in Requests \ {p}, At(q, "writeLinks"),
                           req[q].user = req[p].user
                    PROVE  FALSE
        OBVIOUS
      <4>1. q \in Others(p, {"writeLinks"})
        BY DEF Others, At
      <4>2. WriteOverlap(p) = {"links"}
        BY <4>1 DEF WriteOverlap
      <4>. QED  BY <2>1, <4>2
    <3>3. \A u \in Users : HasRole(u)'
      BY <1>0, <1>1, <2>1, HasRoleKept DEF UserLive
    <3>4. \A q \in Requests \ {p} : LinksRead(q)'
      <4>. TAKE q \in Requests \ {p}
      <4>1. At(p, "writeLinks")' /\ At(q, "writeLinks") => req'[p].user # req[q].user
        BY <3>1, <3>2
      <4>. QED  BY <1>0, <1>1, <2>1, <4>1, OtherLinksRead
    <3>5. LinksRead(p)'
      <4>1. \A q \in Requests \ {p} : At(q, "writeLinks")' => req'[q].user # req'[p].user
        BY <1>1, <3>1, <3>2 DEF At
      <4>2. \A r \in req[p].keep : link[req[p].user][r] \in RowStates
        BY <2>1, PendingSlot DEF TypeOK
      <4>3. \A r \in req[p].keep \ (req'[p].revive \cup req'[p].add) :
              link'[req[p].user][r] = "live"
        BY <2>1, <3>1, <4>2 DEF RowStates
      <4>4. \A r \in req'[p].add \ {Super} : link'[req[p].user][r] = "none"
        BY <2>1, <3>1
      <4>. QED  BY <3>1, <4>1, <4>3, <4>4 DEF LinksRead
    <3>. QED  BY <3>3, <3>4, <3>5
  <2>. QED  BY <2>2, <2>3
<1>8. ASSUME At(p, "writeLinks")
      PROVE  /\ req[p].user \in Users /\ req[p].keep \subseteq AllRoles
             /\ req[p].drop \subseteq AllRoles /\ req[p].add \subseteq AllRoles
             /\ req[p].drop \cap req[p].keep = {}
             /\ req[p].revive \cup req[p].add \subseteq req[p].keep
             /\ req[p].revive \cap req[p].add = {}
             /\ \A r \in req[p].keep \ (req[p].revive \cup req[p].add) :
                  \/ link[req[p].user][r] = "live"
                  \/ r = Super /\ link[req[p].user][r] = "deleted"
             /\ \A r \in req[p].add \ {Super} : link[req[p].user][r] = "none"
  BY <1>0, <1>8, PendingSlot DEF Slots, Fits, LinksRead, At, Phases, UpdatePhases
<1>9. CASE DropLinks(p)
  <2>1. /\ At(p, "writeLinks") /\ req[p] \in Pending /\ user' = user
        /\ Left(p, {}, req[p].revive, req[p].add)
        /\ \A u \in Users, r \in AllRoles :
             link'[u][r] = IF u = req[p].user /\ r \in req[p].drop /\ link[u][r] = "live"
                             THEN "deleted" ELSE link[u][r]
    BY <1>9, DropSlot
  <2>2. \A r \in req[p].keep : link'[req[p].user][r] = link[req[p].user][r]
    BY <1>8, <2>1
  <2>3. /\ \A u \in Users \ {req[p].user}, r \in AllRoles : link'[u][r] = link[u][r]
        /\ \A r \in req[p].keep \ (req[p].revive \cup req[p].add) :
             \/ link'[req[p].user][r] = "live"
             \/ r = Super /\ link'[req[p].user][r] = "deleted"
        /\ \A r \in req[p].add \ {Super} : link'[req[p].user][r] = "none"
    BY <1>8, <2>1, <2>2
  <2>4. {} \in SUBSET req[p].drop
    OBVIOUS
  <2>. QED  BY <1>0, <2>1, <2>3, <2>4, WriteRoles
<1>10. CASE ReviveLink(p)
  <2>1. PICK x \in req[p].revive :
          /\ At(p, "writeLinks") /\ req[p] \in Pending /\ user' = user
          /\ Left(p, req[p].drop, req[p].revive \ {x}, req[p].add)
          /\ \A u \in Users, r \in AllRoles :
               link'[u][r] = IF u = req[p].user /\ r = x THEN "live" ELSE link[u][r]
    BY <1>10, ReviveSlot
  <2>2. req[p].revive \ {x} \in SUBSET req[p].revive
    OBVIOUS
  <2>3. /\ \A u \in Users \ {req[p].user}, r \in AllRoles : link'[u][r] = link[u][r]
        /\ \A r \in req[p].keep \ ((req[p].revive \ {x}) \cup req[p].add) :
             \/ link'[req[p].user][r] = "live"
             \/ r = Super /\ link'[req[p].user][r] = "deleted"
        /\ \A r \in req[p].add \ {Super} : link'[req[p].user][r] = "none"
    BY <1>8, <2>1
  <2>. QED  BY <1>0, <2>1, <2>2, <2>3, WriteRoles
<1>11. CASE AddLink(p)
  <2>1. PICK x \in req[p].add :
          /\ At(p, "writeLinks") /\ req[p] \in Pending /\ user' = user
          /\ Left(p, req[p].drop, req[p].revive, req[p].add \ {x})
          /\ \A u \in Users, r \in AllRoles :
               link'[u][r] = IF u = req[p].user /\ r = x /\ link[u][r] = "none"
                               THEN "live" ELSE link[u][r]
    BY <1>11, AddSlot
  <2>2. req[p].add \ {x} \in SUBSET req[p].add
    OBVIOUS
  <2>3. link[req[p].user][x] \in RowStates
    BY <1>8, <2>1 DEF TypeOK
  <2>4. /\ \A u \in Users \ {req[p].user}, r \in AllRoles : link'[u][r] = link[u][r]
        /\ \A r \in req[p].keep \ (req[p].revive \cup (req[p].add \ {x})) :
             \/ link'[req[p].user][r] = "live"
             \/ r = Super /\ link'[req[p].user][r] = "deleted"
        /\ \A r \in (req[p].add \ {x}) \ {Super} : link'[req[p].user][r] = "none"
    BY <1>8, <2>1, <2>3 DEF RowStates
  <2>. QED  BY <1>0, <2>1, <2>2, <2>4, WriteRoles
<1>12. CASE DestroyUser(p)
  <2>1. /\ ~At(p, "writeLinks") /\ link' = link /\ req'[p].phase # "writeLinks"
        /\ user' = [user EXCEPT ![req[p].user] = "deleted"]
    BY <1>12, DestroySlot DEF At
  <2>2. \A u \in Users : user'[u] = "live" => UserLive(u)
    BY <2>1 DEF TypeOK, UserLive
  <2>. QED  BY <1>3, <2>1, <2>2
<1>13. CASE Lock(p)
  <2>1. ~At(p, "writeLinks") /\ UNCHANGED <<user, link>> /\ req'[p].phase # "writeLinks"
    BY <1>13, LockSlot DEF At
  <2>. QED  BY <1>3, <2>1 DEF UserLive
<1>14. CASE CommitTransfer(p)
  <2>1. ~At(p, "writeLinks") /\ user' = user /\ req'[p].phase # "writeLinks"
    BY <1>14, CommitSlot DEF At
  <2>2. ASSUME NEW u \in Users
        PROVE  link[u][Super] \in {"live", "deleted"} => link'[u][Super] \in {"live", "deleted"}
    BY <1>14, CommitSlot
  <2>3. \A u \in Users, r \in AllRoles : r # Super => link'[u][r] = link[u][r]
    BY <1>14, CommitSlot DEF AllRoles
  <2>. QED  BY <1>3, <2>1, <2>2, <2>3 DEF UserLive
<1>15. CASE Leave(p)
  <2>1. ~At(p, "writeLinks")
    BY <1>15 DEF Leave, DestroyRole, InsertSession, FailRequest, At
  <2>2. UNCHANGED <<user, link>> /\ req'[p].phase # "writeLinks"
    BY <1>15, LeaveSlot
  <2>. QED  BY <1>3, <2>1, <2>2 DEF UserLive
<1>. QED
  BY <1>4, <1>5, <1>6, <1>7, <1>9, <1>10, <1>11, <1>12, <1>13, <1>14, <1>15, StepCases

-----------------------------------------------------------------------------
(* The invariant                                                           *)

LEMMA InitInv == Init => IInv
<1>. SUFFICES ASSUME Init PROVE IInv
  OBVIOUS
<1>0. Root \in Users /\ Super \in AllRoles /\ Idle.phase = "idle"
  BY UserRolesAssumption DEF AllRoles, Idle
<1>1. \A p \in Requests : \A s \in Phases : req[p].phase # s
  BY <1>0 DEF Init, Phases, CreatePhases, UpdatePhases, DeletePhases, TransferPhases,
     RolePhases, LoginPhases
<1>2. TypeOK
  BY <1>0 DEF Init, TypeOK, RowStates, NoSession
<1>3. Slots
  BY <1>1 DEF Slots, Fits, At, Phases, CreatePhases, UpdatePhases, DeletePhases,
     TransferPhases, RolePhases, LoginPhases
<1>4. \A u \in Users, r \in AllRoles : link[u][r] = "live" <=> u = Root /\ r = Super
  BY DEF Init
<1>5. Unlinked /\ role[Super] = "live"
  BY <1>0 DEF Init, Unlinked
<1>6. Supers
  <2>1. UserLive(Root)
    BY <1>0 DEF Init, UserLive
  <2>2. OneHolder
    BY <1>0, <1>4, <2>1 DEF OneHolder
  <2>3. \A p \in Requests : SuperRead(p)
    BY <1>1 DEF SuperRead, At, Phases, UpdatePhases, DeletePhases, TransferPhases
  <2>. QED  BY <2>2, <2>3 DEF Supers
<1>7. Claims
  BY <1>1 DEF Init, Claims, ClaimsHold, At, NoSession, Phases, LoginPhases
<1>10. OneCommits /\ Found
  BY <1>1 DEF OneCommits, Found, SessionsFound, At, Phases, TransferPhases
<1>8. LinkedRoles
  <2>1. LinkedLive
    BY <1>4, <1>5 DEF LinkedLive, RoleLive
  <2>2. \A p \in Requests : RolesRead(p)
    BY <1>1 DEF RolesRead, At, Phases, CreatePhases, UpdatePhases, RolePhases
  <2>. QED  BY <2>1, <2>2 DEF LinkedRoles
<1>9. HaveRoles
  <2>1. \A u \in Users : UserLive(u) => u = Root
    BY DEF Init, UserLive
  <2>2. \A u \in Users : HasRole(u)
    BY <1>0, <1>4, <2>1 DEF HasRole
  <2>3. \A p \in Requests : LinksRead(p)
    BY <1>1 DEF LinksRead, At, Phases, UpdatePhases
  <2>. QED  BY <2>2, <2>3 DEF HaveRoles
<1>. QED  BY <1>2, <1>3, <1>5, <1>6, <1>7, <1>8, <1>9, <1>10 DEF IInv

LEMMA StepInv == IInv /\ [Next]_vars => IInv'
<1>. SUFFICES ASSUME IInv, [Next]_vars PROVE IInv'
  OBVIOUS
<1>0. TypeOK /\ Slots /\ Unlinked /\ role[Super] = "live" /\ Supers /\ Claims
        /\ OneCommits /\ Found /\ LinkedRoles /\ HaveRoles
  BY DEF IInv
<1>1. CASE \E p \in Requests : NextOf(p)
  <2>1. PICK p \in Requests : NextOf(p)
    BY <1>1
  <2>2. TypeOK' /\ Slots' /\ Unlinked' /\ (role[Super] = "live")'
    BY <1>0, <2>1, StepTypes, StepSlots, StepUnlinked, StepSuperRole
  <2>3. Supers' /\ Claims' /\ OneCommits' /\ Found'
    BY <1>0, <2>1, StepSupers, StepClaims, StepOneCommits, StepFound
  <2>4. LinkedRoles' /\ HaveRoles'
    BY <1>0, <2>1, StepLinkedRoles, StepHaveRoles
  <2>. QED  BY <2>2, <2>3, <2>4 DEF IInv
<1>2. CASE CreateRole
  <2>1. PICK r \in Roles : role[r] = "none" /\ role' = [role EXCEPT ![r] = "live"]
    BY <1>2 DEF CreateRole
  <2>2. UNCHANGED <<user, link, session, req, overlaps>>
    BY <1>2 DEF CreateRole
  <2>3. r \in AllRoles /\ Super \in AllRoles
    BY DEF AllRoles
  <2>4. \A x \in AllRoles : RoleLive(x) => role'[x] = "live"
    BY <1>0, <2>1 DEF RoleLive, TypeOK
  <2>5. TypeOK'
    BY <1>0, <2>1, <2>2, <2>3 DEF TypeOK, RowStates
  <2>6. Slots' /\ Unlinked'
    BY <1>0, <2>2 DEF Slots, Fits, At, Unlinked
  <2>7. role'[Super] = "live"
    BY <1>0, <2>3, <2>4 DEF RoleLive
  <2>8. Supers' /\ Claims' /\ OneCommits' /\ Found'
    BY <1>0, <2>2 DEF Supers, OneHolder, UserLive, SuperRead, At, Claims, ClaimsHold,
         OneCommits, Found, SessionsFound
  <2>9. LinkedRoles'
    <3>1. \A p \in Requests : req[p].phase \in CreatePhases \cup UpdatePhases =>
            req[p].keep \subseteq AllRoles
      BY <1>0, PendingSlot DEF Phases
    <3>2. ASSUME LinkedLive PROVE LinkedLive'
      BY <2>2, <2>4, <3>2 DEF LinkedLive, RoleLive
    <3>3. ASSUME NEW p \in Requests, RolesRead(p) PROVE RolesRead(p)'
      BY <2>2, <2>4, <3>1, <3>3 DEF RolesRead, RoleLive, At
    <3>. QED  BY <1>0, <2>2, <3>2, <3>3 DEF LinkedRoles
  <2>10. HaveRoles'
    BY <1>0, <2>2 DEF HaveRoles, HasRole, UserLive, Writing, LinksRead, At
  <2>. QED  BY <2>5, <2>6, <2>7, <2>8, <2>9, <2>10 DEF IInv
<1>3. CASE RevokeSession
  <2>1. UNCHANGED <<user, role, link, req, overlaps>>
    BY <1>3 DEF RevokeSession
  <2>2. PICK s \in Sessions : session' = [session EXCEPT ![s] = NoSession]
    BY <1>3 DEF RevokeSession
  <2>3. TypeOK'
    BY <1>0, <2>1, <2>2, UserRolesAssumption DEF TypeOK, NoSession
  <2>4. Slots' /\ Unlinked' /\ role'[Super] = "live"
    BY <1>0, <2>1 DEF Slots, Fits, At, Unlinked
  <2>5. Supers'
    BY <1>0, <2>1 DEF Supers, OneHolder, UserLive, SuperRead, At
  <2>6. Claims' /\ OneCommits' /\ Found'
    <3>1. \A x \in Sessions : session'[x].live => session'[x] = session[x]
      BY <1>0, <2>2 DEF TypeOK, NoSession
    <3>2. Claims'
      BY <1>0, <2>1, <3>1 DEF Claims, ClaimsHold, At
    <3>. QED  BY <1>0, <2>1, <3>1, <3>2 DEF OneCommits, Found, SessionsFound, At
  <2>7. LinkedRoles'
    BY <1>0, <2>1 DEF LinkedRoles, LinkedLive, RolesRead, RoleLive, At
  <2>8. HaveRoles'
    BY <1>0, <2>1 DEF HaveRoles, HasRole, UserLive, Writing, LinksRead, At
  <2>. QED  BY <2>3, <2>4, <2>5, <2>6, <2>7, <2>8 DEF IInv
<1>4. CASE UNCHANGED vars
  <2>1. TypeOK' /\ Slots' /\ Unlinked' /\ role'[Super] = "live"
    BY <1>0, <1>4 DEF vars, TypeOK, Slots, Fits, At, Unlinked
  <2>2. Supers' /\ Claims' /\ OneCommits' /\ Found'
    BY <1>0, <1>4 DEF vars, Supers, OneHolder, UserLive, SuperRead, At, Claims, ClaimsHold,
         OneCommits, Found, SessionsFound
  <2>3. LinkedRoles' /\ HaveRoles'
    BY <1>0, <1>4 DEF vars, LinkedRoles, LinkedLive, RolesRead, RoleLive, At, HaveRoles,
         HasRole, UserLive, Writing, LinksRead
  <2>. QED  BY <2>1, <2>2, <2>3 DEF IInv
<1>. QED  BY <1>1, <1>2, <1>3, <1>4 DEF Next

(* The four properties hold together, each by what the requests on their   *)
(* way have read.                                                          *)
THEOREM Inductive == Spec => []IInv
BY InitInv, StepInv, PTL DEF Spec

(* The rows, sessions and requests have their types.                       *)
THEOREM TypeCorrect == Spec => []TypeOK
<1>1. IInv => TypeOK
  BY DEF IInv
<1>. QED  BY <1>1, Inductive, PTL

(* Whatever the number of users, requests and transfers at once, exactly   *)
(* one user, a live one, has the role, unless a transfer committed while   *)
(* another request was acting on what it had read of the role.             *)
THEOREM OneSuperadministrator == Spec => []OneSuperadministratorUnlessOverlap
<1>1. IInv => OneSuperadministratorUnlessOverlap
  <2>. SUFFICES ASSUME OneHolder PROVE ExactlyOneSuperadministrator
    BY DEF IInv, Supers, OneSuperadministratorUnlessOverlap
  <2>1. PICK h \in Users : /\ UserLive(h)
                           /\ \A u \in Users : link[u][Super] = "live" <=> u = h
    BY DEF OneHolder
  <2>2. \A u : u \in Holders <=> u \in {h}
    BY <2>1 DEF Holders, LinksOf, AllRoles
  <2>3. Holders = {h}
    BY <2>2
  <2>. QED  BY <2>1, <2>3 DEF ExactlyOneSuperadministrator
<1>. QED  BY <1>1, Inductive, PTL

(* No session claims the role for a user who has lost it, but for a login  *)
(* that was between its read and its INSERT when a transfer committed, or  *)
(* inserted, on PostgreSQL, after the transfer had revoked the sessions.   *)
THEOREM ClaimsAreCurrent == Spec => []ClaimsAreCurrentUnlessOverlap
<1>1. IInv => ClaimsAreCurrentUnlessOverlap
  BY DEF IInv, TypeOK, Claims, ClaimsHold, ClaimsAreCurrentUnlessOverlap, Holders, LinksOf,
     AllRoles
<1>. QED  BY <1>1, Inductive, PTL

(* Who has the role, in the terms of the lemmas.                           *)
LEMMA HoldersAre ==
  /\ \A u : u \in Holders <=> u \in Users /\ link[u][Super] = "live"
  /\ \A u : u \in Holders' <=> u \in Users /\ link'[u][Super] = "live"
BY DEF Holders, LinksOf, AllRoles

(* A transfer ends the sessions of whoever had the role and of its target. *)
LEMMA CommitHandsOver ==
  ASSUME TypeOK, NEW p \in Requests, SuperRead(p), CommitTransfer(p)
  PROVE  /\ At(p, "commit") /\ Holders' = {req[p].user}
         /\ SessionsFound(p) =>
              \A s \in Sessions :
                session'[s].live => session'[s].user \notin Holders \cup Holders'
<1>1. At(p, "commit")
  BY CommitSlot
<1>2. Holders' = {req[p].user}
  <2>1. \A u : u \in Holders' <=> u \in {req[p].user}
    BY CommitHolder, HoldersAre
  <2>. QED  BY <2>1
<1>3. ASSUME SessionsFound(p), NEW s \in Sessions, session'[s].live
      PROVE  session'[s].user \notin Holders \cup Holders'
  <2>1. session'[s] # NoSession
    BY <1>3 DEF NoSession
  <2>2. session'[s] = session[s] /\ s \notin req[p].ended
    BY <2>1, CommitSlot
  <2>3. link[session[s].user][Super] # "live" /\ session[s].user # req[p].user
    BY <1>1, <1>3, <2>2 DEF SessionsFound
  <2>. QED  BY <1>2, <2>2, <2>3, HoldersAre
<1>. QED  BY <1>1, <1>2, <1>3

(* The role changes hands in a transfer only, which ends all sessions of   *)
(* those it concerns, but on PostgreSQL those of logins since it revoked   *)
(* them, until a transfer has met a request that acts on what it had read  *)
(* of the role.                                                            *)
THEOREM RoleHandedOver == Spec => HandedOverWhole
<1>. DEFINE Handed ==
              \/ Holders' = Holders
              \/ "super" \in overlaps
              \/ /\ \E p \in Requests : At(p, "commit") /\ Holders' = {req[p].user}
                 /\ \/ \A s \in Sessions :
                         session'[s].live => session'[s].user \notin Holders \cup Holders'
                    \/ Postgres /\ "login" \in overlaps
<1>1. IInv /\ [Next]_vars => [Handed]_vars
  <2>. SUFFICES ASSUME IInv, Next, "super" \notin overlaps PROVE Handed
    OBVIOUS
  <2>1. TypeOK /\ \A p \in Requests : SuperRead(p)
    BY DEF IInv, Supers
  <2>2. ASSUME \A u \in Users : link'[u][Super] = link[u][Super] PROVE Holders' = Holders
    <3>1. \A u : u \in Holders' <=> u \in Holders
      BY <2>2, HoldersAre
    <3>. QED  BY <3>1
  <2>3. CASE CreateRole \/ RevokeSession
    BY <2>2, <2>3 DEF CreateRole, RevokeSession
  <2>4. ASSUME NEW p \in Requests, NextOf(p) PROVE Handed
    <3>1. CASE CommitTransfer(p)
      <4>1. SessionsFound(p) \/ (Postgres /\ "login" \in overlaps)
        BY DEF IInv, Found
      <4>. QED  BY <2>1, <3>1, <4>1, CommitHandsOver
    <3>2. CASE ~CommitTransfer(p)  BY <2>1, <2>2, <2>4, <3>2, SuperLinks
    <3>. QED  BY <3>1, <3>2
  <2>. QED  BY <2>3, <2>4 DEF Next
<1>2. [][Handed]_vars => HandedOverWhole
  BY PTL DEF HandedOverWhole
<1>. QED  BY <1>1, <1>2, Inductive, PTL DEF Spec

(* A role that is assigned is not deleted, unless one request assigned it  *)
(* while another was deleting it.                                          *)
THEOREM LinkedRolesLive == Spec => []LinkedRolesLiveUnlessOverlap
<1>1. IInv => LinkedRolesLiveUnlessOverlap
  BY DEF IInv, LinkedRoles, LinkedLive, LinkedRolesLiveUnlessOverlap, Readable, LinksOf
<1>. QED  BY <1>1, Inductive, PTL

(* A live user has a role, is being given one, or has handed over the role *)
(* superadministrator, unless two requests wrote its links or one failed.  *)
THEOREM UsersHaveRoles == Spec => []HasRoleUnlessOverlap
<1>1. IInv => HasRoleUnlessOverlap
  <2>. SUFFICES ASSUME NEW u \in Users, HasRole(u), UserLive(u)
                PROVE  LinksOf(u) # {} \/ Writing(u) \/ link[u][Super] = "deleted"
    BY DEF IInv, HaveRoles, HasRoleUnlessOverlap
  <2>. QED  BY DEF HasRole, LinksOf
<1>. QED  BY <1>1, Inductive, PTL

=============================================================================
