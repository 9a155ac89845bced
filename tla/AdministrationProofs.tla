------------------------- MODULE AdministrationProofs -------------------------
(***************************************************************************)
(* Theorems about Administration, for all sets of roles, users,            *)
(* permissions, names, requests and lists.                                 *)
(***************************************************************************)
EXTENDS Administration, FiniteSetTheorems, TLAPS

-----------------------------------------------------------------------------
(* The permissions of a role                                               *)

(* While an update of the permissions is alone, each link is what it read, *)
(* or as asked for already.                                                *)
AloneOK(j) ==
  LET s == save[j] IN
  /\ \A i \in DOMAIN save : i # j /\ save[i] # None => save[i].role # s.role
  /\ \A k \in Keys :
       /\ k \in s.todo.drop => link[s.role][k] = "live" /\ k \notin s.keys
       /\ k \in s.todo.restore => link[s.role][k] = "gone" /\ k \in s.keys
       /\ k \in s.todo.insert => link[s.role][k] = "none" /\ k \in s.keys
       /\ k \notin s.todo.drop \cup s.todo.restore \cup s.todo.insert =>
            (k \in s.keys <=> link[s.role][k] = "live")

SavesOK ==
  /\ \A j \in DOMAIN save : save[j] # None /\ save[j].alone => AloneOK(j)
  /\ \A r \in Roles : sure[r] # None => Saving(r) = {} /\ KeysOf(r) = sure[r]

-----------------------------------------------------------------------------
(* What is shown                                                           *)

(* Users, deleted ones too, have roles that are not deleted.               *)
LinkedRolesKept ==
  \A u \in Users : user[u] # None => \A r \in user[u].roles : Live(r)

(* An update of permissions writes for a request that waits for it.        *)
SavesForRequests ==
  \A q \in Requests : save[q] # None /\ request[q] # None =>
    request[q].op = "updateRolePermissions" /\ request[q].item = save[q].role
    /\ request[q].step = "written"

(* What the answers and lists that are not marked old say is so.           *)
AnswerOK(q) ==
  LET x == request[q] IN
  x # None =>
    /\ x.step # "done" => x.dto = None
    /\ x.step = "written" => x.op \notin {"deleteRole", "delete"}
    /\ x.step = "done" /\ ~x.old =>
         /\ x.op \in RoleOps => x.dto = RoleDto(x.item)
         /\ x.op \in {"create", "update"} => x.dto = UserDto(x.item)
         /\ x.op = "delete" => UserDto(x.item) = None

ListOK(l) ==
  load[l] # None =>
    /\ load[l].roles.step = "read" /\ ~load[l].roles.old =>
         load[l].roles.dto = [r \in Roles |-> RoleDto(r)]
    /\ load[l].users.step = "read" /\ ~load[l].users.old =>
         load[l].users.dto = [u \in Users |-> UserDto(u)]

AnswersOK == (\A q \in Requests : AnswerOK(q)) /\ \A l \in Loads : ListOK(l)

(* A change of i that has been made and is not answered.                   *)
Made(ops, i) ==
  \E q \in Requests : /\ request[q] # None /\ request[q].op \in ops
                      /\ request[q].item = i /\ request[q].step # "asked"

(* The store is behind by what will be answered only.                      *)
RoleBehind(r) ==
  /\ store.roles[r] = None /\ RoleDto(r) # None => Made({"createRole"}, r)
  /\ store.roles[r] # None /\ RoleDto(r) # store.roles[r] => Made(RoleOps, r)

UserBehind(u) ==
  /\ store.users[u] = None /\ UserDto(u) # None => Made({"create"}, u)
  /\ store.users[u] # None /\ UserDto(u) = None => Made({"delete"}, u)
  /\ store.users[u] # None /\ UserDto(u) # None => \A r \in Roles :
       store.users[u][r] # UserDto(u)[r] =>
         \/ Made({"create", "update"}, u)
         \/ store.users[u][r] # None /\ UserDto(u)[r] # None /\ Made({"updateRole"}, r)

RolesBehind == "roles" \notin stale => \A r \in Roles : RoleBehind(r)

UsersBehind == "users" \notin stale => \A u \in Users : UserBehind(u)

AdminInv ==
  /\ AdminTypeOK /\ SavesOK
  /\ LinkedRolesKept /\ SavesForRequests /\ AnswersOK /\ RolesBehind /\ UsersBehind

LEMMA SavesStay ==
  ASSUME SavesOK, UNCHANGED <<link, save, sure>>
  PROVE  SavesOK'
BY DEF SavesOK, AloneOK, Saving, KeysOf

LEMMA ReadingKeepsSaves ==
  ASSUME AdminTypeOK, SavesOK, NEW j \in Requests \cup {Other}, NEW r \in Roles,
         NEW keys \in SUBSET Keys, ReadsLinks(j, r, keys)
  PROVE  /\ SavesOK'
         /\ save' \in [Requests \cup {Other} -> Saves \cup {None}]
         /\ sure' \in [Roles -> (SUBSET Keys) \cup {None}]
<1> PICK todo : todo = LinksToWrite(r, keys)
  OBVIOUS
<1> PICK alone \in BOOLEAN : alone = (Saving(r) = {})
  OBVIOUS
<1> PICK s : s = [role |-> r, keys |-> keys, todo |-> todo, alone |-> alone]
  OBVIOUS
<1>1. /\ DOMAIN save = Requests \cup {Other} /\ link[r] \in [Keys -> {"none", "live", "gone"}]
      /\ \A i \in DOMAIN save : save[i] # None => save[i] \in Saves
  BY DEF AdminTypeOK
<1>2. s \in Saves /\ s # None
  <2>1. todo \in [drop : SUBSET Keys, restore : SUBSET Keys, insert : SUBSET Keys]
    BY DEF LinksToWrite, KeysOf
  <2>2. s \in Saves
    BY <2>1 DEF Saves
  <2> QED
    BY <2>2, AdminAssumption
<1>3. save' = [i \in DOMAIN save |->
        IF i = j THEN s
        ELSE IF i \in Saving(r) THEN [save[i] EXCEPT !.alone = FALSE] ELSE save[i]]
  BY DEF ReadsLinks
<1>4. ASSUME NEW i \in DOMAIN save, NEW x, x = save'[i], i # j
      PROVE  /\ x # None <=> save[i] # None
             /\ x # None => /\ x \in Saves /\ x.role = save[i].role
                            /\ x.role = r => ~x.alone
                            /\ x.role # r => x = save[i]
  <2> PICK y : y = [save[i] EXCEPT !.alone = FALSE]
    OBVIOUS
  <2>1. save[i] # None => /\ y \in Saves /\ y # None /\ y.role = save[i].role /\ ~y.alone
    BY <1>1, AdminAssumption DEF Saves
  <2>2. x = IF i \in Saving(r) THEN y ELSE save[i]
    BY <1>3, <1>4
  <2>3. i \in Saving(r) <=> save[i] # None /\ save[i].role = r
    BY DEF Saving
  <2> QED
    BY <1>1, <2>1, <2>2, <2>3
<1>5. save' \in [Requests \cup {Other} -> Saves \cup {None}]
  <2>1. \A i \in DOMAIN save : save'[i] \in Saves \cup {None}
    BY <1>2, <1>3, <1>4
  <2> QED
    BY <1>1, <1>3, <2>1
<1>6. sure' \in [Roles -> (SUBSET Keys) \cup {None}] /\ sure' = [sure EXCEPT ![r] = None] /\ link' = link
  <2>1. sure \in [Roles -> (SUBSET Keys) \cup {None}]
    BY DEF AdminTypeOK
  <2>2. sure' = [sure EXCEPT ![r] = None] /\ link' = link
    BY DEF ReadsLinks
  <2> QED
    BY <2>1, <2>2
<1>7. ASSUME NEW i \in DOMAIN save, save'[i] # None, save'[i].alone
      PROVE  AloneOK(i)'
  <2>1. CASE i = j
    <3>1. save'[i] = s /\ s.role = r /\ s.keys = keys /\ s.todo = todo /\ s.alone = alone
      BY <1>3, <2>1
    <3>2. \A u \in DOMAIN save' : u # i /\ save'[u] # None => save'[u].role # r
      BY <1>3, <1>4, <1>7, <2>1, <3>1 DEF Saving
    <3>3. \A k \in Keys :
            /\ k \in todo.drop <=> link[r][k] = "live" /\ k \notin keys
            /\ k \in todo.restore <=> link[r][k] = "gone" /\ k \in keys
            /\ k \in todo.insert <=> link[r][k] = "none" /\ k \in keys
            /\ link[r][k] \in {"none", "live", "gone"}
      BY <1>1 DEF LinksToWrite, KeysOf
    <3> QED
      BY <1>6, <3>1, <3>2, <3>3 DEF AloneOK
  <2>2. CASE i # j
    <3>1. save'[i] = save[i] /\ save[i].role # r /\ AloneOK(i)
      BY <1>4, <1>7, <2>2 DEF SavesOK
    <3>2. \A u \in DOMAIN save' : u # i /\ save'[u] # None => save'[u].role # save[i].role
      BY <1>2, <1>3, <1>4, <3>1 DEF AloneOK
    <3> QED
      BY <1>6, <3>1, <3>2 DEF AloneOK
  <2> QED
    BY <2>1, <2>2
<1>8. ASSUME NEW a \in Roles, sure'[a] # None
      PROVE  (Saving(a) = {} /\ KeysOf(a) = sure[a])'
  <2>1. a # r /\ sure'[a] = sure[a] /\ Saving(a) = {} /\ KeysOf(a) = sure[a]
    BY <1>6, <1>8 DEF SavesOK, AdminTypeOK
  <2>2. Saving(a)' = {}
    BY <1>2, <1>3, <1>4, <2>1 DEF Saving
  <2> QED
    BY <1>6, <2>1, <2>2 DEF KeysOf
<1>9. DOMAIN save' = DOMAIN save
  BY <1>3
<1> QED
  BY <1>5, <1>6, <1>7, <1>8, <1>9 DEF SavesOK

Todos == [drop : SUBSET Keys, restore : SUBSET Keys, insert : SUBSET Keys]

(* One statement of an update s: it makes links of the old ones for some   *)
(* keys, in the way the update wants it, and leaves todo.                  *)
Progresses(s, old, todo, links) ==
  LET made == (s.todo.restore \ todo.restore) \cup (s.todo.insert \ todo.insert) IN
  /\ todo \in Todos /\ links \in [Keys -> {"none", "live", "gone"}]
  /\ todo.drop \subseteq s.todo.drop
  /\ todo.restore \subseteq s.todo.restore
  /\ todo.insert \subseteq s.todo.insert
  /\ \A k \in Keys : IF k \in made \cup (s.todo.drop \ todo.drop)
                     THEN links[k] = "live" <=> k \in made ELSE links[k] = old[k]

LEMMA WritingKeepsSaves ==
  ASSUME AdminTypeOK, SavesOK, NEW j \in Requests \cup {Other}, NEW s, s = save[j], s # None,
         NEW todo, NEW links, Progresses(s, link[s.role], todo, links), Writes(j, todo, links)
  PROVE  /\ SavesOK'
         /\ save' \in [Requests \cup {Other} -> Saves \cup {None}]
         /\ link' \in [Roles -> [Keys -> {"none", "live", "gone"}]]
<1>0. todo \in Todos /\ links \in [Keys -> {"none", "live", "gone"}]
  BY DEF Progresses
<1> PICK x : x = [s EXCEPT !.todo = todo]
  OBVIOUS
<1>1. /\ save \in [Requests \cup {Other} -> Saves \cup {None}] /\ s \in Saves
      /\ link \in [Roles -> [Keys -> {"none", "live", "gone"}]]
  BY DEF AdminTypeOK
<1>2. x \in Saves /\ x # None
  <2>1. x \in Saves
    BY <1>0, <1>1 DEF Saves, Todos
  <2> QED
    BY <2>1, AdminAssumption
<1>3. x.role = s.role /\ x.keys = s.keys /\ x.todo = todo /\ x.alone = s.alone /\ s.role \in Roles
  BY <1>1 DEF Saves
<1>4. save' = [save EXCEPT ![j] = x] /\ link' = [link EXCEPT ![s.role] = links] /\ sure' = sure
  BY <1>1 DEF Writes
<1>5. ASSUME NEW i \in Requests \cup {Other}, save'[i] # None, save'[i].alone
      PROVE  AloneOK(i)'
  <2>1. CASE i = j
    <3>1. AloneOK(j)
      BY <1>1, <1>3, <1>4, <1>5, <2>1 DEF SavesOK
    <3>2. \A u \in DOMAIN save' : u # j /\ save'[u] # None => save'[u].role # s.role
      BY <1>1, <1>4, <3>1 DEF AloneOK
    <3>3. save'[j] = x /\ link'[s.role] = links
      BY <1>1, <1>3, <1>4
    <3>4. \A k \in Keys :
            /\ k \in todo.drop => links[k] = "live" /\ k \notin s.keys
            /\ k \in todo.restore => links[k] = "gone" /\ k \in s.keys
            /\ k \in todo.insert => links[k] = "none" /\ k \in s.keys
            /\ k \notin todo.drop \cup todo.restore \cup todo.insert =>
                 (k \in s.keys <=> links[k] = "live")
      BY <3>1 DEF AloneOK, Progresses
    <3> QED
      BY <1>3, <2>1, <3>2, <3>3, <3>4 DEF AloneOK
  <2>2. CASE i # j
    <3>1. save'[i] = save[i] /\ AloneOK(i)
      BY <1>1, <1>4, <1>5, <2>2 DEF SavesOK
    <3>2. save[i] \in Saves /\ s.role # save[i].role
      BY <1>1, <1>5, <2>2, <3>1 DEF AloneOK
    <3>3. \A u \in DOMAIN save' : u # i /\ save'[u] # None => save'[u].role # save[i].role
      BY <1>1, <1>3, <1>4, <3>1, <3>2 DEF AloneOK
    <3>4. link'[save[i].role] = link[save[i].role]
      BY <1>1, <1>4, <3>2
    <3> QED
      BY <3>1, <3>3, <3>4 DEF AloneOK
  <2> QED
    BY <2>1, <2>2
<1>6. ASSUME NEW a \in Roles, sure'[a] # None
      PROVE  (Saving(a) = {} /\ KeysOf(a) = sure[a])'
  <2>1. Saving(a) = {} /\ KeysOf(a) = sure[a]
    BY <1>4, <1>6 DEF SavesOK
  <2>2. a # s.role
    BY <1>1, <2>1 DEF Saving
  <2> QED
    BY <1>1, <1>3, <1>4, <2>1, <2>2 DEF Saving, KeysOf
<1> QED
  BY <1>0, <1>1, <1>2, <1>3, <1>4, <1>5, <1>6 DEF SavesOK

(* A statement that was not executed, or the end of an update.             *)
LEMMA LosingKeepsSaves ==
  ASSUME AdminTypeOK, SavesOK, NEW j \in Requests \cup {Other}, NEW s, s = save[j], s # None,
         NEW todo \in Todos, StatementFails(j, todo)
  PROVE  /\ SavesOK'
         /\ save' \in [Requests \cup {Other} -> Saves \cup {None}]
<1> PICK x : x = [s EXCEPT !.todo = todo, !.alone = FALSE]
  OBVIOUS
<1>1. save \in [Requests \cup {Other} -> Saves \cup {None}] /\ s \in Saves
  BY DEF AdminTypeOK
<1>2. x \in Saves /\ x # None
  <2>1. x \in Saves
    BY <1>1 DEF Saves, Todos
  <2> QED
    BY <2>1, AdminAssumption
<1>3. x.role = s.role /\ ~x.alone
  BY <1>1 DEF Saves
<1>4. save' = [save EXCEPT ![j] = x] /\ link' = link /\ sure' = sure
  BY DEF StatementFails
<1>5. ASSUME NEW i \in Requests \cup {Other}, save'[i] # None, save'[i].alone
      PROVE  AloneOK(i)'
  <2>1. i # j /\ save'[i] = save[i] /\ AloneOK(i)
    BY <1>1, <1>3, <1>4, <1>5 DEF SavesOK
  <2>2. \A u \in DOMAIN save' : u # i /\ save'[u] # None => save'[u].role # save[i].role
    BY <1>1, <1>3, <1>4, <2>1 DEF AloneOK
  <2> QED
    BY <1>4, <2>1, <2>2 DEF AloneOK
<1>6. \A a \in Roles : Saving(a)' = Saving(a)
  BY <1>1, <1>2, <1>3, <1>4 DEF Saving
<1> QED
  BY <1>1, <1>2, <1>4, <1>5, <1>6 DEF SavesOK, KeysOf

LEMMA EndingKeepsSaves ==
  ASSUME AdminTypeOK, SavesOK, NEW j \in Requests \cup {Other}, EndsSave(j)
  PROVE  /\ SavesOK'
         /\ save' \in [Requests \cup {Other} -> Saves \cup {None}]
         /\ sure' \in [Roles -> (SUBSET Keys) \cup {None}]
<1> PICK s : s = save[j]
  OBVIOUS
<1>1. /\ save \in [Requests \cup {Other} -> Saves \cup {None}] /\ s \in Saves
      /\ sure \in [Roles -> (SUBSET Keys) \cup {None}]
  BY DEF AdminTypeOK, EndsSave
<1>2. s.role \in Roles /\ s.keys \in SUBSET Keys
  BY <1>1 DEF Saves
<1>3. /\ s # None /\ s.todo = Nothing /\ save' = [save EXCEPT ![j] = None] /\ link' = link
      /\ sure' = IF s.alone THEN [sure EXCEPT ![s.role] = s.keys] ELSE sure
  BY DEF EndsSave
<1>4. ASSUME NEW i \in Requests \cup {Other}, save'[i] # None, save'[i].alone
      PROVE  AloneOK(i)'
  <2>1. i # j /\ save'[i] = save[i] /\ AloneOK(i)
    BY <1>1, <1>3, <1>4 DEF SavesOK
  <2>2. \A u \in DOMAIN save' : u # i /\ save'[u] # None => save'[u].role # save[i].role
    BY <1>1, <1>3, <2>1 DEF AloneOK
  <2> QED
    BY <1>3, <2>1, <2>2 DEF AloneOK
<1>5. ASSUME NEW a \in Roles, sure'[a] # None
      PROVE  (Saving(a) = {} /\ KeysOf(a) = sure[a])'
  <2>1. Saving(a)' \subseteq Saving(a) /\ KeysOf(a)' = KeysOf(a)
    BY <1>1, <1>3 DEF Saving, KeysOf
  <2>2. CASE s.alone /\ a = s.role
    <3>1. AloneOK(j)
      BY <1>1, <1>3, <2>2 DEF SavesOK
    <3>2. sure'[a] = s.keys
      BY <1>1, <1>2, <1>3, <2>2
    <3>3. Saving(a)' = {}
      BY <1>1, <1>3, <2>2, <3>1 DEF Saving, AloneOK
    <3>4. \A k \in Keys : k \in s.keys <=> link[a][k] = "live"
      BY <1>3, <2>2, <3>1 DEF AloneOK, Nothing
    <3> QED
      BY <1>2, <2>1, <3>2, <3>3, <3>4 DEF KeysOf
  <2>3. CASE ~(s.alone /\ a = s.role)
    <3>1. sure'[a] = sure[a]
      BY <1>1, <1>2, <1>3, <2>3
    <3> QED
      BY <1>5, <2>1, <3>1 DEF SavesOK
  <2> QED
    BY <2>2, <2>3
<1> QED
  BY <1>1, <1>2, <1>3, <1>4, <1>5 DEF SavesOK

LEMMA StatementKeepsSaves ==
  ASSUME AdminTypeOK, SavesOK, NEW j \in Requests \cup {Other},
         \/ DropsLinks(j) \/ LosesStatement(j)
         \/ \E k \in Keys : RestoresLink(j, k) \/ InsertsLink(j, k)
  PROVE  /\ SavesOK'
         /\ save' \in [Requests \cup {Other} -> Saves \cup {None}]
         /\ link' \in [Roles -> [Keys -> {"none", "live", "gone"}]]
<1> PICK s : s = save[j]
  OBVIOUS
<1>1. s # None /\ s \in Saves
  BY DEF AdminTypeOK, DropsLinks, LosesStatement, RestoresLink, InsertsLink
<1>2. /\ s.role \in Roles /\ s.keys \in SUBSET Keys
      /\ s.todo \in Todos
  BY <1>1 DEF Saves, Todos
<1> PICK old : old = link[s.role]
  OBVIOUS
<1>3. old \in [Keys -> {"none", "live", "gone"}]
  BY <1>2 DEF AdminTypeOK
<1>4. CASE DropsLinks(j)
  <2> PICK todo : todo = [s.todo EXCEPT !.drop = {}]
    OBVIOUS
  <2> PICK links : links = [k \in Keys |-> IF k \in s.todo.drop /\ old[k] = "live" THEN "gone" ELSE old[k]]
    OBVIOUS
  <2>1. Writes(j, todo, links)
    BY <1>4 DEF DropsLinks
  <2>2. /\ todo \in Todos
        /\ todo.drop = {} /\ todo.restore = s.todo.restore /\ todo.insert = s.todo.insert
    BY <1>2 DEF Todos
  <2>3. links \in [Keys -> {"none", "live", "gone"}]
    BY <1>3
  <2>4. Progresses(s, old, todo, links)
    BY <1>2, <1>3, <2>1, <2>2, <2>3 DEF Progresses
  <2> QED
    BY <1>1, <2>1, <2>4, WritingKeepsSaves
<1>5. ASSUME NEW k \in Keys, RestoresLink(j, k)
      PROVE  /\ SavesOK'
             /\ save' \in [Requests \cup {Other} -> Saves \cup {None}]
             /\ link' \in [Roles -> [Keys -> {"none", "live", "gone"}]]
  <2> PICK todo : todo = [s.todo EXCEPT !.restore = @ \ {k}]
    OBVIOUS
  <2> PICK links : links = [old EXCEPT ![k] = "live"]
    OBVIOUS
  <2>1. Writes(j, todo, links) /\ k \in s.todo.restore
    BY <1>5 DEF RestoresLink
  <2>2. /\ todo \in Todos
        /\ todo.drop = s.todo.drop /\ todo.restore = s.todo.restore \ {k} /\ todo.insert = s.todo.insert
    BY <1>2 DEF Todos
  <2>3. links \in [Keys -> {"none", "live", "gone"}]
    BY <1>3
  <2>4. Progresses(s, old, todo, links)
    BY <1>2, <1>3, <2>1, <2>2, <2>3 DEF Progresses
  <2> QED
    BY <1>1, <2>1, <2>4, WritingKeepsSaves
<1>6. ASSUME NEW k \in Keys, InsertsLink(j, k)
      PROVE  /\ SavesOK'
             /\ save' \in [Requests \cup {Other} -> Saves \cup {None}]
             /\ link' \in [Roles -> [Keys -> {"none", "live", "gone"}]]
  <2> PICK todo : todo = [s.todo EXCEPT !.insert = @ \ {k}]
    OBVIOUS
  <2> PICK links : links = [old EXCEPT ![k] = "live"]
    OBVIOUS
  <2>1. Writes(j, todo, links) /\ k \in s.todo.insert
    BY <1>6 DEF InsertsLink
  <2>2. /\ todo \in Todos
        /\ todo.drop = s.todo.drop /\ todo.restore = s.todo.restore /\ todo.insert = s.todo.insert \ {k}
    BY <1>2 DEF Todos
  <2>3. links \in [Keys -> {"none", "live", "gone"}]
    BY <1>3
  <2>4. Progresses(s, old, todo, links)
    BY <1>2, <1>3, <2>1, <2>2, <2>3 DEF Progresses
  <2> QED
    BY <1>1, <2>1, <2>4, WritingKeepsSaves
<1>7. CASE LosesStatement(j)
  <2>1. ASSUME NEW todo, StatementFails(j, todo),
               \/ todo = [s.todo EXCEPT !.drop = {}]
               \/ \E k \in s.todo.restore : todo = [s.todo EXCEPT !.restore = @ \ {k}]
               \/ \E k \in s.todo.insert : todo = [s.todo EXCEPT !.insert = @ \ {k}]
        PROVE  /\ SavesOK'
               /\ save' \in [Requests \cup {Other} -> Saves \cup {None}]
               /\ link' = link
    <3>1. todo \in Todos
      BY <1>2, <2>1 DEF Todos
    <3>2. link' = link
      BY <2>1 DEF StatementFails
    <3> QED
      BY <1>1, <2>1, <3>1, <3>2, LosingKeepsSaves
  <2>2. \E todo :
           /\ StatementFails(j, todo)
           /\ \/ todo = [s.todo EXCEPT !.drop = {}]
              \/ \E k \in s.todo.restore : todo = [s.todo EXCEPT !.restore = @ \ {k}]
              \/ \E k \in s.todo.insert : todo = [s.todo EXCEPT !.insert = @ \ {k}]
    BY <1>7 DEF LosesStatement
  <2> QED
    BY <2>1, <2>2 DEF AdminTypeOK
<1> QED
  BY <1>4, <1>5, <1>6, <1>7

-----------------------------------------------------------------------------
(* Changes asked for                                                       *)

LEMMA ChangeFields ==
  ASSUME NEW x \in Changes
  PROVE  /\ x # None /\ x.op \in RoleOps \cup UserOps
         /\ x.step \in {"asked", "written", "done"} /\ x.heard \in BOOLEAN /\ x.old \in BOOLEAN
         /\ x.op \in RoleOps => x.item \in Roles /\ x.dto \in RoleDtos \cup {None}
         /\ x.op \in {"createRole", "updateRole"} => x.arg \in Names
         /\ x.op = "updateRolePermissions" => x.arg \in SUBSET Keys
         /\ x.op \in UserOps => x.item \in Users /\ x.dto \in UserDtos \cup {None}
         /\ x.op \in {"create", "update"} => x.arg \in SUBSET Names
<1>1. x # None
  BY AdminAssumption
<1> QED
  BY <1>1 DEF Changes, Change, RoleOps, UserOps

(* What becomes of a change while it is answered.                          *)
Follows(x, y) ==
  /\ y \in Changes /\ y # None
  /\ y.op = x.op /\ y.item = x.item /\ y.arg = x.arg

LEMMA OldFollows ==
  ASSUME NEW x \in Changes, NEW y, y = [x EXCEPT !.old = TRUE]
  PROVE  Follows(x, y) /\ y.step = x.step /\ y.dto = x.dto /\ y.old /\ y.heard = x.heard
<1>1. y \in Changes
  BY DEF Changes, Change
<1>2. y # None
  BY <1>1, ChangeFields
<1> QED
  BY <1>1, <1>2 DEF Follows, Changes, Change

LEMMA UnheardFollows ==
  ASSUME NEW x \in Changes, NEW y, y = [x EXCEPT !.heard = FALSE]
  PROVE  Follows(x, y) /\ y.step = x.step /\ y.dto = x.dto /\ y.old = x.old
<1>1. y \in Changes
  BY DEF Changes, Change
<1>2. y # None
  BY <1>1, ChangeFields
<1> QED
  BY <1>1, <1>2 DEF Follows, Changes, Change

LEMMA StepFollows ==
  ASSUME NEW x \in Changes, NEW step \in {"asked", "written", "done"}, NEW y, y = [x EXCEPT !.step = step]
  PROVE  Follows(x, y) /\ y.step = step /\ y.dto = x.dto /\ y.old = x.old
<1>1. y \in Changes
  BY DEF Changes, Change
<1>2. y # None
  BY <1>1, ChangeFields
<1> QED
  BY <1>1, <1>2 DEF Follows, Changes, Change

WithDto(x, dto) == [x EXCEPT !.step = "done", !.dto = dto]

LEMMA FoundFollows ==
  ASSUME NEW x \in Changes, NEW dto, x.op \in RoleOps => dto \in RoleDtos,
         x.op \notin RoleOps => dto \in UserDtos, NEW y, y = WithDto(x, dto)
  PROVE  Follows(x, y) /\ y.step = "done" /\ y.dto = dto /\ y.old = x.old
<1>1. y \in Changes
  BY DEF Changes, Change, RoleOps, WithDto
<1>2. y # None
  BY <1>1, ChangeFields
<1> QED
  BY <1>1, <1>2 DEF Follows, Changes, Change, WithDto

(* Answers that a change makes old.                                        *)
Overtaken(x, op, i) ==
  /\ x # None /\ x.step = "done"
  /\ x.item = i \/ (op \in {"updateRole", "deleteRole"} /\ x.op \in UserOps)

LEMMA LateIs ==
  ASSUME request \in [Requests -> Changes \cup {None}], NEW op, NEW i
  PROVE  /\ Late(op, i) \in [Requests -> Changes \cup {None}]
         /\ \A q \in Requests :
              LET x == request[q]
                  y == Late(op, i)[q]
              IN IF x = None THEN y = None
                 ELSE /\ Follows(x, y) /\ y.step = x.step /\ y.dto = x.dto
                      /\ IF Overtaken(x, op, i) THEN y.old ELSE y = x
<1>1. ASSUME NEW q \in Requests, NEW x, x = request[q], NEW y, y = Late(op, i)[q]
      PROVE  /\ y \in Changes \cup {None}
             /\ IF x = None THEN y = None
                ELSE /\ Follows(x, y) /\ y.step = x.step /\ y.dto = x.dto
                     /\ IF Overtaken(x, op, i) THEN y.old ELSE y = x
  <2> PICK z : z = [x EXCEPT !.old = TRUE]
    OBVIOUS
  <2>1. y = IF Overtaken(x, op, i) THEN z ELSE x
    BY <1>1 DEF Late, Overtaken
  <2>2. x \in Changes \cup {None}
    BY <1>1
  <2>3. CASE x = None
    BY <2>1, <2>3 DEF Overtaken
  <2>4. CASE x # None /\ Overtaken(x, op, i)
    <3>1. x \in Changes
      BY <2>2, <2>4
    <3>2. Follows(x, z) /\ z.step = x.step /\ z.dto = x.dto /\ z.old
      BY <3>1, OldFollows
    <3> QED
      BY <2>1, <2>4, <3>2 DEF Follows
  <2>5. CASE x # None /\ ~Overtaken(x, op, i)
    BY <2>1, <2>2, <2>5 DEF Follows
  <2> QED
    BY <2>3, <2>4, <2>5
<1>2. Late(op, i) = [q \in Requests |-> Late(op, i)[q]]
  BY DEF Late
<1> QED
  BY <1>1, <1>2

(* Lists on their way that a change makes old.                             *)
LEMMA PartOld ==
  ASSUME NEW dtos, NEW x \in PartLists(dtos), NEW y, NEW late \in BOOLEAN,
         y = IF late /\ x.step = "read" THEN [x EXCEPT !.old = TRUE] ELSE x
  PROVE  /\ y \in PartLists(dtos) /\ y.step = x.step /\ y.dto = x.dto
         /\ IF late /\ x.step = "read" THEN y.old ELSE y = x
BY DEF PartLists

LEMMA LateListsAre ==
  ASSUME load \in [Loads -> Lists \cup {None}], NEW parts
  PROVE  /\ LateLists(parts) \in [Loads -> Lists \cup {None}]
         /\ \A l \in Loads :
              LET x == load[l]
                  y == LateLists(parts)[l]
              IN IF x = None THEN y = None
                 ELSE /\ y # None
                      /\ y.roles.step = x.roles.step /\ y.roles.dto = x.roles.dto
                      /\ y.users.step = x.users.step /\ y.users.dto = x.users.dto
                      /\ IF "roles" \in parts /\ x.roles.step = "read" THEN y.roles.old
                         ELSE y.roles = x.roles
                      /\ IF "users" \in parts /\ x.users.step = "read" THEN y.users.old
                         ELSE y.users = x.users
<1>1. ASSUME NEW l \in Loads, NEW x, x = load[l], NEW y, y = LateLists(parts)[l]
      PROVE  /\ y \in Lists \cup {None}
             /\ IF x = None THEN y = None
                ELSE /\ y # None
                     /\ y.roles.step = x.roles.step /\ y.roles.dto = x.roles.dto
                     /\ y.users.step = x.users.step /\ y.users.dto = x.users.dto
                     /\ IF "roles" \in parts /\ x.roles.step = "read" THEN y.roles.old
                        ELSE y.roles = x.roles
                     /\ IF "users" \in parts /\ x.users.step = "read" THEN y.users.old
                        ELSE y.users = x.users
  <2>1. CASE x = None
    BY <1>1, <2>1 DEF LateLists
  <2>2. CASE x # None
    <3>1. x \in Lists
      BY <1>1, <2>2
    <3> PICK r \in BOOLEAN : r <=> "roles" \in parts
      OBVIOUS
    <3> PICK u \in BOOLEAN : u <=> "users" \in parts
      OBVIOUS
    <3> PICK a : a = IF r /\ x.roles.step = "read"
                     THEN [x.roles EXCEPT !.old = TRUE] ELSE x.roles
      OBVIOUS
    <3> PICK b : b = IF u /\ x.users.step = "read"
                     THEN [x.users EXCEPT !.old = TRUE] ELSE x.users
      OBVIOUS
    <3>2. /\ x.roles \in PartLists(RoleLists)
          /\ x.users \in PartLists(UserLists)
      BY <3>1 DEF Lists
    <3>3. /\ a \in PartLists(RoleLists)
          /\ a.step = x.roles.step /\ a.dto = x.roles.dto
          /\ IF r /\ x.roles.step = "read" THEN a.old ELSE a = x.roles
      BY <3>2, PartOld
    <3>4. /\ b \in PartLists(UserLists)
          /\ b.step = x.users.step /\ b.dto = x.users.dto
          /\ IF u /\ x.users.step = "read" THEN b.old ELSE b = x.users
      BY <3>2, PartOld
    <3>5. y = [x EXCEPT !.roles = a, !.users = b]
      BY <1>1, <2>2 DEF LateLists
    <3>6. y \in Lists /\ y.roles = a /\ y.users = b
      BY <3>1, <3>3, <3>4, <3>5 DEF Lists
    <3>7. y # None
      BY <3>6, AdminAssumption
    <3> QED
      BY <2>2, <3>3, <3>4, <3>6, <3>7
  <2> QED
    BY <2>1, <2>2
<1>2. LateLists(parts) = [l \in Loads |-> LateLists(parts)[l]]
  BY Zenon DEF LateLists
<1> QED
  BY <1>1, <1>2

-----------------------------------------------------------------------------
(* Changes made                                                            *)

(* A change of a role or a user that the service can be asked for.         *)
Doable(x) ==
  \/ x.op \in {"createRole", "updateRole"} /\ x.item \in Roles /\ x.arg \in Names
  \/ x.op = "deleteRole" /\ x.item \in Roles
  \/ x.op \in {"create", "update"} /\ x.item \in Users /\ x.arg \in SUBSET Names
  \/ x.op = "delete" /\ x.item \in Users

LEMMA RowFields ==
  /\ \A x \in RoleRows : x # None /\ x.name \in Names /\ x.live \in BOOLEAN /\ x.name # None
  /\ \A x \in UserRows : x # None /\ x.roles \in SUBSET Roles /\ x.live \in BOOLEAN
  /\ \A x \in RoleDtos : x # None
  /\ \A x \in UserDtos : x # None
BY AdminAssumption DEF RoleRows, UserRows

RowsOK ==
  /\ role \in [Roles -> RoleRows \cup {None}]
  /\ user \in [Users -> UserRows \cup {None}]
  /\ LinkedRolesKept

(* What is listed of a role or user, in terms of its row.                  *)
RoleListed(r) ==
  /\ RoleDto(r) \in RoleDtos \cup {None}
  /\ RoleDto(r) = None <=> ~Live(r)
  /\ RoleDto(r) # None => RoleDto(r).name = role[r].name

UserListed(u) ==
  /\ UserDto(u) \in UserDtos \cup {None}
  /\ UserDto(u) = None <=> ~(user[u] # None /\ user[u].live)
  /\ UserDto(u) # None => \A r \in Roles :
       IF r \in user[u].roles
       THEN Live(r) /\ UserDto(u)[r] = role[r].name /\ role[r].name # None
       ELSE UserDto(u)[r] = None

LEMMA DtosAre ==
  RowsOK => (\A r \in Roles : RoleListed(r)) /\ \A u \in Users : UserListed(u)
<1> SUFFICES ASSUME RowsOK
             PROVE  (\A r \in Roles : RoleListed(r)) /\ \A u \in Users : UserListed(u)
  OBVIOUS
<1>1. ASSUME NEW r \in Roles
      PROVE  /\ RoleDto(r) \in RoleDtos \cup {None}
             /\ RoleDto(r) = None <=> ~Live(r)
             /\ RoleDto(r) # None => RoleDto(r).name = role[r].name
  <2>1. CASE Live(r)
    <3>1. role[r].name \in Names /\ KeysOf(r) \in SUBSET Keys
      BY <2>1, RowFields DEF Live, RowsOK, KeysOf
    <3>2. RoleDto(r) = [name |-> role[r].name, keys |-> KeysOf(r)]
      BY <2>1 DEF RoleDto
    <3>3. RoleDto(r) \in RoleDtos
      BY <3>1, <3>2 DEF RoleDtos
    <3>4. RoleDto(r) # None
      BY <3>3, RowFields
    <3> QED
      BY <2>1, <3>2, <3>3, <3>4
  <2>2. CASE ~Live(r)
    BY <2>2 DEF RoleDto
  <2> QED
    BY <2>1, <2>2
<1>2. ASSUME NEW u \in Users
      PROVE  /\ UserDto(u) \in UserDtos \cup {None}
             /\ UserDto(u) = None <=> ~(user[u] # None /\ user[u].live)
             /\ UserDto(u) # None => \A r \in Roles :
                  IF r \in user[u].roles
                  THEN Live(r) /\ UserDto(u)[r] = role[r].name /\ role[r].name # None
                  ELSE UserDto(u)[r] = None
  <2>1. CASE user[u] # None /\ user[u].live
    <3>1. UserDto(u) = [r \in Roles |-> IF r \in user[u].roles THEN role[r].name ELSE None]
      BY <2>1 DEF UserDto
    <3>2. \A r \in Roles : r \in user[u].roles => Live(r) /\ role[r].name \in Names /\ role[r].name # None
      BY <2>1, RowFields DEF LinkedRolesKept, Live, RowsOK
    <3>3. UserDto(u) \in UserDtos
      BY <3>1, <3>2 DEF UserDtos
    <3>4. UserDto(u) # None
      BY <3>3, RowFields
    <3> QED
      BY <2>1, <3>1, <3>2, <3>3, <3>4
  <2>2. CASE ~(user[u] # None /\ user[u].live)
    BY <2>2 DEF UserDto
  <2> QED
    BY <2>1, <2>2
<1> QED
  BY <1>1, <1>2 DEF RoleListed, UserListed

LEMMA RoleRowMade ==
  ASSUME AdminTypeOK, NEW x, Doable(x), Accepts(x), Makes(x), x.op \in RoleOps
  PROVE  /\ user' = user /\ link' = link /\ x.item \in Roles
         /\ role' \in [Roles -> RoleRows \cup {None}]
         /\ \A r \in Roles : r # x.item => role'[r] = role[r]
         /\ x.op = "createRole" => role[x.item] = None /\ Live(x.item)'
         /\ x.op = "updateRole" => Live(x.item) /\ Live(x.item)'
         /\ x.op = "deleteRole" => /\ Live(x.item) /\ ~Live(x.item)' /\ ~Assigned(x.item)
                                   /\ role'[x.item].name = role[x.item].name
<1> PICK i : i = x.item
  OBVIOUS
<1>1. i \in Roles /\ x.op \notin UserOps /\ x.op \in {"createRole", "updateRole", "deleteRole"}
  BY DEF Doable, RoleOps, UserOps
<1>2. user' = user /\ link' = link
  BY <1>1 DEF Makes, UserOps
<1>3. role \in [Roles -> RoleRows \cup {None}]
  BY DEF AdminTypeOK
<1>4. CASE x.op \in {"createRole", "updateRole"}
  <2> PICK y : y = [name |-> x.arg, live |-> TRUE]
    OBVIOUS
  <2>1. y \in RoleRows /\ y # None /\ y.live
    <3>1. y \in RoleRows /\ y.live
      BY <1>4 DEF RoleRows, Doable
    <3> QED
      BY <3>1, RowFields
  <2>2. role' = [role EXCEPT ![i] = y]
    BY <1>4 DEF Makes
  <2>3. IF x.op = "createRole" THEN role[i] = None ELSE Live(i)
    BY <1>4 DEF Accepts
  <2> QED
    BY <1>1, <1>2, <1>3, <1>4, <2>1, <2>2, <2>3 DEF Live
<1>5. CASE x.op = "deleteRole"
  <2> PICK y : y = [role[i] EXCEPT !.live = FALSE]
    OBVIOUS
  <2>1. Live(i) /\ ~Assigned(i)
    BY <1>5 DEF Accepts
  <2>2. y \in RoleRows /\ y # None /\ ~y.live /\ y.name = role[i].name
    <3>1. role[i] \in RoleRows
      BY <1>1, <1>3, <2>1 DEF Live
    <3>2. y \in RoleRows /\ ~y.live /\ y.name = role[i].name
      BY <3>1 DEF RoleRows
    <3> QED
      BY <3>2, RowFields
  <2>3. role' = [role EXCEPT ![i] = y]
    BY <1>5 DEF Makes
  <2> QED
    BY <1>1, <1>2, <1>3, <1>5, <2>1, <2>2, <2>3 DEF Live
<1> QED
  BY <1>1, <1>4, <1>5

LEMMA UserRowMade ==
  ASSUME AdminTypeOK, NEW x, Doable(x), Accepts(x), Makes(x), x.op \in UserOps
  PROVE  /\ role' = role /\ link' = link /\ x.item \in Users
         /\ user' \in [Users -> UserRows \cup {None}]
         /\ \A u \in Users : u # x.item => user'[u] = user[u]
         /\ x.op = "create" => user[x.item] = None
         /\ x.op \in {"create", "update"} => /\ user'[x.item] # None /\ user'[x.item].live
                                             /\ \A r \in user'[x.item].roles : Live(r)
         /\ x.op \in {"update", "delete"} => user[x.item] # None /\ user[x.item].live
         /\ x.op = "delete" => /\ user'[x.item] # None /\ ~user'[x.item].live
                               /\ user'[x.item].roles = user[x.item].roles
<1> PICK i : i = x.item
  OBVIOUS
<1>1. i \in Users /\ x.op \notin RoleOps
  BY DEF Doable, RoleOps, UserOps
<1>2. role' = role /\ link' = link
  BY <1>1 DEF Makes, RoleOps
<1>3. user \in [Users -> UserRows \cup {None}]
  BY DEF AdminTypeOK
<1>4. CASE x.op \in {"create", "update"}
  <2> PICK y : y = [roles |-> Called(x.arg), live |-> TRUE]
    OBVIOUS
  <2>1. y \in UserRows /\ y # None /\ y.live /\ \A r \in y.roles : Live(r)
    <3>1. y \in UserRows /\ y.live /\ \A r \in y.roles : Live(r)
      BY DEF UserRows, Called
    <3> QED
      BY <3>1, RowFields
  <2>2. user' = [user EXCEPT ![i] = y]
    BY <1>4 DEF Makes
  <2>3. IF x.op = "create" THEN user[i] = None ELSE user[i] # None /\ user[i].live
    BY <1>4 DEF Accepts
  <2> QED
    BY <1>1, <1>2, <1>3, <1>4, <2>1, <2>2, <2>3
<1>5. CASE x.op = "delete"
  <2> PICK y : y = [user[i] EXCEPT !.live = FALSE]
    OBVIOUS
  <2>1. user[i] # None /\ user[i].live
    BY <1>5 DEF Accepts
  <2>2. y \in UserRows /\ y # None /\ ~y.live /\ y.roles = user[i].roles
    <3>1. user[i] \in UserRows
      BY <1>1, <1>3, <2>1
    <3>2. y \in UserRows /\ ~y.live /\ y.roles = user[i].roles
      BY <3>1 DEF UserRows
    <3> QED
      BY <3>2, RowFields
  <2>3. user' = [user EXCEPT ![i] = y]
    BY <1>5 DEF Makes
  <2> QED
    BY <1>1, <1>2, <1>3, <1>5, <2>1, <2>2, <2>3
<1> QED
  BY <1>4, <1>5 DEF UserOps

LEMMA DtosAreAfter ==
  (RowsOK => (\A r \in Roles : RoleListed(r)) /\ \A u \in Users : UserListed(u))'
BY DtosAre, PTL

(* What a change does to what is listed.                                   *)
RoleChanged(x, r) ==
  IF x.op \notin RoleOps \/ x.item # r THEN RoleDto(r)' = RoleDto(r)
  ELSE /\ x.op = "createRole" => RoleDto(r) = None /\ RoleDto(r)' # None
       /\ x.op = "updateRole" => RoleDto(r) # None /\ RoleDto(r)' # None
       /\ x.op = "deleteRole" => RoleDto(r) # None /\ RoleDto(r)' = None
       /\ x.op = "updateRolePermissions" => (RoleDto(r)' = None <=> RoleDto(r) = None)

UserChanged(x, u) ==
  IF \/ x.op \in {"createRole", "deleteRole", "updateRolePermissions"}
     \/ x.op \in UserOps /\ x.item # u
  THEN UserDto(u)' = UserDto(u)
  ELSE /\ x.op = "create" => UserDto(u) = None /\ UserDto(u)' # None
       /\ x.op = "update" => UserDto(u) # None /\ UserDto(u)' # None
       /\ x.op = "delete" => UserDto(u) # None /\ UserDto(u)' = None
       /\ x.op = "updateRole" =>
            /\ UserDto(u)' = None <=> UserDto(u) = None
            /\ UserDto(u) # None => \A r \in Roles :
                 /\ r # x.item => UserDto(u)'[r] = UserDto(u)[r]
                 /\ UserDto(u)'[r] = None <=> UserDto(u)[r] = None

ChangesDtos(x) ==
  (\A r \in Roles : RoleChanged(x, r)) /\ \A u \in Users : UserChanged(x, u)

LEMMA MakesRoles ==
  ASSUME AdminTypeOK, LinkedRolesKept, NEW x, Doable(x), Accepts(x), Makes(x), x.op \in RoleOps
  PROVE  RowsOK' /\ ChangesDtos(x) /\ link' = link
<1> PICK i : i = x.item
  OBVIOUS
<1>1. /\ user' = user /\ link' = link /\ i \in Roles
      /\ role' \in [Roles -> RoleRows \cup {None}]
      /\ \A r \in Roles : r # i => role'[r] = role[r]
      /\ x.op = "createRole" => role[i] = None /\ Live(i)'
      /\ x.op = "updateRole" => Live(i) /\ Live(i)'
      /\ x.op = "deleteRole" => Live(i) /\ ~Live(i)' /\ ~Assigned(i) /\ role'[i].name = role[i].name
  BY RoleRowMade
<1>2. x.op \in {"createRole", "updateRole", "deleteRole"} /\ x.op \notin UserOps
  BY DEF Doable, RoleOps, UserOps
<1>3. RowsOK
  BY DEF RowsOK, AdminTypeOK
<1>4. \A r \in Roles : r # i => (Live(r)' <=> Live(r))
  BY <1>1 DEF Live
<1>5. LinkedRolesKept'
  <2>1. ASSUME NEW u \in Users, user[u] # None, NEW r \in user[u].roles
        PROVE  Live(r)'
    <3>1. Live(r) /\ r \in Roles
      BY <2>1, RowFields DEF LinkedRolesKept, AdminTypeOK
    <3>2. CASE r = i
      BY <1>1, <1>2, <2>1, <3>1, <3>2 DEF Assigned, Live
    <3> QED
      BY <1>4, <3>1, <3>2
  <2> QED
    BY <1>1, <2>1 DEF LinkedRolesKept
<1>6. RowsOK'
  BY <1>1, <1>3, <1>5 DEF RowsOK
<1>7. /\ \A r \in Roles : RoleListed(r) /\ RoleListed(r)'
      /\ \A u \in Users : UserListed(u) /\ UserListed(u)'
  BY <1>3, <1>6, DtosAre, DtosAreAfter
<1>8. ASSUME NEW r \in Roles
      PROVE  RoleChanged(x, r)
  <2>1. CASE r # i
    BY <1>1, <2>1 DEF RoleChanged, RoleDto, Live, KeysOf
  <2>2. CASE r = i
    BY <1>1, <1>2, <1>7, <2>2 DEF RoleChanged, RoleListed, Live
  <2> QED
    BY <2>1, <2>2
<1>9. ASSUME NEW u \in Users
      PROVE  UserChanged(x, u)
  <2>1. CASE x.op = "updateRole"
    <3>1. UserDto(u)' = None <=> UserDto(u) = None
      BY <1>1, <1>7 DEF UserListed
    <3>2. ASSUME UserDto(u) # None, NEW r \in Roles
          PROVE  /\ r # i => UserDto(u)'[r] = UserDto(u)[r]
                 /\ UserDto(u)'[r] = None <=> UserDto(u)[r] = None
      BY <1>1, <1>7, <3>1, <3>2 DEF UserListed
    <3> QED
      BY <1>2, <2>1, <3>1, <3>2 DEF UserChanged
  <2>2. CASE x.op # "updateRole"
    <3>1. user[u] # None => \A r \in user[u].roles : r \in Roles /\ role'[r].name = role[r].name
      BY <1>1, <1>2, <2>2, RowFields DEF LinkedRolesKept, Live, AdminTypeOK
    <3>2. UserDto(u)' = UserDto(u)
      BY <1>1, <3>1 DEF UserDto
    <3> QED
      BY <1>2, <2>2, <3>2 DEF UserChanged
  <2> QED
    BY <2>1, <2>2
<1> QED
  BY <1>1, <1>6, <1>8, <1>9 DEF ChangesDtos

LEMMA MakesUsers ==
  ASSUME AdminTypeOK, LinkedRolesKept, NEW x, Doable(x), Accepts(x), Makes(x), x.op \in UserOps
  PROVE  RowsOK' /\ ChangesDtos(x) /\ link' = link
<1> PICK i : i = x.item
  OBVIOUS
<1>1. /\ role' = role /\ link' = link /\ i \in Users
      /\ user' \in [Users -> UserRows \cup {None}]
      /\ \A u \in Users : u # i => user'[u] = user[u]
      /\ x.op = "create" => user[i] = None
      /\ x.op \in {"create", "update"} => /\ user'[i] # None /\ user'[i].live
                                          /\ \A r \in user'[i].roles : Live(r)
      /\ x.op \in {"update", "delete"} => user[i] # None /\ user[i].live
      /\ x.op = "delete" => /\ user'[i] # None /\ ~user'[i].live
                            /\ user'[i].roles = user[i].roles
  BY UserRowMade
<1>2. x.op \in {"create", "update", "delete"} /\ x.op \notin RoleOps
  BY DEF RoleOps, UserOps
<1>3. RowsOK
  BY DEF RowsOK, AdminTypeOK
<1>5. LinkedRolesKept'
  BY <1>1, <1>2 DEF LinkedRolesKept, Live
<1>6. RowsOK'
  BY <1>1, <1>3, <1>5 DEF RowsOK
<1>7. \A u \in Users : UserListed(u) /\ UserListed(u)'
  BY <1>3, <1>6, DtosAre, DtosAreAfter
<1>8. ASSUME NEW r \in Roles
      PROVE  RoleChanged(x, r)
  BY <1>1, <1>2 DEF RoleChanged, RoleDto, Live, KeysOf
<1>9. ASSUME NEW u \in Users
      PROVE  UserChanged(x, u)
  <2>1. CASE u # i
    BY <1>1, <1>2, <2>1 DEF UserChanged, UserDto, UserOps
  <2>2. CASE u = i
    BY <1>1, <1>2, <1>7, <2>2 DEF UserChanged, UserListed
  <2> QED
    BY <2>1, <2>2
<1> QED
  BY <1>1, <1>6, <1>8, <1>9 DEF ChangesDtos

LEMMA MakesChange ==
  ASSUME AdminTypeOK, LinkedRolesKept, NEW x, Doable(x), Accepts(x), Makes(x)
  PROVE  RowsOK' /\ ChangesDtos(x) /\ link' = link
<1>1. x.op \in RoleOps \/ x.op \in UserOps
  BY DEF Doable, RoleOps, UserOps
<1> QED
  BY <1>1, MakesRoles, MakesUsers

-----------------------------------------------------------------------------
(* What a change leaves alone                                              *)

LEMMA DtosStay ==
  ASSUME role' = role, link' = link, user' = user
  PROVE  /\ \A r \in Roles : RoleDto(r)' = RoleDto(r)
         /\ \A u \in Users : UserDto(u)' = UserDto(u)
BY DEF RoleDto, UserDto, Live, KeysOf

(* A request has the answer it had, be it old.                             *)
Repeats(x, y) ==
  \/ y = None
  \/ /\ x # None /\ y.op = x.op /\ y.item = x.item /\ y.step = x.step /\ y.dto = x.dto
     /\ x.old => y.old

LEMMA AnswerStays ==
  ASSUME NEW q \in Requests, AnswerOK(q), NEW x, x = request[q], NEW y, y = request'[q], Repeats(x, y),
         y # None /\ ~y.old /\ y.op \in RoleOps => RoleDto(x.item)' = RoleDto(x.item),
         y # None /\ ~y.old /\ y.op \in UserOps => UserDto(x.item)' = UserDto(x.item)
  PROVE  AnswerOK(q)'
<1>1. CASE y = None
  BY <1>1 DEF AnswerOK
<1>2. CASE y # None
  <2>1. /\ x # None /\ y.op = x.op /\ y.item = x.item /\ y.step = x.step /\ y.dto = x.dto
        /\ x.old => y.old
    BY <1>2 DEF Repeats
  <2>2. y.step # "done" => y.dto = None
    BY <2>1 DEF AnswerOK
  <2>3. y.step = "written" => y.op \notin {"deleteRole", "delete"}
    BY <2>1 DEF AnswerOK
  <2>4. ASSUME y.step = "done", ~y.old
        PROVE  /\ y.op \in RoleOps => y.dto = RoleDto(x.item)'
               /\ y.op \in {"create", "update"} => y.dto = UserDto(x.item)'
               /\ y.op = "delete" => UserDto(x.item)' = None
    BY <1>2, <2>1, <2>4 DEF AnswerOK, UserOps
  <2> QED
    BY <2>1, <2>2, <2>3, <2>4 DEF AnswerOK
<1> QED
  BY <1>1, <1>2

LEMMA AnswerStaysSo ==
  ASSUME AdminTypeOK, role' = role, link' = link, user' = user,
         NEW q \in Requests, AnswerOK(q), Repeats(request[q], request'[q])
  PROVE  AnswerOK(q)'
<1> PICK x : x = request[q]
  OBVIOUS
<1>1. x \in Changes \cup {None}
  BY DEF AdminTypeOK
<1>2. request'[q] # None =>
        /\ x.op \in RoleOps => x.item \in Roles
        /\ x.op \in UserOps => x.item \in Users
        /\ request'[q].op = x.op
  BY <1>1, ChangeFields DEF Repeats
<1>3. /\ \A r \in Roles : RoleDto(r)' = RoleDto(r)
      /\ \A u \in Users : UserDto(u)' = UserDto(u)
  BY DtosStay
<1> PICK y : y = request'[q]
  OBVIOUS
<1>4. y # None /\ ~y.old /\ y.op \in RoleOps => RoleDto(x.item)' = RoleDto(x.item)
  BY <1>2, <1>3
<1>5. y # None /\ ~y.old /\ y.op \in UserOps => UserDto(x.item)' = UserDto(x.item)
  BY <1>2, <1>3
<1>6. Repeats(x, y)
  OBVIOUS
<1> QED
  BY <1>4, <1>5, <1>6, AnswerStays

LEMMA LateAnswers ==
  ASSUME AdminTypeOK, NEW x, x.op \in RoleOps \cup UserOps, ChangesDtos(x), NEW q \in Requests, AnswerOK(q),
         request'[q] = Late(x.op, x.item)[q]
  PROVE  AnswerOK(q)'
<1> PICK y : y = request[q]
  OBVIOUS
<1> PICK z : z = request'[q]
  OBVIOUS
<1>1. request \in [Requests -> Changes \cup {None}] /\ y \in Changes \cup {None}
  BY DEF AdminTypeOK
<1>2. IF y = None THEN z = None
      ELSE /\ Follows(y, z) /\ z.step = y.step /\ z.dto = y.dto
           /\ IF Overtaken(y, x.op, x.item) THEN z.old ELSE z = y
  BY <1>1, LateIs
<1>3. Repeats(y, z)
  BY <1>2 DEF Repeats, Follows
<1>4. CASE z = None
  BY <1>3, <1>4, AnswerStays
<1>5. CASE z # None /\ z.step # "done"
  BY <1>2, <1>5 DEF AnswerOK, Follows
<1>6. CASE z # None /\ z.step = "done"
  <2>1. y \in Changes /\ y.op = z.op /\ y.item = z.item
    BY <1>1, <1>2, <1>6 DEF Follows
  <2>2. /\ y.op \in RoleOps => y.item \in Roles
        /\ y.op \in UserOps => y.item \in Users
    BY <2>1, ChangeFields
  <2>3. ~z.old => /\ y.item # x.item
                  /\ ~(x.op \in {"updateRole", "deleteRole"} /\ y.op \in UserOps)
    BY <1>2, <1>6 DEF Overtaken
  <2>4. ASSUME ~z.old, y.op \in RoleOps
        PROVE  RoleDto(y.item)' = RoleDto(y.item)
    BY <2>2, <2>3, <2>4 DEF ChangesDtos, RoleChanged
  <2>5. ASSUME ~z.old, y.op \in UserOps
        PROVE  UserDto(y.item)' = UserDto(y.item)
    BY <2>2, <2>3, <2>5 DEF ChangesDtos, UserChanged, RoleOps
  <2> QED
    BY <1>3, <2>1, <2>4, <2>5, AnswerStays
<1> QED
  BY <1>4, <1>5, <1>6

ListTypeOK ==
  /\ load \in [Loads -> Lists \cup {None}]
  /\ \A l \in Loads : load[l] # None =>
       /\ load[l].roles.step = "read" => load[l].roles.dto \in RoleLists
       /\ load[l].users.step = "read" => load[l].users.dto \in UserLists

LEMMA PartsAre ==
  ASSUME NEW op \in RoleOps \cup UserOps
  PROVE  /\ "roles" \in Parts(op) <=> op \in RoleOps
         /\ "users" \in Parts(op) <=> op \in UserOps \cup {"updateRole", "deleteRole"}
         /\ Parts(op) \subseteq {"roles", "users"}
BY DEF Parts, Part, RoleOps, UserOps

LEMMA LateListsAnswers ==
  ASSUME AdminTypeOK, NEW x, x.op \in RoleOps \cup UserOps, ChangesDtos(x), \A l \in Loads : ListOK(l),
         load' = LateLists(Parts(x.op))
  PROVE  ListTypeOK' /\ \A l \in Loads : ListOK(l)'
<1> PICK parts : parts = Parts(x.op)
  OBVIOUS
<1>1. ListTypeOK
  BY DEF AdminTypeOK, ListTypeOK
<1>2. /\ load' \in [Loads -> Lists \cup {None}]
      /\ \A l \in Loads :
           LET y == load[l]
               z == load'[l]
           IN IF y = None THEN z = None
              ELSE /\ z # None
                   /\ z.roles.step = y.roles.step /\ z.roles.dto = y.roles.dto
                   /\ z.users.step = y.users.step /\ z.users.dto = y.users.dto
                   /\ IF "roles" \in parts /\ y.roles.step = "read" THEN z.roles.old
                      ELSE z.roles = y.roles
                   /\ IF "users" \in parts /\ y.users.step = "read" THEN z.users.old
                      ELSE z.users = y.users
  BY <1>1, LateListsAre DEF ListTypeOK
<1>3. ListTypeOK'
  BY <1>1, <1>2 DEF ListTypeOK
<1>4. "roles" \notin parts => [r \in Roles |-> RoleDto(r)'] = [r \in Roles |-> RoleDto(r)]
  BY PartsAre DEF ChangesDtos, RoleChanged
<1>5. "users" \notin parts => [u \in Users |-> UserDto(u)'] = [u \in Users |-> UserDto(u)]
  BY PartsAre DEF ChangesDtos, UserChanged, RoleOps
<1> PICK r0, r1 : r0 = [r \in Roles |-> RoleDto(r)] /\ r1 = [r \in Roles |-> RoleDto(r)']
  OBVIOUS
<1> PICK u0, u1 : u0 = [u \in Users |-> UserDto(u)] /\ u1 = [u \in Users |-> UserDto(u)']
  OBVIOUS
<1>6. ASSUME NEW l \in Loads, load'[l] # None
      PROVE  /\ load'[l].roles.step = "read" /\ ~load'[l].roles.old => load'[l].roles.dto = r1
             /\ load'[l].users.step = "read" /\ ~load'[l].users.old => load'[l].users.dto = u1
  <2>1. /\ load[l] # None
        /\ load[l].roles.step = "read" /\ ~load[l].roles.old => load[l].roles.dto = r0
        /\ load[l].users.step = "read" /\ ~load[l].users.old => load[l].users.dto = u0
    BY <1>2, <1>6 DEF ListOK
  <2> QED
    BY <1>2, <1>4, <1>5, <1>6, <2>1
<1>7. \A l \in Loads : ListOK(l)'
  BY <1>6 DEF ListOK
<1> QED
  BY <1>3, <1>7

-----------------------------------------------------------------------------
(* What the store is behind by                                             *)

(* A change that has been made is still to be answered.                    *)
GoesOn(q) ==
  request[q] # None /\ request[q].step # "asked" =>
    /\ request'[q] # None /\ request'[q].step # "asked"
    /\ request'[q].op = request[q].op /\ request'[q].item = request[q].item

GoOn(ops) == \A q \in Requests : request[q] # None /\ request[q].op \in ops => GoesOn(q)

UserShown == UserOps \cup {"updateRole"}

LEMMA MadeStays ==
  ASSUME NEW ops, NEW all, ops \subseteq all, GoOn(all), NEW i, Made(ops, i)
  PROVE  Made(ops, i)'
BY DEF GoOn, GoesOn, Made

LEMMA MadeIsMade ==
  ASSUME NEW op, NEW i, Made({op}, i)', NEW ops, op \in ops
  PROVE  Made(ops, i)'
BY DEF Made

LEMMA RolesBehindStays ==
  ASSUME NEW x, x.op \in RoleOps \cup UserOps, ChangesDtos(x), RolesBehind, GoOn(RoleOps),
         store'.roles = store.roles, "roles" \notin stale' => "roles" \notin stale,
         x.op \in RoleOps => "roles" \in stale' \/ Made({x.op}, x.item)'
  PROVE  RolesBehind'
<1> SUFFICES ASSUME "roles" \notin stale', NEW r \in Roles
             PROVE  RoleBehind(r)'
  BY DEF RolesBehind
<1>1. RoleBehind(r)
  BY DEF RolesBehind
<1>2. /\ Made({"createRole"}, r) => Made({"createRole"}, r)'
      /\ Made(RoleOps, r) => Made(RoleOps, r)'
  BY MadeStays DEF RoleOps
<1>3. CASE RoleDto(r)' = RoleDto(r)
  BY <1>1, <1>2, <1>3 DEF RoleBehind
<1>4. CASE RoleDto(r)' # RoleDto(r)
  <2>1. x.op \in RoleOps /\ x.item = r /\ RoleChanged(x, r)
    BY <1>4 DEF ChangesDtos, RoleChanged
  <2>2. Made({x.op}, r)' /\ Made(RoleOps, r)'
    BY <2>1, MadeIsMade
  <2>3. x.op # "createRole" /\ RoleDto(r)' # None => RoleDto(r) # None
    BY <2>1 DEF RoleChanged, RoleOps
  <2> QED
    BY <1>1, <1>2, <2>2, <2>3 DEF RoleBehind
<1> QED
  BY <1>3, <1>4

LEMMA UsersBehindStays ==
  ASSUME NEW x, x.op \in RoleOps \cup UserOps, ChangesDtos(x), UsersBehind, GoOn(UserShown),
         store'.users = store.users, "users" \notin stale' => "users" \notin stale,
         x.op \in UserShown => "users" \in stale' \/ Made({x.op}, x.item)'
  PROVE  UsersBehind'
<1> SUFFICES ASSUME "users" \notin stale', NEW u \in Users
             PROVE  UserBehind(u)'
  BY DEF UsersBehind
<1>1. UserBehind(u)
  BY DEF UsersBehind
<1>2. /\ Made({"create"}, u) => Made({"create"}, u)'
      /\ Made({"delete"}, u) => Made({"delete"}, u)'
      /\ Made({"create", "update"}, u) => Made({"create", "update"}, u)'
      /\ \A r \in Roles : Made({"updateRole"}, r) => Made({"updateRole"}, r)'
  BY MadeStays DEF UserShown, UserOps
<1>3. CASE UserDto(u)' = UserDto(u)
  BY <1>1, <1>2, <1>3 DEF UserBehind
<1>4. UserDto(u)' # UserDto(u) => x.op \in UserShown /\ UserChanged(x, u)
  BY DEF ChangesDtos, UserChanged, UserShown, RoleOps
<1>5. CASE UserDto(u)' # UserDto(u) /\ x.op \in UserOps
  <2>1. x.item = u /\ x.op \in {"create", "update", "delete"} /\ x.op \in UserShown
    BY <1>4, <1>5 DEF UserChanged, UserOps, UserShown
  <2>2. Made({x.op}, u)'
    BY <2>1
  <2>3. /\ x.op = "create" => Made({"create"}, u)' /\ Made({"create", "update"}, u)'
        /\ x.op = "update" => Made({"create", "update"}, u)'
        /\ x.op = "delete" => Made({"delete"}, u)'
    BY <2>2, MadeIsMade
  <2>4. /\ x.op = "create" => UserDto(u)' # None
        /\ x.op = "update" => UserDto(u) # None /\ UserDto(u)' # None
        /\ x.op = "delete" => UserDto(u)' = None
    BY <1>4, <1>5, <2>1 DEF UserChanged
  <2> QED
    BY <1>1, <1>2, <2>1, <2>3, <2>4 DEF UserBehind
<1>6. CASE UserDto(u)' # UserDto(u) /\ x.op = "updateRole"
  <2>1. /\ UserDto(u)' = None <=> UserDto(u) = None
        /\ UserDto(u) # None => \A r \in Roles :
             /\ r # x.item => UserDto(u)'[r] = UserDto(u)[r]
             /\ UserDto(u)'[r] = None <=> UserDto(u)[r] = None
    BY <1>4, <1>6 DEF UserChanged, UserOps
  <2>2. Made({"updateRole"}, x.item)'
    BY <1>4, <1>6
  <2>3. ASSUME store'.users[u] # None, UserDto(u)' # None, NEW r \in Roles,
               store'.users[u][r] # UserDto(u)'[r]
        PROVE  \/ Made({"create", "update"}, u)'
               \/ store'.users[u][r] # None /\ UserDto(u)'[r] # None /\ Made({"updateRole"}, r)'
    <3>1. store.users[u] # None /\ UserDto(u) # None
      BY <2>1, <2>3
    <3>2. CASE r # x.item
      BY <1>1, <1>2, <2>1, <2>3, <3>1, <3>2 DEF UserBehind
    <3>3. CASE r = x.item /\ UserDto(u)[r] # None /\ store.users[u][r] # None
      BY <2>1, <2>2, <3>1, <3>3
    <3>4. CASE r = x.item /\ UserDto(u)[r] = None
      BY <1>1, <1>2, <2>1, <2>3, <3>1, <3>4 DEF UserBehind
    <3>5. CASE r = x.item /\ UserDto(u)[r] # None /\ store.users[u][r] = None
      BY <1>1, <1>2, <3>1, <3>5 DEF UserBehind
    <3> QED
      BY <3>2, <3>3, <3>4, <3>5
  <2> QED
    BY <1>1, <1>2, <2>1, <2>3 DEF UserBehind
<1> QED
  BY <1>3, <1>4, <1>5, <1>6 DEF UserShown

(* The same where nothing is changed.                                      *)
LEMMA BehindStays ==
  ASSUME role' = role, link' = link, user' = user
  PROVE  /\ /\ RolesBehind /\ GoOn(RoleOps) /\ store'.roles = store.roles
            /\ "roles" \notin stale' => "roles" \notin stale
            => RolesBehind'
         /\ /\ UsersBehind /\ GoOn(UserShown) /\ store'.users = store.users
            /\ "users" \notin stale' => "users" \notin stale
            => UsersBehind'
<1>0. /\ \A r \in Roles : RoleDto(r)' = RoleDto(r)
      /\ \A u \in Users : UserDto(u)' = UserDto(u)
  BY DtosStay
<1>1. ASSUME RolesBehind, GoOn(RoleOps), store'.roles = store.roles,
             "roles" \notin stale' => "roles" \notin stale
      PROVE  RolesBehind'
  <2> SUFFICES ASSUME "roles" \notin stale', NEW r \in Roles
               PROVE  RoleBehind(r)'
    BY DEF RolesBehind
  <2>1. RoleBehind(r)
    BY <1>1 DEF RolesBehind
  <2>2. /\ Made({"createRole"}, r) => Made({"createRole"}, r)'
        /\ Made(RoleOps, r) => Made(RoleOps, r)'
    BY <1>1, MadeStays DEF RoleOps
  <2> QED
    BY <1>0, <1>1, <2>1, <2>2 DEF RoleBehind
<1>2. ASSUME UsersBehind, GoOn(UserShown), store'.users = store.users,
             "users" \notin stale' => "users" \notin stale
      PROVE  UsersBehind'
  <2> SUFFICES ASSUME "users" \notin stale', NEW u \in Users
               PROVE  UserBehind(u)'
    BY DEF UsersBehind
  <2>1. UserBehind(u)
    BY <1>2 DEF UsersBehind
  <2>2. /\ Made({"create"}, u) => Made({"create"}, u)'
        /\ Made({"delete"}, u) => Made({"delete"}, u)'
        /\ Made({"create", "update"}, u) => Made({"create", "update"}, u)'
        /\ \A r \in Roles : Made({"updateRole"}, r) => Made({"updateRole"}, r)'
    BY <1>2, MadeStays DEF UserShown, UserOps
  <2> QED
    BY <1>0, <1>2, <2>1, <2>2 DEF UserBehind
<1> QED
  BY <1>1, <1>2

-----------------------------------------------------------------------------
(* Steps of the service                                                    *)

(* The requests a change leaves, and what is asked for stays to be so.     *)
Same(x, y) == y # None => x # None /\ y.op = x.op /\ y.item = x.item /\ y.step = x.step

LEMMA LateRequests ==
  ASSUME AdminTypeOK, NEW op, NEW i, NEW q \in Requests, request'[q] = Late(op, i)[q]
  PROVE  /\ request'[q] \in Changes \cup {None}
         /\ GoesOn(q) /\ Same(request[q], request'[q])
<1>1. request \in [Requests -> Changes \cup {None}]
  BY DEF AdminTypeOK
<1> QED
  BY <1>1, LateIs DEF GoesOn, Follows, Same

LEMMA SavesForRequestsStays ==
  ASSUME SavesForRequests,
         \A q \in Requests : save'[q] # None /\ request'[q] # None =>
           save[q] # None /\ save'[q].role = save[q].role /\ Same(request[q], request'[q])
  PROVE  SavesForRequests'
BY DEF SavesForRequests, Same

LEMMA OtherChangesInv ==
  ASSUME AdminInv, NEW x, Doable(x), OtherChanges(x)
  PROVE  AdminInv'
<1>1. Accepts(x) /\ Makes(x) /\ request' = Late(x.op, x.item) /\ load' = LateLists(Parts(x.op))
      /\ stale' = stale \cup Parts(x.op) /\ UNCHANGED <<store, view, save, sure>>
  BY DEF OtherChanges
<1>2. x.op \in RoleOps \cup UserOps
  BY DEF Doable, RoleOps, UserOps
<1>3. /\ AdminTypeOK /\ SavesOK /\ LinkedRolesKept /\ SavesForRequests
      /\ AnswersOK /\ RolesBehind /\ UsersBehind
  BY DEF AdminInv
<1>4. RowsOK' /\ ChangesDtos(x) /\ link' = link
  BY <1>1, <1>3, MakesChange
<1>5. \A q \in Requests : GoesOn(q) /\ Same(request[q], request'[q])
  BY <1>1, <1>3, LateRequests
<1>6. \A q \in Requests : AnswerOK(q)'
  BY <1>1, <1>2, <1>3, <1>4, LateAnswers DEF AnswersOK
<1>7. ListTypeOK' /\ \A l \in Loads : ListOK(l)'
  BY <1>1, <1>2, <1>3, <1>4, LateListsAnswers DEF AnswersOK
<1>8. request' \in [Requests -> Changes \cup {None}]
  BY <1>1, <1>3, LateIs DEF AdminTypeOK
<1>9. AdminTypeOK'
  BY <1>1, <1>2, <1>3, <1>4, <1>7, <1>8, PartsAre DEF AdminTypeOK, RowsOK, ListTypeOK
<1>10. SavesOK'
  BY <1>1, <1>3, <1>4, SavesStay
<1>11. SavesForRequests'
  BY <1>1, <1>3, <1>5, SavesForRequestsStays
<1>12. GoOn(RoleOps) /\ GoOn(UserShown)
  BY <1>5 DEF GoOn
<1>13. RolesBehind'
  <2>1. x.op \in RoleOps => "roles" \in stale'
    BY <1>1, <1>2, PartsAre
  <2> QED
    BY <1>1, <1>2, <1>3, <1>4, <1>12, <2>1, RolesBehindStays
<1>14. UsersBehind'
  <2>1. x.op \in UserShown => "users" \in stale'
    BY <1>1, <1>2, PartsAre DEF UserShown
  <2> QED
    BY <1>1, <1>2, <1>3, <1>4, <1>12, <2>1, UsersBehindStays
<1> QED
  BY <1>4, <1>6, <1>7, <1>9, <1>10, <1>11, <1>13, <1>14 DEF AdminInv, AnswersOK, RowsOK

LEMMA PerformsInv ==
  ASSUME AdminInv, NEW q \in Requests, Performs(q)
  PROVE  AdminInv'
<1> PICK x : x = request[q]
  OBVIOUS
<1> PICK step : step = IF x.op \in {"deleteRole", "delete"} THEN "done" ELSE "written"
  OBVIOUS
<1> PICK y : y = [x EXCEPT !.step = step]
  OBVIOUS
<1>1. /\ x # None /\ x.step = "asked" /\ x.op # "updateRolePermissions" /\ Accepts(x) /\ Makes(x)
      /\ request' = [Late(x.op, x.item) EXCEPT ![q] = y]
      /\ load' = LateLists(Parts(x.op))
      /\ UNCHANGED <<store, view, save, stale, sure>>
  BY DEF Performs
<1>2. /\ AdminTypeOK /\ SavesOK /\ LinkedRolesKept /\ SavesForRequests
      /\ AnswersOK /\ RolesBehind /\ UsersBehind
  BY DEF AdminInv
<1>3. x \in Changes /\ x.op \in RoleOps \cup UserOps
  BY <1>1, <1>2, ChangeFields DEF AdminTypeOK
<1>4. Doable(x)
  BY <1>1, <1>3, ChangeFields DEF Doable, RoleOps, UserOps
<1>5. RowsOK' /\ ChangesDtos(x) /\ link' = link
  BY <1>1, <1>2, <1>4, MakesChange
<1>6. Late(x.op, x.item) \in [Requests -> Changes \cup {None}]
  BY <1>2, LateIs DEF AdminTypeOK
<1>7. Follows(x, y) /\ y.step = step /\ y.dto = x.dto /\ y.old = x.old
  BY <1>3, StepFollows
<1>8. request'[q] = y /\ \A p \in Requests \ {q} : request'[p] = Late(x.op, x.item)[p]
  BY <1>1, <1>6
<1>9. request' \in [Requests -> Changes \cup {None}]
  BY <1>1, <1>6, <1>7 DEF Follows
<1>10. \A p \in Requests \ {q} : GoesOn(p) /\ Same(request[p], request'[p])
  BY <1>2, <1>8, LateRequests
<1>11. GoesOn(q) /\ Made({x.op}, x.item)'
  <2>1. /\ request'[q] # None /\ request'[q].op = x.op /\ request'[q].item = x.item
        /\ request'[q].step # "asked"
    BY <1>7, <1>8 DEF Follows
  <2>2. GoesOn(q)
    BY <1>1 DEF GoesOn
  <2> QED
    BY <2>1, <2>2 DEF Made
<1>12. AnswerOK(q)'
  <2>1. x.dto = None
    BY <1>1, <1>2 DEF AnswersOK, AnswerOK
  <2>2. x.op = "deleteRole" => RoleDto(x.item)' = None
    BY <1>4, <1>5 DEF ChangesDtos, RoleChanged, RoleOps, Doable
  <2>3. x.op = "delete" => UserDto(x.item)' = None
    BY <1>4, <1>5 DEF ChangesDtos, UserChanged, UserOps, Doable
  <2>4. /\ request'[q] = y /\ y.op = x.op /\ y.item = x.item /\ y.dto = None
        /\ y.step = IF x.op \in {"deleteRole", "delete"} THEN "done" ELSE "written"
    BY <1>7, <1>8, <2>1 DEF Follows
  <2> QED
    BY <2>2, <2>3, <2>4 DEF AnswerOK, RoleOps
<1>13. \A p \in Requests : AnswerOK(p)'
  BY <1>2, <1>3, <1>5, <1>8, <1>12, LateAnswers DEF AnswersOK
<1>14. ListTypeOK' /\ \A l \in Loads : ListOK(l)'
  BY <1>1, <1>2, <1>3, <1>5, LateListsAnswers DEF AnswersOK
<1>15. AdminTypeOK'
  BY <1>1, <1>2, <1>5, <1>9, <1>14 DEF AdminTypeOK, RowsOK, ListTypeOK
<1>16. SavesOK'
  BY <1>1, <1>2, <1>5, SavesStay
<1>17. SavesForRequests'
  <2>1. save[q] = None
    BY <1>1, <1>2 DEF SavesForRequests
  <2> QED
    BY <1>1, <1>2, <1>10, <2>1, SavesForRequestsStays
<1>18. GoOn(RoleOps) /\ GoOn(UserShown)
  BY <1>10, <1>11 DEF GoOn
<1>19. RolesBehind'
  BY <1>1, <1>2, <1>3, <1>5, <1>11, <1>18, RolesBehindStays
<1>20. UsersBehind'
  BY <1>1, <1>2, <1>3, <1>5, <1>11, <1>18, UsersBehindStays
<1> QED
  BY <1>5, <1>13, <1>14, <1>15, <1>16, <1>17, <1>19, <1>20 DEF AdminInv, AnswersOK, RowsOK

LEMMA FindsInv ==
  ASSUME AdminInv, NEW q \in Requests, Finds(q)
  PROVE  AdminInv'
<1> PICK x : x = request[q]
  OBVIOUS
<1> PICK dto : dto = IF x.op \in RoleOps THEN RoleDto(x.item) ELSE UserDto(x.item)
  OBVIOUS
<1> PICK y : y = WithDto(x, dto)
  OBVIOUS
<1>1. /\ x # None /\ x.step = "written" /\ save[q] = None /\ dto # None
      /\ request' = [request EXCEPT ![q] = y]
      /\ UNCHANGED <<role, link, user, store, view, save, load, stale, sure>>
  BY DEF Finds, WithDto
<1>2. /\ AdminTypeOK /\ SavesOK /\ LinkedRolesKept /\ SavesForRequests
      /\ AnswersOK /\ RolesBehind /\ UsersBehind
  BY DEF AdminInv
<1>3. /\ request \in [Requests -> Changes \cup {None}] /\ x \in Changes
      /\ x.op \in RoleOps \cup UserOps
      /\ x.op \in RoleOps => x.item \in Roles
      /\ x.op \in UserOps => x.item \in Users
  BY <1>1, <1>2, ChangeFields DEF AdminTypeOK
<1>4. /\ x.op \in RoleOps => dto \in RoleDtos
      /\ x.op \notin RoleOps => dto \in UserDtos
  <2>1. RowsOK
    BY <1>2 DEF AdminTypeOK, RowsOK
  <2>2. x.op \in RoleOps => RoleDto(x.item) \in RoleDtos \cup {None}
    BY <1>3, <2>1, DtosAre DEF RoleListed
  <2>3. x.op \notin RoleOps => UserDto(x.item) \in UserDtos \cup {None}
    BY <1>3, <2>1, DtosAre DEF UserListed
  <2> QED
    BY <1>1, <2>2, <2>3
<1>5. Follows(x, y) /\ y.step = "done" /\ y.dto = dto /\ y.old = x.old
  BY <1>3, <1>4, FoundFollows
<1>6. request'[q] = y /\ \A p \in Requests \ {q} : request'[p] = request[p]
  BY <1>1, <1>3
<1>7. request' \in [Requests -> Changes \cup {None}]
  BY <1>1, <1>3, <1>5 DEF Follows
<1>8. AdminTypeOK' /\ LinkedRolesKept' /\ SavesOK'
  BY <1>1, <1>2, <1>7, SavesStay DEF AdminTypeOK, LinkedRolesKept, Live
<1>9. SavesForRequests'
  BY <1>1, <1>2, <1>6, SavesForRequestsStays DEF Same
<1>10. \A p \in Requests : GoesOn(p)
  BY <1>1, <1>5, <1>6 DEF GoesOn, Follows
<1>11. RolesBehind' /\ UsersBehind'
  BY <1>1, <1>2, <1>10, BehindStays DEF GoOn
<1>12. /\ \A r \in Roles : RoleDto(r)' = RoleDto(r)
       /\ \A u \in Users : UserDto(u)' = UserDto(u)
  BY <1>1, DtosStay
<1>13. AnswerOK(q)'
  <2>1. x.op # "delete"
    BY <1>1, <1>2 DEF AnswersOK, AnswerOK
  <2>2. /\ y.op = x.op /\ y.item = x.item /\ y.dto = dto /\ y.step = "done" /\ request'[q] = y
    BY <1>5, <1>6 DEF Follows
  <2>3. /\ x.op \in RoleOps => dto = RoleDto(x.item)'
        /\ x.op \in {"create", "update"} => dto = UserDto(x.item)'
    BY <1>3, <1>12 DEF RoleOps, UserOps
  <2> QED
    BY <2>1, <2>2, <2>3 DEF AnswerOK
<1>14. \A p \in Requests : AnswerOK(p)'
  <2>1. \A p \in Requests \ {q} : Repeats(request[p], request'[p]) /\ AnswerOK(p)
    BY <1>2, <1>6 DEF Repeats, AnswersOK
  <2> QED
    BY <1>1, <1>2, <1>13, <2>1, AnswerStaysSo
<1>15. \A l \in Loads : ListOK(l)'
  BY <1>1, <1>2, <1>12 DEF AnswersOK, ListOK
<1> QED
  BY <1>8, <1>9, <1>11, <1>14, <1>15 DEF AdminInv, AnswersOK

LEMMA InvParts ==
  ASSUME AdminInv
  PROVE  /\ AdminTypeOK /\ SavesOK /\ LinkedRolesKept /\ SavesForRequests
         /\ AnswersOK /\ RolesBehind /\ UsersBehind
BY DEF AdminInv

(* A step that changes no row, and neither store nor stale.                *)
LEMMA RequestsInv ==
  ASSUME AdminInv, AdminTypeOK', SavesOK', SavesForRequests',
         role' = role, link' = link, user' = user, store' = store, stale' = stale,
         \A q \in Requests : AnswerOK(q)' /\ GoesOn(q), \A l \in Loads : ListOK(l)'
  PROVE  AdminInv'
<1>1. LinkedRolesKept'
  BY InvParts DEF LinkedRolesKept, Live
<1>2. RolesBehind' /\ UsersBehind'
  BY InvParts, BehindStays DEF GoOn
<1> QED
  BY <1>1, <1>2 DEF AdminInv, AnswersOK

LEMMA ListsStay ==
  ASSUME AnswersOK, role' = role, link' = link, user' = user, load' = load
  PROVE  \A l \in Loads : ListOK(l)'
<1>1. /\ \A r \in Roles : RoleDto(r)' = RoleDto(r)
      /\ \A u \in Users : UserDto(u)' = UserDto(u)
  BY DtosStay
<1> QED
  BY <1>1 DEF AnswersOK, ListOK

LEMMA UpdatesInv ==
  ASSUME AdminInv, NEW q \in Requests, Updates(q)
  PROVE  AdminInv'
<1> PICK x : x = request[q]
  OBVIOUS
<1> PICK y : y = [x EXCEPT !.step = "written"]
  OBVIOUS
<1>1. /\ x # None /\ x.op = "updateRolePermissions" /\ x.step = "asked"
      /\ ReadsLinks(q, x.item, x.arg) /\ request' = [request EXCEPT ![q] = y]
  BY DEF Updates
<1>2. /\ request \in [Requests -> Changes \cup {None}] /\ x \in Changes
  BY <1>1, InvParts DEF AdminTypeOK
<1>3. x.item \in Roles /\ x.arg \in SUBSET Keys
  BY <1>1, <1>2, ChangeFields DEF RoleOps
<1>4. Follows(x, y) /\ y.step = "written" /\ y.dto = x.dto
  BY <1>2, StepFollows
<1>5. request'[q] = y /\ \A p \in Requests \ {q} : request'[p] = request[p]
  BY <1>1, <1>2
<1>6. request' \in [Requests -> Changes \cup {None}]
  BY <1>1, <1>2, <1>4 DEF Follows
<1>7. /\ SavesOK' /\ save' \in [Requests \cup {Other} -> Saves \cup {None}]
      /\ sure' \in [Roles -> (SUBSET Keys) \cup {None}]
  BY <1>1, <1>3, InvParts, ReadingKeepsSaves
<1>8. UNCHANGED <<role, link, user, store, view, load, stale>>
  BY <1>1 DEF ReadsLinks
<1>9. AdminTypeOK'
  BY <1>6, <1>7, <1>8, InvParts DEF AdminTypeOK
<1>10. SavesForRequests'
  <2>1. save'[q].role = x.item
    BY <1>1, InvParts DEF ReadsLinks, AdminTypeOK
  <2>2. ASSUME NEW p \in Requests, p # q, save'[p] # None
        PROVE  save[p] # None /\ save'[p].role = save[p].role
    <3> PICK z : z = [save[p] EXCEPT !.alone = FALSE]
      OBVIOUS
    <3>1. save[p] # None => save[p] \in Saves
      BY InvParts DEF AdminTypeOK
    <3>2. save[p] # None => z.role = save[p].role
      BY <3>1 DEF Saves
    <3>3. save'[p] = IF p \in Saving(x.item) THEN z ELSE save[p]
      BY <1>1, <2>2, InvParts DEF ReadsLinks, AdminTypeOK
    <3>4. p \in Saving(x.item) => save[p] # None
      BY DEF Saving
    <3> QED
      BY <2>2, <3>2, <3>3, <3>4
  <2>3. SavesForRequests
    BY InvParts
  <2>4. /\ request'[q].op = "updateRolePermissions" /\ request'[q].step = "written"
        /\ request'[q].item = x.item
    BY <1>1, <1>4, <1>5 DEF Follows
  <2>5. ASSUME NEW p \in Requests, save'[p] # None, request'[p] # None
        PROVE  /\ request'[p].op = "updateRolePermissions" /\ request'[p].step = "written"
               /\ request'[p].item = save'[p].role
    BY <1>5, <2>1, <2>2, <2>3, <2>4, <2>5 DEF SavesForRequests
  <2> QED
    BY <2>5 DEF SavesForRequests
<1>11. AnswerOK(q)'
  <2>1. /\ request'[q].step = "written" /\ request'[q].op = "updateRolePermissions"
        /\ request'[q].dto = None
    BY <1>1, <1>4, <1>5, InvParts DEF AnswersOK, AnswerOK, Follows
  <2> QED
    BY <2>1 DEF AnswerOK
<1>12. \A p \in Requests \ {q} : AnswerOK(p)'
  BY <1>5, <1>8, InvParts, AnswerStaysSo DEF Repeats, AnswersOK
<1>13. \A l \in Loads : ListOK(l)'
  BY <1>8, InvParts, ListsStay
<1>14. \A p \in Requests : GoesOn(p)
  BY <1>1, <1>5 DEF GoesOn
<1> QED
  BY <1>7, <1>8, <1>9, <1>10, <1>11, <1>12, <1>13, <1>14, RequestsInv

LEMMA OtherUpdatesInv ==
  ASSUME AdminInv, NEW r \in Roles, NEW keys \in SUBSET Keys, OtherUpdates(r, keys)
  PROVE  AdminInv'
<1>1. ReadsLinks(Other, r, keys) /\ request' = request
  BY DEF OtherUpdates
<1>2. /\ SavesOK' /\ save' \in [Requests \cup {Other} -> Saves \cup {None}]
      /\ sure' \in [Roles -> (SUBSET Keys) \cup {None}]
  BY <1>1, InvParts, ReadingKeepsSaves
<1>3. UNCHANGED <<role, link, user, store, view, load, stale>>
  BY <1>1 DEF ReadsLinks
<1>4. AdminTypeOK'
  BY <1>1, <1>2, <1>3, InvParts DEF AdminTypeOK
<1>5. SavesForRequests'
  <2>1. ASSUME NEW p \in Requests, save'[p] # None
        PROVE  save[p] # None /\ save'[p].role = save[p].role
    <3> PICK z : z = [save[p] EXCEPT !.alone = FALSE]
      OBVIOUS
    <3>1. save[p] # None => save[p] \in Saves
      BY InvParts DEF AdminTypeOK
    <3>2. save[p] # None => z.role = save[p].role
      BY <3>1 DEF Saves
    <3>3. p # Other
      BY AdminAssumption DEF Other
    <3>4. save'[p] = IF p \in Saving(r) THEN z ELSE save[p]
      BY <1>1, <3>3, InvParts DEF ReadsLinks, AdminTypeOK
    <3>5. p \in Saving(r) => save[p] # None
      BY DEF Saving
    <3> QED
      BY <2>1, <3>2, <3>4, <3>5
  <2> QED
    BY <1>1, <2>1, InvParts DEF SavesForRequests
<1>6. \A p \in Requests : AnswerOK(p)'
  BY <1>1, <1>3, InvParts, AnswerStaysSo DEF Repeats, AnswersOK
<1>7. \A l \in Loads : ListOK(l)'
  BY <1>3, InvParts, ListsStay
<1>8. \A p \in Requests : GoesOn(p)
  BY <1>1 DEF GoesOn
<1> QED
  BY <1>2, <1>3, <1>4, <1>5, <1>6, <1>7, <1>8, RequestsInv

LEMMA WritesInv ==
  ASSUME AdminInv, NEW j \in Requests \cup {Other}, save[j] # None, NEW todo, NEW links,
         Writes(j, todo, links), SavesOK', save' \in [Requests \cup {Other} -> Saves \cup {None}],
         link' \in [Roles -> [Keys -> {"none", "live", "gone"}]]
  PROVE  AdminInv'
<1> PICK r : r = save[j].role
  OBVIOUS
<1> PICK x : x = [op |-> "updateRolePermissions", item |-> r]
  OBVIOUS
<1> PICK s : s = [save[j] EXCEPT !.todo = todo]
  OBVIOUS
<1>0. x.op = "updateRolePermissions" /\ x.item = r /\ x.op \in RoleOps
  BY DEF RoleOps
<1>1. /\ link' = [link EXCEPT ![r] = links] /\ save' = [save EXCEPT ![j] = s]
      /\ request' = Late(x.op, r) /\ load' = LateLists(Parts(x.op))
      /\ stale' = IF Alien(j) THEN stale \cup {"roles"} ELSE stale
      /\ UNCHANGED <<role, user, store, view, sure>>
  <2>1. Parts(x.op) = {"roles"}
    BY <1>0 DEF Parts, Part
  <2> QED
    BY <1>0, <2>1 DEF Writes
<1>2. /\ save \in [Requests \cup {Other} -> Saves \cup {None}] /\ save[j] \in Saves
      /\ link \in [Roles -> [Keys -> {"none", "live", "gone"}]]
  BY InvParts DEF AdminTypeOK
<1>3. r \in Roles /\ s.role = r
  BY <1>2 DEF Saves
<1>4. ChangesDtos(x)
  <2>1. \A a \in Roles : a # r => link'[a] = link[a]
    BY <1>1, <1>2
  <2>2. \A a \in Roles : RoleChanged(x, a)
    <3>1. ASSUME NEW a \in Roles, a # r
          PROVE  RoleDto(a)' = RoleDto(a)
      BY <1>1, <2>1, <3>1 DEF RoleDto, Live, KeysOf
    <3>2. RoleDto(r)' = None <=> RoleDto(r) = None
      <4>1. RowsOK /\ RowsOK'
        BY <1>1, InvParts DEF RowsOK, AdminTypeOK, LinkedRolesKept, Live
      <4>2. RoleListed(r) /\ RoleListed(r)'
        BY <1>3, <4>1, DtosAre, DtosAreAfter
      <4> QED
        BY <1>1, <4>2 DEF RoleListed, Live
    <3> QED
      BY <1>0, <3>1, <3>2 DEF RoleChanged
  <2>3. \A u \in Users : UserChanged(x, u)
    BY <1>0, <1>1 DEF UserChanged, UserDto
  <2> QED
    BY <2>2, <2>3 DEF ChangesDtos
<1>5. \A q \in Requests : GoesOn(q) /\ Same(request[q], request'[q])
  BY <1>1, InvParts, LateRequests
<1>6. \A q \in Requests : AnswerOK(q)'
  BY <1>0, <1>1, <1>4, InvParts, LateAnswers DEF AnswersOK
<1>7. ListTypeOK' /\ \A l \in Loads : ListOK(l)'
  BY <1>0, <1>1, <1>4, InvParts, LateListsAnswers DEF AnswersOK
<1>8. request' \in [Requests -> Changes \cup {None}]
  BY <1>1, InvParts, LateIs DEF AdminTypeOK
<1>9. AdminTypeOK' /\ LinkedRolesKept'
  BY <1>1, <1>7, <1>8, InvParts DEF AdminTypeOK, ListTypeOK, LinkedRolesKept, Live
<1>10. SavesForRequests'
  <2>1. \A q \in Requests : save'[q] # None => save[q] # None /\ save'[q].role = save[q].role
    BY <1>1, <1>2, <1>3
  <2> QED
    BY <1>5, <2>1, InvParts, SavesForRequestsStays
<1>11. GoOn(RoleOps) /\ GoOn(UserShown)
  BY <1>5 DEF GoOn
<1>12. "roles" \in stale' \/ Made({x.op}, x.item)'
  <2>1. CASE Alien(j)
    BY <1>1, <2>1
  <2>2. CASE ~Alien(j)
    <3>1. j \in Requests /\ request[j] # None
      BY <2>2 DEF Alien
    <3>2. request[j].op = x.op /\ request[j].item = r /\ request[j].step = "written"
      BY <1>0, <3>1, InvParts DEF SavesForRequests
    <3>3. /\ request'[j] # None /\ request'[j].op = x.op /\ request'[j].item = x.item
          /\ request'[j].step # "asked"
      BY <1>0, <1>5, <3>1, <3>2 DEF GoesOn
    <3> QED
      BY <3>1, <3>3 DEF Made
  <2> QED
    BY <2>1, <2>2
<1>13. RolesBehind' /\ UsersBehind'
  <2>1. x.op \notin UserShown
    BY <1>0 DEF UserShown, UserOps
  <2> QED
    BY <1>0, <1>1, <1>4, <1>11, <1>12, <2>1, InvParts, RolesBehindStays, UsersBehindStays
<1> QED
  BY <1>6, <1>7, <1>9, <1>10, <1>13 DEF AdminInv, AnswersOK

LEMMA LosesInv ==
  ASSUME AdminInv, NEW j \in Requests \cup {Other}, save[j] # None, NEW todo,
         StatementFails(j, todo), SavesOK', save' \in [Requests \cup {Other} -> Saves \cup {None}]
  PROVE  AdminInv'
<1> PICK s : s = [save[j] EXCEPT !.todo = todo, !.alone = FALSE]
  OBVIOUS
<1>1. /\ save' = [save EXCEPT ![j] = s]
      /\ request' = IF Alien(j) THEN request ELSE [request EXCEPT ![j] = None]
      /\ stale' = IF Alien(j) THEN stale ELSE stale \cup {"roles"}
      /\ UNCHANGED <<role, link, user, store, view, load, sure>>
  BY DEF StatementFails
<1>2. /\ save \in [Requests \cup {Other} -> Saves \cup {None}] /\ save[j] \in Saves
      /\ request \in [Requests -> Changes \cup {None}]
  BY InvParts DEF AdminTypeOK
<1>3. s.role = save[j].role
  BY <1>2 DEF Saves
<1>4. \A q \in Requests :
        /\ request'[q] \in {request[q], None}
        /\ request'[q] # request[q] => q = j /\ ~Alien(j)
  BY <1>1, <1>2
<1>5. AdminTypeOK' /\ LinkedRolesKept'
  <2>1. request' \in [Requests -> Changes \cup {None}]
    BY <1>1, <1>2
  <2> QED
    BY <1>1, <2>1, InvParts DEF AdminTypeOK, LinkedRolesKept, Live
<1>6. SavesForRequests'
  <2>1. \A q \in Requests : save'[q] # None => save[q] # None /\ save'[q].role = save[q].role
    BY <1>1, <1>2, <1>3
  <2> QED
    BY <1>4, <2>1, InvParts, SavesForRequestsStays DEF Same
<1>7. \A q \in Requests : AnswerOK(q)'
  BY <1>1, <1>4, InvParts, AnswerStaysSo DEF Repeats, AnswersOK
<1>8. \A l \in Loads : ListOK(l)'
  BY <1>1, InvParts, ListsStay
<1>9. GoOn(UserShown)
  <2>1. ASSUME NEW q \in Requests, request[q] # None, request[q].op \in UserShown
        PROVE  request'[q] = request[q]
    <3>1. CASE q = j
      BY <1>1, <2>1, <3>1, InvParts DEF SavesForRequests, UserShown, UserOps
    <3>2. CASE q # j
      BY <1>4, <3>2
    <3> QED
      BY <3>1, <3>2
  <2> QED
    BY <2>1 DEF GoOn, GoesOn
<1>10. UsersBehind'
  BY <1>1, <1>9, InvParts, BehindStays
<1>11. RolesBehind'
  <2>1. CASE Alien(j)
    <3>1. GoOn(RoleOps)
      BY <1>4, <2>1 DEF GoOn, GoesOn
    <3> QED
      BY <1>1, <2>1, <3>1, InvParts, BehindStays
  <2>2. CASE ~Alien(j)
    BY <1>1, <2>2 DEF RolesBehind
  <2> QED
    BY <2>1, <2>2
<1> QED
  BY <1>5, <1>6, <1>7, <1>8, <1>10, <1>11 DEF AdminInv, AnswersOK

LEMMA StatementsInv ==
  ASSUME AdminInv, NEW j \in Requests \cup {Other},
         \/ DropsLinks(j) \/ LosesStatement(j)
         \/ \E k \in Keys : RestoresLink(j, k) \/ InsertsLink(j, k)
  PROVE  AdminInv'
<1>1. /\ SavesOK' /\ save' \in [Requests \cup {Other} -> Saves \cup {None}]
      /\ link' \in [Roles -> [Keys -> {"none", "live", "gone"}]]
  BY InvParts, StatementKeepsSaves
<1>2. save[j] # None
  BY DEF DropsLinks, LosesStatement, RestoresLink, InsertsLink
<1>3. \/ \E todo, links : Writes(j, todo, links)
      \/ \E todo : StatementFails(j, todo)
  BY DEF DropsLinks, LosesStatement, RestoresLink, InsertsLink
<1> QED
  BY <1>1, <1>2, <1>3, WritesInv, LosesInv

LEMMA EndsSaveInv ==
  ASSUME AdminInv, NEW j \in Requests \cup {Other}, EndsSave(j)
  PROVE  AdminInv'
<1>1. /\ SavesOK' /\ save' \in [Requests \cup {Other} -> Saves \cup {None}]
      /\ sure' \in [Roles -> (SUBSET Keys) \cup {None}]
  BY InvParts, EndingKeepsSaves
<1>2. /\ save' = [save EXCEPT ![j] = None]
      /\ UNCHANGED <<role, link, user, store, view, request, load, stale>>
  BY DEF EndsSave
<1>3. AdminTypeOK'
  BY <1>1, <1>2, InvParts DEF AdminTypeOK
<1>4. SavesForRequests'
  <2>1. save \in [Requests \cup {Other} -> Saves \cup {None}]
    BY InvParts DEF AdminTypeOK
  <2>2. \A q \in Requests : save'[q] # None => save'[q] = save[q]
    BY <1>2, <2>1
  <2> QED
    BY <1>2, <2>2, InvParts, SavesForRequestsStays DEF Same
<1>5. \A q \in Requests : AnswerOK(q)' /\ GoesOn(q)
  BY <1>2, InvParts, AnswerStaysSo DEF Repeats, AnswersOK, GoesOn
<1>6. \A l \in Loads : ListOK(l)'
  BY <1>2, InvParts, ListsStay
<1> QED
  BY <1>1, <1>2, <1>3, <1>4, <1>5, <1>6, RequestsInv

LEMMA RequestFailsInv ==
  ASSUME AdminInv, NEW q \in Requests, RequestFails(q)
  PROVE  AdminInv'
<1> PICK x : x = request[q]
  OBVIOUS
<1>1. /\ x # None /\ request' = [request EXCEPT ![q] = None]
      /\ stale' = IF x.step = "asked" THEN stale ELSE stale \cup Parts(x.op)
      /\ UNCHANGED <<role, link, user, store, view, save, load, sure>>
  BY DEF RequestFails
<1>2. request \in [Requests -> Changes \cup {None}] /\ x \in Changes
  BY <1>1, InvParts DEF AdminTypeOK
<1>3. x.op \in RoleOps \cup UserOps
  BY <1>2, ChangeFields
<1>4. request'[q] = None /\ \A p \in Requests \ {q} : request'[p] = request[p]
  BY <1>1, <1>2
<1>5. AdminTypeOK' /\ LinkedRolesKept'
  <2>1. request' \in [Requests -> Changes \cup {None}]
    BY <1>1, <1>2
  <2>2. stale' \subseteq {"roles", "users"}
    BY <1>1, <1>3, InvParts, PartsAre DEF AdminTypeOK
  <2> QED
    BY <1>1, <2>1, <2>2, InvParts DEF AdminTypeOK, LinkedRolesKept, Live
<1>6. SavesOK'
  BY <1>1, InvParts, SavesStay
<1>7. SavesForRequests'
  BY <1>1, <1>4, InvParts, SavesForRequestsStays DEF Same
<1>8. \A p \in Requests : AnswerOK(p)'
  BY <1>1, <1>4, InvParts, AnswerStaysSo DEF Repeats, AnswersOK
<1>9. \A l \in Loads : ListOK(l)'
  BY <1>1, InvParts, ListsStay
<1>10. ASSUME NEW ops, x.step = "asked" \/ x.op \notin ops
       PROVE  GoOn(ops)
  BY <1>4, <1>10 DEF GoOn, GoesOn
<1>11. RolesBehind'
  <2>1. CASE x.step = "asked" \/ x.op \notin RoleOps
    BY <1>1, <1>10, <2>1, InvParts, BehindStays
  <2>2. CASE ~(x.step = "asked" \/ x.op \notin RoleOps)
    BY <1>1, <1>3, <2>2, PartsAre DEF RolesBehind
  <2> QED
    BY <2>1, <2>2
<1>12. UsersBehind'
  <2>1. CASE x.step = "asked" \/ x.op \notin UserShown
    BY <1>1, <1>10, <2>1, InvParts, BehindStays
  <2>2. CASE ~(x.step = "asked" \/ x.op \notin UserShown)
    BY <1>1, <1>3, <2>2, PartsAre DEF UsersBehind, UserShown
  <2> QED
    BY <2>1, <2>2
<1> QED
  BY <1>5, <1>6, <1>7, <1>8, <1>9, <1>11, <1>12 DEF AdminInv, AnswersOK

-----------------------------------------------------------------------------
(* Steps of the page                                                       *)

LEMMA PageFields ==
  ASSUME NEW v \in Pages
  PROVE  /\ v # None /\ v.selected \in [Roles -> SUBSET Keys] /\ v.at \in {"closed", "panel", "discard"}
         /\ v.active \in Roles \cup {None} /\ v.edited \in Roles \cup {None}
         /\ v.form # None => v.form.user \in Users /\ v.form.names \in SUBSET Names
<1>1. v # None
  BY AdminAssumption
<1> QED
  BY <1>1 DEF Pages

LEMMA SyncedPage ==
  ASSUME NEW v \in Pages, NEW roles \in RoleLists
  PROVE  Synced(v, roles) \in Pages
<1> PICK listed : listed = {r \in Roles : roles[r] # None}
  OBVIOUS
<1> PICK selected : selected = [r \in Roles |-> IF r \in listed THEN roles[r].keys ELSE v.selected[r]]
  OBVIOUS
<1> PICK active : active = IF v.active = None \/ v.active \in listed THEN v.active
                           ELSE IF listed = {} THEN None ELSE CHOOSE r \in listed : TRUE
  OBVIOUS
<1>1. selected \in [Roles -> SUBSET Keys]
  <2>1. \A r \in Roles : r \in listed => roles[r].keys \in SUBSET Keys
    BY DEF RoleDtos, RoleLists
  <2> QED
    BY <2>1, PageFields
<1>2. active \in Roles \cup {None}
  <2>1. listed # {} => (CHOOSE r \in listed : TRUE) \in Roles
    OBVIOUS
  <2> QED
    BY <2>1, PageFields
<1>3. Synced(v, roles) = [v EXCEPT !.selected = selected, !.active = active]
  BY DEF Synced
<1> QED
  BY <1>1, <1>2, <1>3 DEF Pages

LEMMA DoesInv ==
  ASSUME AdminInv, NEW v \in Pages, Does(v)
  PROVE  AdminInv'
<1>1. /\ view' = v
      /\ UNCHANGED <<role, link, user, store, request, save, load, stale, sure>>
  BY DEF Does
<1>2. AdminTypeOK'
  BY <1>1, InvParts DEF AdminTypeOK
<1>3. SavesOK'
  BY <1>1, InvParts, SavesStay
<1>4. SavesForRequests'
  BY <1>1, InvParts DEF SavesForRequests
<1>5. \A q \in Requests : AnswerOK(q)' /\ GoesOn(q)
  BY <1>1, InvParts, AnswerStaysSo DEF Repeats, AnswersOK, GoesOn
<1>6. \A l \in Loads : ListOK(l)'
  BY <1>1, InvParts, ListsStay
<1> QED
  BY <1>1, <1>2, <1>3, <1>4, <1>5, <1>6, RequestsInv

LEMMA PageInv ==
  ASSUME AdminInv,
         \/ AsksToClose
         \/ \E stay \in BOOLEAN : Discards(stay)
         \/ \E r \in Roles \cup {None} : OpensPanel(r)
         \/ \E r \in Roles :
              \/ SelectsRole(r) \/ StartsEdit(r) \/ CancelsEdit(r)
              \/ \E k \in Keys : TogglesKey(r, k)
         \/ \E u \in Users : OpensForm(u)
  PROVE  AdminInv'
<1> SUFFICES \E v \in Pages : Does(v)
  BY DoesInv
<1>1. /\ store.roles \in RoleLists
      /\ store.users \in UserLists
      /\ view \in Pages \cup {None}
  BY InvParts DEF AdminTypeOK
<1>2. AsksToClose => \E v \in Pages : Does(v)
  BY <1>1 DEF AsksToClose, AtPanel, Pages
<1>3. ASSUME NEW stay \in BOOLEAN, Discards(stay)
      PROVE  \E v \in Pages : Does(v)
  BY <1>1, <1>3 DEF Discards, Pages
<1>4. ASSUME NEW r \in Roles \cup {None}, OpensPanel(r)
      PROVE  \E v \in Pages : Does(v)
  <2> PICK v : v = Synced(view, store.roles)
    OBVIOUS
  <2>1. view \in Pages
    BY <1>1, <1>4 DEF OpensPanel, AtTable
  <2>2. v \in Pages
    BY <1>1, <2>1, SyncedPage
  <2>3. Does([v EXCEPT !.at = "panel", !.active = IF r = None THEN @ ELSE r])
    BY <1>4 DEF OpensPanel
  <2>4. [v EXCEPT !.at = "panel", !.active = IF r = None THEN @ ELSE r] \in Pages
    BY <2>2 DEF Pages
  <2> QED
    BY <2>3, <2>4
<1>5. ASSUME NEW r \in Roles, SelectsRole(r) \/ StartsEdit(r) \/ CancelsEdit(r)
      PROVE  \E v \in Pages : Does(v)
  BY <1>1, <1>5 DEF SelectsRole, StartsEdit, CancelsEdit, OnRole, AtPanel, Pages
<1>6. ASSUME NEW r \in Roles, NEW k \in Keys, TogglesKey(r, k)
      PROVE  \E v \in Pages : Does(v)
  <2> PICK v : v = [view EXCEPT !.selected[r] = (@ \ {k}) \cup ({k} \ @)]
    OBVIOUS
  <2>1. view \in Pages
    BY <1>1, <1>6 DEF TogglesKey, OnRole, AtPanel
  <2>2. v \in Pages
    BY <2>1 DEF Pages
  <2> QED
    BY <1>6, <2>2 DEF TogglesKey
<1>7. ASSUME NEW u \in Users, OpensForm(u)
      PROVE  \E v \in Pages : Does(v)
  <2> PICK names : names = NamesOf(u)
    OBVIOUS
  <2>1. view \in Pages /\ store.users[u] # None
    BY <1>1, <1>7 DEF OpensForm, AtTable
  <2>2. names \in SUBSET Names
    BY <1>1, <2>1 DEF NamesOf, UserDtos, UserLists
  <2>3. Does([view EXCEPT !.form = [user |-> u, names |-> names]])
    BY <1>7 DEF OpensForm
  <2> QED
    BY <2>1, <2>2, <2>3 DEF Pages
<1> QED
  BY <1>2, <1>3, <1>4, <1>5, <1>6, <1>7

(* What can be asked for.                                                  *)
Asks(op, i, arg) ==
  \/ op \in {"createRole", "updateRole"} /\ i \in Roles /\ arg \in Names
  \/ op = "deleteRole" /\ i \in Roles /\ arg = None
  \/ op = "updateRolePermissions" /\ i \in Roles /\ arg \in SUBSET Keys
  \/ op \in {"create", "update"} /\ i \in Users /\ arg \in SUBSET Names
  \/ op = "delete" /\ i \in Users /\ arg = None

LEMMA SendsInv ==
  ASSUME AdminInv, NEW q \in Requests, NEW op, NEW i, NEW arg, Asks(op, i, arg), Sends(q, op, i, arg)
  PROVE  AdminInv'
<1> PICK x : x = [op |-> op, item |-> i, arg |-> arg, step |-> "asked", heard |-> TRUE, old |-> FALSE,
                  dto |-> None]
  OBVIOUS
<1>1. /\ request[q] = None /\ save[q] = None /\ request' = [request EXCEPT ![q] = x]
      /\ UNCHANGED <<role, link, user, store, view, save, load, stale, sure>>
  BY DEF Sends
<1>2. request \in [Requests -> Changes \cup {None}]
  BY InvParts DEF AdminTypeOK
<1>3. x \in Changes
  BY DEF Asks, Changes, Change
<1>4. request'[q] = x /\ \A p \in Requests \ {q} : request'[p] = request[p]
  BY <1>1, <1>2
<1>5. AdminTypeOK'
  <2>1. request' \in [Requests -> Changes \cup {None}]
    BY <1>1, <1>2, <1>3
  <2> QED
    BY <1>1, <2>1, InvParts DEF AdminTypeOK
<1>6. SavesOK'
  BY <1>1, InvParts, SavesStay
<1>7. SavesForRequests'
  <2>1. \A p \in Requests : save'[p] # None => p # q
    BY <1>1
  <2> QED
    BY <1>1, <1>4, <2>1, InvParts, SavesForRequestsStays DEF Same
<1>8. AnswerOK(q)'
  BY <1>4 DEF AnswerOK
<1>9. \A p \in Requests \ {q} : AnswerOK(p)'
  BY <1>1, <1>4, InvParts, AnswerStaysSo DEF Repeats, AnswersOK
<1>10. \A p \in Requests : GoesOn(p)
  BY <1>1, <1>4 DEF GoesOn
<1>11. \A l \in Loads : ListOK(l)'
  BY <1>1, InvParts, ListsStay
<1> QED
  BY <1>1, <1>5, <1>6, <1>7, <1>8, <1>9, <1>10, <1>11, RequestsInv

LEMMA AsksInv ==
  ASSUME AdminInv, NEW q \in Requests,
         \/ \E r \in Roles :
              \/ DeletesRole(q, r) \/ SavesPermissions(q, r)
              \/ \E n \in Names : CreatesRole(q, r, n) \/ SavesRole(q, r, n)
         \/ \E names \in SUBSET Names :
              \/ SubmitsForm(q, names)
              \/ \E u \in Users : CreatesUser(q, u, names)
         \/ \E u \in Users : DeletesUser(q, u)
  PROVE  AdminInv'
<1> SUFFICES \E op, i, arg : Asks(op, i, arg) /\ Sends(q, op, i, arg)
  BY SendsInv
<1>1. ASSUME NEW r \in Roles,
             \/ DeletesRole(q, r) \/ \E n \in Names : CreatesRole(q, r, n) \/ SavesRole(q, r, n)
      PROVE  \E op, i, arg : Asks(op, i, arg) /\ Sends(q, op, i, arg)
  BY <1>1 DEF DeletesRole, CreatesRole, SavesRole, Asks
<1>2. ASSUME NEW r \in Roles, SavesPermissions(q, r)
      PROVE  \E op, i, arg : Asks(op, i, arg) /\ Sends(q, op, i, arg)
  <2>1. view \in Pages
    BY <1>2, InvParts DEF SavesPermissions, OnRole, AtPanel, AdminTypeOK
  <2>2. view.selected[r] \in SUBSET Keys
    BY <2>1, PageFields
  <2> QED
    BY <1>2, <2>2 DEF SavesPermissions, Asks
<1>3. ASSUME NEW names \in SUBSET Names, SubmitsForm(q, names)
      PROVE  \E op, i, arg : Asks(op, i, arg) /\ Sends(q, op, i, arg)
  <2>1. view \in Pages /\ view.form # None
    BY <1>3, InvParts DEF SubmitsForm, AdminTypeOK
  <2>2. view.form.user \in Users
    BY <2>1, PageFields
  <2> QED
    BY <1>3, <2>2 DEF SubmitsForm, Asks
<1>4. ASSUME NEW u \in Users, DeletesUser(q, u) \/ \E names \in SUBSET Names : CreatesUser(q, u, names)
      PROVE  \E op, i, arg : Asks(op, i, arg) /\ Sends(q, op, i, arg)
  BY <1>4 DEF DeletesUser, CreatesUser, Asks
<1> QED
  BY <1>1, <1>2, <1>3, <1>4

LEMMA UnheardChange ==
  ASSUME NEW x \in Changes \cup {None}
  PROVE  /\ Unheard(x) \in Changes \cup {None}
         /\ IF x = None THEN Unheard(x) = None
            ELSE /\ Follows(x, Unheard(x)) /\ Unheard(x).step = x.step
                 /\ Unheard(x).dto = x.dto /\ Unheard(x).old = x.old
<1>1. CASE x = None
  BY <1>1 DEF Unheard
<1>2. CASE x # None
  <2> PICK y : y = [x EXCEPT !.heard = FALSE]
    OBVIOUS
  <2>1. Unheard(x) = y
    BY <1>2 DEF Unheard
  <2>2. Follows(x, y) /\ y.step = x.step /\ y.dto = x.dto /\ y.old = x.old
    BY <1>2, UnheardFollows
  <2> QED
    BY <1>2, <2>1, <2>2 DEF Follows
<1> QED
  BY <1>1, <1>2

LEMMA UnheardList ==
  ASSUME NEW x \in Lists \cup {None}
  PROVE  /\ Unheard(x) \in Lists \cup {None}
         /\ IF x = None THEN Unheard(x) = None
            ELSE Unheard(x) # None /\ Unheard(x).roles = x.roles /\ Unheard(x).users = x.users
<1>1. CASE x = None
  BY <1>1 DEF Unheard
<1>2. CASE x # None
  <2> PICK y : y = [x EXCEPT !.heard = FALSE]
    OBVIOUS
  <2>1. Unheard(x) = y
    BY <1>2 DEF Unheard
  <2>2. y \in Lists /\ y.roles = x.roles /\ y.users = x.users
    BY <1>2 DEF Lists
  <2>3. y # None
    BY <2>2, AdminAssumption
  <2> QED
    BY <1>2, <2>1, <2>2, <2>3
<1> QED
  BY <1>1, <1>2

(* The page turns away from some requests and lists.                       *)
LEMMA TurnsAwayInv ==
  ASSUME AdminInv, UNCHANGED <<role, link, user, store, save, stale, sure>>,
         view' \in Pages \cup {None},
         DOMAIN request' = Requests, request' = [q \in Requests |-> request'[q]],
         \A q \in Requests : request'[q] \in {request[q], Unheard(request[q])},
         load' = [l \in Loads |-> load'[l]],
         \A l \in Loads : load'[l] \in {load[l], Unheard(load[l])}
  PROVE  AdminInv'
<1>1. /\ request \in [Requests -> Changes \cup {None}]
      /\ load \in [Loads -> Lists \cup {None}]
  BY InvParts DEF AdminTypeOK
<1>2. \A q \in Requests :
        /\ request'[q] \in Changes \cup {None}
        /\ Repeats(request[q], request'[q]) /\ Same(request[q], request'[q]) /\ GoesOn(q)
  BY <1>1, UnheardChange DEF Repeats, Same, GoesOn, Follows
<1>3. \A l \in Loads :
        /\ load'[l] \in Lists \cup {None}
        /\ IF load[l] = None THEN load'[l] = None
           ELSE load'[l] # None /\ load'[l].roles = load[l].roles /\ load'[l].users = load[l].users
  BY <1>1, UnheardList
<1>4. /\ request' \in [Requests -> Changes \cup {None}]
      /\ load' \in [Loads -> Lists \cup {None}]
  BY <1>2, <1>3
<1>5. AdminTypeOK'
  BY <1>3, <1>4, InvParts DEF AdminTypeOK
<1>6. SavesOK'
  BY InvParts, SavesStay
<1>7. SavesForRequests'
  BY <1>2, InvParts, SavesForRequestsStays
<1>8. \A q \in Requests : AnswerOK(q)'
  BY <1>2, InvParts, AnswerStaysSo DEF AnswersOK
<1>9. \A l \in Loads : ListOK(l)'
  <2>1. /\ \A r \in Roles : RoleDto(r)' = RoleDto(r)
        /\ \A u \in Users : UserDto(u)' = UserDto(u)
    BY DtosStay
  <2> QED
    BY <1>3, <2>1, InvParts DEF AnswersOK, ListOK
<1> QED
  BY <1>2, <1>5, <1>6, <1>7, <1>8, <1>9, RequestsInv

LEMMA LeavesInv ==
  ASSUME AdminInv, Leaves \/ ClosesForm
  PROVE  AdminInv'
<1>0. /\ request = [q \in Requests |-> request[q]] /\ load = [l \in Loads |-> load[l]]
      /\ view \in Pages \cup {None}
  BY InvParts DEF AdminTypeOK
<1>1. CASE Leaves
  <2>1. /\ view' = None
        /\ request' = [q \in Requests |-> Unheard(request[q])]
        /\ load' = [l \in Loads |-> Unheard(load[l])]
        /\ UNCHANGED <<role, link, user, store, save, stale, sure>>
    BY <1>1 DEF Leaves
  <2> QED
    BY <2>1, TurnsAwayInv
<1>2. CASE ClosesForm
  <2>1. /\ view # None /\ view' = [view EXCEPT !.form = None]
        /\ request' = [q \in Requests |->
             IF request[q] # None /\ request[q].op = "update" THEN Unheard(request[q]) ELSE request[q]]
        /\ UNCHANGED <<role, link, user, store, save, load, stale, sure>>
    BY <1>2 DEF ClosesForm
  <2>2. view' \in Pages
    BY <1>0, <2>1 DEF Pages
  <2> QED
    BY <1>0, <2>1, <2>2, TurnsAwayInv
<1> QED
  BY <1>1, <1>2

-----------------------------------------------------------------------------
(* Lists on their way                                                      *)

LEMMA ListFields ==
  ASSUME NEW x \in Lists
  PROVE  /\ x # None /\ x.heard \in BOOLEAN
         /\ x.roles \in PartLists(RoleLists)
         /\ x.users \in PartLists(UserLists)
<1>1. x # None
  BY AdminAssumption
<1> QED
  BY <1>1 DEF Lists

LEMMA AskedShown ==
  /\ Asked.step = "asked" /\ Shown.step = "shown"
  /\ \A dtos : Asked \in PartLists(dtos) /\ Shown \in PartLists(dtos)
BY DEF Asked, Shown, PartLists

(* A step that changes one list only, if that.                             *)
LEMMA ListInv ==
  ASSUME AdminInv, UNCHANGED <<role, link, user, request, save, sure, store, stale>>, view' \in Pages \cup {None},
         NEW l \in Loads, NEW y \in Lists \cup {None}, load' = [load EXCEPT ![l] = y],
         y # None => /\ y.roles.step = "read" => y.roles.dto \in RoleLists
                     /\ y.users.step = "read" => y.users.dto \in UserLists,
         ListOK(l)'
  PROVE  AdminInv'
<1>1. load \in [Loads -> Lists \cup {None}]
  BY InvParts DEF AdminTypeOK
<1>2. load'[l] = y /\ \A k \in Loads \ {l} : load'[k] = load[k]
  BY <1>1
<1>3. AdminTypeOK'
  <2>1. load' \in [Loads -> Lists \cup {None}]
    BY <1>1
  <2>2. \A k \in Loads : load'[k] # None =>
          /\ load'[k].roles.step = "read" => load'[k].roles.dto \in RoleLists
          /\ load'[k].users.step = "read" => load'[k].users.dto \in UserLists
    BY <1>2, InvParts DEF AdminTypeOK
  <2> QED
    BY <2>1, <2>2, InvParts DEF AdminTypeOK
<1>4. SavesOK'
  BY InvParts, SavesStay
<1>5. SavesForRequests'
  BY InvParts DEF SavesForRequests
<1>6. \A q \in Requests : AnswerOK(q)' /\ GoesOn(q)
  BY InvParts, AnswerStaysSo DEF Repeats, AnswersOK, GoesOn
<1>7. \A k \in Loads : ListOK(k)'
  <2>1. /\ \A r \in Roles : RoleDto(r)' = RoleDto(r)
        /\ \A u \in Users : UserDto(u)' = UserDto(u)
    BY DtosStay
  <2>2. ASSUME NEW k \in Loads, k # l
        PROVE  ListOK(k)'
    BY <1>2, <2>1, <2>2, InvParts DEF AnswersOK, ListOK
  <2> QED
    BY <2>2
<1> QED
  BY <1>3, <1>4, <1>5, <1>6, <1>7, RequestsInv

LEMMA LoadsInv ==
  ASSUME AdminInv, NEW l \in Loads, Mounts(l) \/ Refreshes(l)
  PROVE  AdminInv'
<1> PICK y : y = [roles |-> Asked, users |-> Asked, heard |-> TRUE]
  OBVIOUS
<1>1. load' = [load EXCEPT ![l] = y] /\ load \in [Loads -> Lists \cup {None}]
  BY InvParts DEF Mounts, Refreshes, LoadsUsers, AdminTypeOK
<1>2. UNCHANGED <<role, link, user, request, save, sure, store, stale>>
  BY DEF Mounts, Refreshes
<1>3. view' \in Pages \cup {None}
  <2>1. CASE Refreshes(l)
    BY <2>1, InvParts DEF Refreshes, AdminTypeOK
  <2>2. CASE Mounts(l)
    <3> PICK v : v = [selected |-> [r \in Roles |-> {}], at |-> "closed", active |-> None,
                      edited |-> None, form |-> None]
      OBVIOUS
    <3>1. v \in Pages
      BY DEF Pages
    <3>2. view' = Synced(v, store.roles)
      BY <2>2 DEF Mounts
    <3>3. store.roles \in RoleLists
      BY InvParts DEF AdminTypeOK
    <3> QED
      BY <3>1, <3>2, <3>3, SyncedPage
  <2> QED
    BY <2>1, <2>2
<1>4. y \in Lists /\ y.roles.step = "asked" /\ y.users.step = "asked"
  BY AskedShown DEF Lists
<1>5. ListOK(l)'
  <2>1. load'[l] = y
    BY <1>1
  <2> QED
    BY <1>4, <2>1 DEF ListOK
<1> QED
  BY <1>1, <1>2, <1>3, <1>4, <1>5, ListInv

LEMMA ReadsListInv ==
  ASSUME AdminInv, NEW l \in Loads, NEW part \in {"roles", "users"}, ReadsList(l, part)
  PROVE  AdminInv'
<1> PICK x : x = load[l]
  OBVIOUS
<1>1. /\ x # None /\ view' \in Pages \cup {None}
      /\ UNCHANGED <<role, link, user, request, save, sure, store, stale>>
  BY InvParts DEF ReadsList, AdminTypeOK
<1>2. /\ x \in Lists /\ load \in [Loads -> Lists \cup {None}]
      /\ x.roles.step = "read" => x.roles.dto \in RoleLists
      /\ x.users.step = "read" => x.users.dto \in UserLists
      /\ ListOK(l)
  BY <1>1, InvParts DEF AdminTypeOK, AnswersOK
<1>3. /\ \A r \in Roles : RoleDto(r)' = RoleDto(r) /\ RoleDto(r) \in RoleDtos \cup {None}
      /\ \A u \in Users : UserDto(u)' = UserDto(u) /\ UserDto(u) \in UserDtos \cup {None}
  <2>1. RowsOK
    BY InvParts DEF RowsOK, AdminTypeOK
  <2> QED
    BY <1>1, <2>1, DtosStay, DtosAre DEF RoleListed, UserListed
<1>4. CASE part = "roles"
  <2> PICK dto : dto = [r \in Roles |-> RoleDto(r)]
    OBVIOUS
  <2> PICK z : z = [step |-> "read", old |-> FALSE, dto |-> dto]
    OBVIOUS
  <2> PICK y : y = [x EXCEPT !.roles = z]
    OBVIOUS
  <2>1. load' = [load EXCEPT ![l] = y]
    BY <1>4 DEF ReadsList
  <2>2. dto \in RoleLists /\ dto = [r \in Roles |-> RoleDto(r)]'
    BY <1>3 DEF RoleLists
  <2>3. z \in PartLists(RoleLists) /\ z.dto = dto
    BY <2>2 DEF PartLists
  <2>4. y \in Lists /\ y.roles = z /\ y.users = x.users
    BY <1>2, <2>3 DEF Lists
  <2>5. load'[l] = y
    BY <1>2, <2>1
  <2>6. ListOK(l)'
    BY <1>1, <1>2, <1>3, <2>2, <2>3, <2>4, <2>5 DEF ListOK
  <2> QED
    BY <1>1, <1>2, <2>1, <2>2, <2>3, <2>4, <2>6, ListInv
<1>5. CASE part = "users"
  <2> PICK dto : dto = [u \in Users |-> UserDto(u)]
    OBVIOUS
  <2> PICK z : z = [step |-> "read", old |-> FALSE, dto |-> dto]
    OBVIOUS
  <2> PICK y : y = [x EXCEPT !.users = z]
    OBVIOUS
  <2>1. load' = [load EXCEPT ![l] = y]
    BY <1>5 DEF ReadsList
  <2>2. dto \in UserLists /\ dto = [u \in Users |-> UserDto(u)]'
    BY <1>3 DEF UserLists
  <2>3. z \in PartLists(UserLists) /\ z.dto = dto
    BY <2>2 DEF PartLists
  <2>4. y \in Lists /\ y.users = z /\ y.roles = x.roles
    BY <1>2, <2>3 DEF Lists
  <2>5. load'[l] = y
    BY <1>2, <2>1
  <2>6. ListOK(l)'
    BY <1>1, <1>2, <1>3, <2>2, <2>3, <2>4, <2>5 DEF ListOK
  <2> QED
    BY <1>1, <1>2, <2>1, <2>2, <2>3, <2>4, <2>6, ListInv
<1> QED
  BY <1>4, <1>5

(* The parts of a list of which one has been shown or has failed.          *)
PartEnded(x, y, part) ==
  /\ y \in Lists
  /\ IF part = "roles" THEN y.roles.step = "shown" /\ y.users = x.users
                       ELSE y.users.step = "shown" /\ y.roles = x.roles

LEMMA ListFailsInv ==
  ASSUME AdminInv, NEW l \in Loads, NEW part \in {"roles", "users"}, ListFails(l, part)
  PROVE  AdminInv'
<1> PICK x : x = load[l]
  OBVIOUS
<1>1. /\ x # None /\ view' \in Pages \cup {None}
      /\ UNCHANGED <<role, link, user, request, save, sure, store, stale>>
  BY InvParts DEF ListFails, AdminTypeOK
<1>2. /\ x \in Lists /\ load \in [Loads -> Lists \cup {None}]
      /\ x.roles.step = "read" => x.roles.dto \in RoleLists
      /\ x.users.step = "read" => x.users.dto \in UserLists
      /\ ListOK(l)
  BY <1>1, InvParts DEF AdminTypeOK, AnswersOK
<1>3. \E y : load' = [load EXCEPT ![l] = Ended(y)] /\ PartEnded(x, y, part)
  <2>1. CASE part = "roles"
    <3> PICK y : y = [x EXCEPT !.roles = Shown, !.heard = FALSE]
      OBVIOUS
    <3>1. load' = [load EXCEPT ![l] = Ended(y)]
      BY <2>1 DEF ListFails
    <3>2. PartEnded(x, y, part)
      BY <1>2, <2>1, AskedShown DEF PartEnded, Lists
    <3> QED
      BY <3>1, <3>2
  <2>2. CASE part = "users"
    <3> PICK y : y = [x EXCEPT !.users = Shown, !.heard = FALSE]
      OBVIOUS
    <3>1. load' = [load EXCEPT ![l] = Ended(y)]
      BY <2>2 DEF ListFails
    <3>2. PartEnded(x, y, part)
      BY <1>2, <2>2, AskedShown DEF PartEnded, Lists
    <3> QED
      BY <3>1, <3>2
  <2> QED
    BY <2>1, <2>2
<1> PICK y : load' = [load EXCEPT ![l] = Ended(y)] /\ PartEnded(x, y, part)
  BY <1>3
<1> PICK z : z = Ended(y)
  OBVIOUS
<1>4. z \in {y, None} /\ load' = [load EXCEPT ![l] = z] /\ z \in Lists \cup {None}
  BY DEF Ended, PartEnded
<1>5. load'[l] = z
  BY <1>2, <1>4
<1>6. z # None => /\ z.roles.step = "read" => z.roles = x.roles
                  /\ z.users.step = "read" => z.users = x.users
  BY <1>4 DEF PartEnded
<1>7. ListOK(l)'
  <2>1. /\ \A r \in Roles : RoleDto(r)' = RoleDto(r)
        /\ \A u \in Users : UserDto(u)' = UserDto(u)
    BY <1>1, DtosStay
  <2> QED
    BY <1>1, <1>2, <1>5, <1>6, <2>1 DEF ListOK
<1> QED
  BY <1>1, <1>2, <1>4, <1>6, <1>7, ListInv

(* A step of the store: what the service keeps and its requests stay.      *)
LEMMA ShowsInv ==
  ASSUME AdminInv, UNCHANGED <<role, link, user, request, save, sure>>, view' \in Pages \cup {None},
         NEW l \in Loads, NEW y \in Lists \cup {None}, load' = [load EXCEPT ![l] = y],
         y # None => /\ y.roles.step = "read" => y.roles = load[l].roles
                     /\ y.users.step = "read" => y.users = load[l].users,
         load[l] # None, store' \in [roles : RoleLists, users : UserLists],
         stale' \subseteq {"roles", "users"}, RolesBehind', UsersBehind'
  PROVE  AdminInv'
<1>1. load \in [Loads -> Lists \cup {None}]
  BY InvParts DEF AdminTypeOK
<1>2. load'[l] = y /\ \A k \in Loads \ {l} : load'[k] = load[k]
  BY <1>1
<1>3. AdminTypeOK'
  <2>1. load' \in [Loads -> Lists \cup {None}]
    BY <1>1
  <2>2. \A k \in Loads : load'[k] # None =>
          /\ load'[k].roles.step = "read" => load'[k].roles.dto \in RoleLists
          /\ load'[k].users.step = "read" => load'[k].users.dto \in UserLists
    BY <1>2, InvParts DEF AdminTypeOK
  <2> QED
    BY <2>1, <2>2, InvParts DEF AdminTypeOK
<1>4. SavesOK'
  BY InvParts, SavesStay
<1>5. SavesForRequests'
  BY InvParts DEF SavesForRequests
<1>6. \A q \in Requests : AnswerOK(q)'
  BY InvParts, AnswerStaysSo DEF Repeats, AnswersOK
<1>7. \A k \in Loads : ListOK(k)'
  <2>1. /\ \A r \in Roles : RoleDto(r)' = RoleDto(r)
        /\ \A u \in Users : UserDto(u)' = UserDto(u)
    BY DtosStay
  <2> QED
    BY <1>2, <2>1, InvParts DEF AnswersOK, ListOK
<1>8. LinkedRolesKept'
  BY InvParts DEF LinkedRolesKept, Live
<1> QED
  BY <1>3, <1>4, <1>5, <1>6, <1>7, <1>8 DEF AdminInv, AnswersOK

LEMMA ShowsListInv ==
  ASSUME AdminInv, NEW l \in Loads, NEW part \in {"roles", "users"}, ShowsList(l, part)
  PROVE  AdminInv'
<1> PICK x : x = load[l]
  OBVIOUS
<1>1. /\ x # None /\ UNCHANGED <<role, link, user, request, save, sure>>
  BY DEF ShowsList
<1>2. /\ x \in Lists /\ load \in [Loads -> Lists \cup {None}]
      /\ x.roles.step = "read" => x.roles.dto \in RoleLists
      /\ x.users.step = "read" => x.users.dto \in UserLists
      /\ ListOK(l)
      /\ store \in [roles : RoleLists, users : UserLists]
      /\ view \in Pages \cup {None}
      /\ stale \subseteq {"roles", "users"}
  BY <1>1, InvParts DEF AdminTypeOK, AnswersOK
<1>3. /\ \A r \in Roles : RoleDto(r)' = RoleDto(r)
      /\ \A u \in Users : UserDto(u)' = UserDto(u)
  BY <1>1, DtosStay
<1>4. \A q \in Requests : GoesOn(q)
  BY <1>1 DEF GoesOn
<1>5. CASE part = "roles"
  <2> PICK y : y = [x EXCEPT !.roles = Shown]
    OBVIOUS
  <2> PICK z : z = Ended(y)
    OBVIOUS
  <2>1. /\ load' = [load EXCEPT ![l] = z] /\ x.roles.step = "read"
        /\ store' = [store EXCEPT !.roles = x.roles.dto]
        /\ stale' = IF x.roles.old THEN stale \cup {"roles"} ELSE stale \ {"roles"}
        /\ view' = IF view = None THEN view ELSE Synced(view, x.roles.dto)
    BY <1>5 DEF ShowsList
  <2>2. y \in Lists /\ y.roles.step = "shown" /\ y.users = x.users
    BY <1>2, AskedShown DEF Lists
  <2>3. z \in {y, None} /\ z \in Lists \cup {None}
    BY <2>2 DEF Ended
  <2>4. view' \in Pages \cup {None}
    BY <1>2, <2>1, SyncedPage
  <2>5. /\ store' \in [roles : RoleLists, users : UserLists]
        /\ store'.roles = x.roles.dto /\ store'.users = store.users
    BY <1>2, <2>1
  <2>6. RolesBehind'
    <3> SUFFICES ASSUME "roles" \notin stale', NEW r \in Roles
                 PROVE  RoleBehind(r)'
      BY DEF RolesBehind
    <3>1. x.roles.dto = [a \in Roles |-> RoleDto(a)]
      BY <1>1, <1>2, <2>1 DEF ListOK
    <3>2. store'.roles[r] = RoleDto(r)'
      BY <1>3, <2>5, <3>1
    <3> QED
      BY <3>2 DEF RoleBehind
  <2>7. UsersBehind'
    <3>1. "users" \notin stale' => "users" \notin stale
      BY <2>1
    <3> QED
      BY <1>1, <1>4, <2>5, <3>1, InvParts, BehindStays DEF GoOn
  <2>8. stale' \subseteq {"roles", "users"}
    BY <1>2, <2>1
  <2> QED
    BY <1>1, <2>1, <2>2, <2>3, <2>4, <2>5, <2>6, <2>7, <2>8, ShowsInv
<1>6. CASE part = "users"
  <2> PICK y : y = [x EXCEPT !.users = Shown]
    OBVIOUS
  <2> PICK z : z = Ended(y)
    OBVIOUS
  <2>1. /\ load' = [load EXCEPT ![l] = z] /\ x.users.step = "read"
        /\ store' = [store EXCEPT !.users = x.users.dto]
        /\ stale' = IF x.users.old THEN stale \cup {"users"} ELSE stale \ {"users"}
        /\ view' = view
    BY <1>6 DEF ShowsList
  <2>2. y \in Lists /\ y.users.step = "shown" /\ y.roles = x.roles
    BY <1>2, AskedShown DEF Lists
  <2>3. z \in {y, None} /\ z \in Lists \cup {None}
    BY <2>2 DEF Ended
  <2>4. view' \in Pages \cup {None}
    BY <1>2, <2>1
  <2>5. /\ store' \in [roles : RoleLists, users : UserLists]
        /\ store'.users = x.users.dto /\ store'.roles = store.roles
    BY <1>2, <2>1
  <2>6. UsersBehind'
    <3> SUFFICES ASSUME "users" \notin stale', NEW u \in Users
                 PROVE  UserBehind(u)'
      BY DEF UsersBehind
    <3>1. x.users.dto = [a \in Users |-> UserDto(a)]
      BY <1>1, <1>2, <2>1 DEF ListOK
    <3>2. store'.users[u] = UserDto(u)'
      BY <1>3, <2>5, <3>1
    <3> QED
      BY <3>2 DEF UserBehind
  <2>7. RolesBehind'
    <3>1. "roles" \notin stale' => "roles" \notin stale
      BY <2>1
    <3> QED
      BY <1>1, <1>4, <2>5, <3>1, InvParts, BehindStays DEF GoOn
  <2>8. stale' \subseteq {"roles", "users"}
    BY <1>2, <2>1
  <2> QED
    BY <1>1, <2>1, <2>2, <2>3, <2>4, <2>5, <2>6, <2>7, <2>8, ShowsInv
<1> QED
  BY <1>5, <1>6

-----------------------------------------------------------------------------
(* Answers                                                                 *)

LEMMA AnsweredInv ==
  ASSUME AdminInv, UNCHANGED <<role, link, user, save, load, sure>>, view' \in Pages \cup {None},
         NEW q \in Requests, request' = [request EXCEPT ![q] = None],
         store' \in [roles : RoleLists, users : UserLists],
         stale' \subseteq {"roles", "users"}, RolesBehind', UsersBehind'
  PROVE  AdminInv'
<1>1. request \in [Requests -> Changes \cup {None}]
  BY InvParts DEF AdminTypeOK
<1>2. request'[q] = None /\ \A p \in Requests \ {q} : request'[p] = request[p]
  BY <1>1
<1>3. AdminTypeOK' /\ LinkedRolesKept'
  <2>1. request' \in [Requests -> Changes \cup {None}]
    BY <1>1
  <2> QED
    BY <2>1, InvParts DEF AdminTypeOK, LinkedRolesKept, Live
<1>4. SavesOK'
  BY InvParts, SavesStay
<1>5. SavesForRequests'
  BY <1>2, InvParts, SavesForRequestsStays DEF Same
<1>6. \A p \in Requests : AnswerOK(p)'
  BY <1>2, InvParts, AnswerStaysSo DEF Repeats, AnswersOK
<1>7. \A l \in Loads : ListOK(l)'
  BY InvParts, ListsStay
<1> QED
  BY <1>3, <1>4, <1>5, <1>6, <1>7 DEF AdminInv, AnswersOK

(* What is waited for besides the answer.                                  *)
LEMMA MadeByOthers ==
  ASSUME NEW q \in Requests, request'[q] = None, \A p \in Requests \ {q} : request'[p] = request[p],
         NEW ops, NEW i, Made(ops, i), request[q].op \notin ops \/ request[q].item # i
  PROVE  Made(ops, i)'
BY DEF Made

LEMMA UserAnsweredInv ==
  ASSUME AdminInv, NEW q \in Requests, UserAnswered(q)
  PROVE  AdminInv'
<1> PICK x : x = request[q]
  OBVIOUS
<1> PICK i : i = x.item
  OBVIOUS
<1> PICK new : new = IF x.op = "create" \/ (x.op = "update" /\ store.users[i] # None) THEN x.dto
                     ELSE IF x.op = "delete" THEN None ELSE store.users[i]
  OBVIOUS
<1> PICK shown : shown = [store.users EXCEPT ![i] = new]
  OBVIOUS
<1>1. /\ x # None /\ x.step = "done" /\ x.op \in UserOps
      /\ store' = [store EXCEPT !.users = shown]
      /\ request' = [request EXCEPT ![q] = None]
      /\ stale' = IF x.old THEN stale \cup {"users"} ELSE stale
      /\ view' = IF view # None /\ x.heard /\ x.op = "update" THEN [view EXCEPT !.form = None]
                 ELSE view
      /\ UNCHANGED <<role, link, user, save, load, sure>>
  BY DEF UserAnswered
<1>2. /\ request \in [Requests -> Changes \cup {None}] /\ x \in Changes
      /\ store \in [roles : RoleLists, users : UserLists]
      /\ view \in Pages \cup {None} /\ stale \subseteq {"roles", "users"} /\ AnswerOK(q)
  BY <1>1, InvParts DEF AdminTypeOK, AnswersOK
<1>3. i \in Users /\ x.dto \in UserDtos \cup {None} /\ x.op \notin RoleOps
  BY <1>1, <1>2, ChangeFields DEF RoleOps, UserOps
<1>4. request'[q] = None /\ \A p \in Requests \ {q} : request'[p] = request[p]
  BY <1>1, <1>2
<1>5. shown \in UserLists /\ shown[i] = new /\ \A u \in Users : u # i => shown[u] = store.users[u]
  BY <1>2, <1>3 DEF UserLists
<1>6. /\ store' \in [roles : RoleLists, users : UserLists]
      /\ store'.roles = store.roles /\ store'.users = shown
  BY <1>1, <1>2, <1>5
<1>7. view' \in Pages \cup {None}
  <2>1. view # None => [view EXCEPT !.form = None] \in Pages
    BY <1>2 DEF Pages
  <2> QED
    BY <1>1, <1>2, <2>1
<1>8. stale' \subseteq {"roles", "users"} /\ ("roles" \notin stale' => "roles" \notin stale)
  BY <1>1, <1>2
<1>9. /\ \A r \in Roles : RoleDto(r)' = RoleDto(r)
      /\ \A u \in Users : UserDto(u)' = UserDto(u)
  BY <1>1, DtosStay
<1>10. RolesBehind'
  <2>1. GoOn(RoleOps)
    BY <1>3, <1>4 DEF GoOn, GoesOn
  <2> QED
    BY <1>1, <1>6, <1>8, <2>1, InvParts, BehindStays
<1>11. UsersBehind'
  <2> SUFFICES ASSUME "users" \notin stale', NEW u \in Users
               PROVE  UserBehind(u)'
    BY DEF UsersBehind
  <2>1. ~x.old /\ UserBehind(u)
    BY <1>1, InvParts DEF UsersBehind
  <2>2. \A r \in Roles : Made({"updateRole"}, r) => Made({"updateRole"}, r)'
    BY <1>1, <1>4, MadeByOthers DEF UserOps
  <2>3. CASE u # i
    <3>1. /\ Made({"create"}, u) => Made({"create"}, u)'
          /\ Made({"delete"}, u) => Made({"delete"}, u)'
          /\ Made({"create", "update"}, u) => Made({"create", "update"}, u)'
      BY <1>4, <2>3, MadeByOthers
    <3> QED
      BY <1>5, <1>6, <1>9, <2>1, <2>2, <2>3, <3>1 DEF UserBehind
  <2>4. CASE u = i /\ x.op = "delete"
    BY <1>1, <1>2, <1>5, <1>6, <1>9, <2>1, <2>4 DEF AnswerOK, UserBehind
  <2>5. CASE u = i /\ (x.op = "create" \/ (x.op = "update" /\ store.users[i] # None))
    <3>1. store'.users[u] = UserDto(u)'
      BY <1>1, <1>2, <1>5, <1>6, <1>9, <2>1, <2>5 DEF AnswerOK
    <3> QED
      BY <3>1 DEF UserBehind
  <2>6. CASE u = i /\ x.op = "update" /\ store.users[i] = None
    <3>1. Made({"create"}, u) => Made({"create"}, u)'
      BY <1>4, <2>6, MadeByOthers
    <3> QED
      BY <1>5, <1>6, <1>9, <2>1, <2>6, <3>1 DEF UserBehind
  <2> QED
    BY <1>1, <2>3, <2>4, <2>5, <2>6 DEF UserOps
<1> QED
  BY <1>1, <1>6, <1>7, <1>8, <1>10, <1>11, AnsweredInv

LEMMA MovedPage ==
  ASSUME NEW v \in Pages, NEW r \in Roles, NEW roles
  PROVE  Moved(v, r, roles) \in Pages
<1> PICK others : others = {s \in Roles \ {r} : roles[s] # None}
  OBVIOUS
<1> PICK active : active = IF others = {} THEN None ELSE CHOOSE s \in others : TRUE
  OBVIOUS
<1>1. active \in Roles \cup {None}
  <2>1. others # {} => (CHOOSE s \in others : TRUE) \in Roles
    OBVIOUS
  <2> QED
    BY <2>1
<1>2. Moved(v, r, roles) = IF v.active # r THEN v ELSE [v EXCEPT !.active = active]
  BY DEF Moved
<1> QED
  BY <1>1, <1>2 DEF Pages

(* The users as they are shown after an answer about role r.               *)
Renamed(x, users) ==
  /\ users \in UserLists
  /\ \A u \in Users :
       IF x.op = "createRole" \/ store.users[u] = None THEN users[u] = store.users[u]
       ELSE /\ users[u] # None
            /\ \A r \in Roles :
                 users[u][r] = IF r # x.item \/ store.users[u][r] = None THEN store.users[u][r]
                               ELSE IF x.dto = None THEN None ELSE x.dto.name

LEMMA WithRoleIs ==
  ASSUME AdminTypeOK, NEW x \in Changes, x.op \in RoleOps
  PROVE  /\ WithRole(x).roles =
              [store.roles EXCEPT ![x.item] =
                 IF x.op = "createRole" \/ Listed(x.item) THEN x.dto ELSE None]
         /\ WithRole(x) \in [roles : RoleLists, users : UserLists]
         /\ Renamed(x, WithRole(x).users)
<1> PICK r : r = x.item
  OBVIOUS
<1> PICK new : new = IF x.op = "createRole" \/ Listed(r) THEN x.dto ELSE None
  OBVIOUS
<1> PICK name : name = IF x.dto = None THEN None ELSE x.dto.name
  OBVIOUS
<1> PICK roles : roles = [store.roles EXCEPT ![r] = new]
  OBVIOUS
<1> PICK users : users = IF x.op = "createRole" THEN store.users
                ELSE [u \in Users |->
                  IF store.users[u] = None \/ store.users[u][r] = None THEN store.users[u]
                  ELSE [store.users[u] EXCEPT ![r] = name]]
  OBVIOUS
<1>1. WithRole(x) = [roles |-> roles, users |-> users]
  BY DEF WithRole
<1>2. r \in Roles /\ x.dto \in RoleDtos \cup {None}
  BY ChangeFields
<1>3. store.roles \in RoleLists /\ store.users \in UserLists
  BY DEF AdminTypeOK
<1>4. roles \in RoleLists
  BY <1>2, <1>3 DEF RoleLists
<1>5. name \in Names \cup {None}
  BY <1>2 DEF RoleDtos
<1>6. ASSUME NEW u \in Users, x.op # "createRole", store.users[u] # None
      PROVE  /\ users[u] \in UserDtos
             /\ \A s \in Roles :
                  users[u][s] = IF s # r \/ store.users[u][s] = None THEN store.users[u][s] ELSE name
  <2> PICK z : z = [store.users[u] EXCEPT ![r] = name]
    OBVIOUS
  <2>1. store.users[u] \in [Roles -> Names \cup {None}]
    BY <1>3, <1>6 DEF UserLists, UserDtos
  <2>2. z \in [Roles -> Names \cup {None}]
    BY <1>5, <2>1
  <2>3. users[u] = IF store.users[u][r] = None THEN store.users[u] ELSE z
    BY <1>6
  <2> QED
    BY <1>2, <2>1, <2>2, <2>3 DEF UserDtos
<1>7. \A u \in Users : x.op = "createRole" \/ store.users[u] = None => users[u] = store.users[u]
  OBVIOUS
<1>8. users \in UserLists
  <2>1. CASE x.op = "createRole"
    BY <1>3, <2>1
  <2>2. CASE x.op # "createRole"
    <3>1. \A u \in Users : users[u] \in UserDtos \cup {None}
      BY <1>6, <1>7, <2>2
    <3>2. users = [u \in Users |-> users[u]]
      BY <2>2
    <3> QED
      BY <3>1, <3>2 DEF UserLists
  <2> QED
    BY <2>1, <2>2
<1>9. Renamed(x, users)
  BY <1>6, <1>7, <1>8, RowFields DEF Renamed
<1> QED
  BY <1>1, <1>4, <1>8, <1>9

LEMMA RoleAnsweredInv ==
  ASSUME AdminInv, NEW q \in Requests, RoleAnswered(q)
  PROVE  AdminInv'
<1> PICK x : x = request[q]
  OBVIOUS
<1> PICK i : i = x.item
  OBVIOUS
<1> PICK new : new = WithRole(x)
  OBVIOUS
<1> PICK v : v = Synced(view, new.roles)
  OBVIOUS
<1>1. /\ x # None /\ x.step = "done" /\ x.op \in RoleOps
      /\ store' = new
      /\ request' = [request EXCEPT ![q] = None]
      /\ stale' = IF x.old THEN stale \cup {"roles", "users"} ELSE stale
      /\ UNCHANGED <<role, link, user, save, load, sure>>
  BY DEF RoleAnswered
<1>2. /\ request \in [Requests -> Changes \cup {None}] /\ x \in Changes
      /\ store \in [roles : RoleLists, users : UserLists]
      /\ view \in Pages \cup {None} /\ stale \subseteq {"roles", "users"} /\ AnswerOK(q)
  BY <1>1, InvParts DEF AdminTypeOK, AnswersOK
<1>3. i \in Roles /\ x.op \notin UserOps /\ x.dto \in RoleDtos \cup {None}
  BY <1>1, <1>2, ChangeFields DEF RoleOps, UserOps
<1>4. request'[q] = None /\ \A p \in Requests \ {q} : request'[p] = request[p]
  BY <1>1, <1>2
<1>5. /\ new.roles = [store.roles EXCEPT ![i] =
           IF x.op = "createRole" \/ Listed(i) THEN x.dto ELSE None]
      /\ new \in [roles : RoleLists, users : UserLists]
      /\ Renamed(x, new.users)
  BY <1>1, <1>2, InvParts, WithRoleIs
<1>6. /\ new.roles[i] = IF x.op = "createRole" \/ store.roles[i] # None THEN x.dto ELSE None
      /\ \A r \in Roles : r # i => new.roles[r] = store.roles[r]
  BY <1>2, <1>3, <1>5 DEF RoleLists, Listed
<1>7. view' \in Pages \cup {None}
  <2>1. view # None => v \in Pages
    BY <1>2, <1>5, SyncedPage
  <2>2. view # None => [v EXCEPT !.edited = None] \in Pages
    BY <2>1 DEF Pages
  <2>3. view # None => Moved(v, i, new.roles) \in Pages
    BY <1>3, <2>1, MovedPage
  <2>4. view' = IF view = None THEN None
                ELSE IF ~x.heard THEN v
                ELSE CASE x.op = "updateRole" -> [v EXCEPT !.edited = None]
                       [] x.op = "deleteRole" -> Moved(v, i, new.roles)
                       [] OTHER -> v
    BY DEF RoleAnswered
  <2> QED
    BY <2>1, <2>2, <2>3, <2>4
<1>8. stale' \subseteq {"roles", "users"} /\ (stale' = stale \/ x.old)
  BY <1>1, <1>2
<1>9. /\ \A r \in Roles : RoleDto(r)' = RoleDto(r)
      /\ \A u \in Users : UserDto(u)' = UserDto(u)
  BY <1>1, DtosStay
<1>10. ~x.old => x.dto = RoleDto(i)
  BY <1>1, <1>2 DEF AnswerOK
<1>11. RolesBehind'
  <2> SUFFICES ASSUME "roles" \notin stale', NEW r \in Roles
               PROVE  RoleBehind(r)'
    BY DEF RolesBehind
  <2>1. ~x.old /\ RoleBehind(r)
    BY <1>1, InvParts DEF RolesBehind
  <2>2. CASE r # i
    <3>1. /\ Made({"createRole"}, r) => Made({"createRole"}, r)'
          /\ Made(RoleOps, r) => Made(RoleOps, r)'
      BY <1>4, <2>2, MadeByOthers
    <3> QED
      BY <1>1, <1>6, <1>9, <2>1, <2>2, <3>1 DEF RoleBehind
  <2>3. CASE r = i /\ (x.op = "createRole" \/ store.roles[i] # None)
    BY <1>1, <1>6, <1>9, <1>10, <2>1, <2>3 DEF RoleBehind
  <2>4. CASE r = i /\ ~(x.op = "createRole" \/ store.roles[i] # None)
    <3>1. Made({"createRole"}, r) => Made({"createRole"}, r)'
      BY <1>4, <2>4, MadeByOthers
    <3> QED
      BY <1>1, <1>6, <1>9, <2>1, <2>4, <3>1 DEF RoleBehind
  <2> QED
    BY <2>2, <2>3, <2>4
<1>12. UsersBehind'
  <2> SUFFICES ASSUME "users" \notin stale', NEW u \in Users
               PROVE  UserBehind(u)'
    BY DEF UsersBehind
  <2>1. ~x.old /\ UserBehind(u)
    BY <1>1, InvParts DEF UsersBehind
  <2>2. /\ Made({"create"}, u) => Made({"create"}, u)'
        /\ Made({"delete"}, u) => Made({"delete"}, u)'
        /\ Made({"create", "update"}, u) => Made({"create", "update"}, u)'
        /\ \A r \in Roles : r # i \/ x.op # "updateRole" =>
             (Made({"updateRole"}, r) => Made({"updateRole"}, r)')
    BY <1>3, <1>4, MadeByOthers DEF UserOps
  <2>3. CASE x.op = "createRole" \/ store.users[u] = None
    <3>1. store'.users[u] = store.users[u]
      BY <1>1, <1>5, <2>3 DEF Renamed
    <3> QED
      BY <1>9, <2>1, <2>2, <2>3, <3>1 DEF UserBehind
  <2>4. CASE x.op # "createRole" /\ store.users[u] # None
    <3>1. /\ store'.users[u] # None
          /\ \A r \in Roles :
               store'.users[u][r] = IF r # i \/ store.users[u][r] = None THEN store.users[u][r]
                                    ELSE IF x.dto = None THEN None ELSE x.dto.name
      BY <1>1, <1>5, <2>4 DEF Renamed
    <3>2. ASSUME UserDto(u) # None, NEW r \in Roles, store'.users[u][r] # UserDto(u)[r]
          PROVE  \/ Made({"create", "update"}, u)'
                 \/ store'.users[u][r] # None /\ UserDto(u)[r] # None /\ Made({"updateRole"}, r)'
      <4>1. store.users[u][r] # UserDto(u)[r] =>
              \/ Made({"create", "update"}, u)'
              \/ store.users[u][r] # None /\ UserDto(u)[r] # None /\ Made({"updateRole"}, r)
        BY <2>1, <2>2, <2>4, <3>2 DEF UserBehind
      <4>2. CASE r # i
        BY <2>2, <3>1, <3>2, <4>1, <4>2
      <4>3. CASE r = i /\ store.users[u][r] = None
        BY <3>1, <3>2, <4>1, <4>3
      <4>4. CASE r = i /\ store.users[u][r] # None /\ UserDto(u)[r] = None
        BY <4>1, <4>4
      <4>5. CASE r = i /\ store.users[u][r] # None /\ UserDto(u)[r] # None
        <5>1. RowsOK
          BY InvParts DEF RowsOK, AdminTypeOK
        <5>2. Live(i) /\ UserDto(u)[i] = role[i].name
          BY <1>3, <3>2, <4>5, <5>1, DtosAre DEF UserListed
        <5>3. x.dto # None /\ x.dto.name = role[i].name
          BY <1>3, <1>10, <2>1, <5>1, <5>2, DtosAre DEF RoleListed
        <5> QED
          BY <3>1, <3>2, <4>5, <5>2, <5>3
      <4> QED
        BY <4>2, <4>3, <4>4, <4>5
    <3> QED
      BY <1>9, <2>1, <2>2, <2>4, <3>1, <3>2 DEF UserBehind
  <2> QED
    BY <2>3, <2>4
<1> QED
  BY <1>1, <1>5, <1>7, <1>8, <1>11, <1>12, AnsweredInv

-----------------------------------------------------------------------------
(* The theorems                                                            *)

LEMMA AdminInitInv == AdminInit => AdminInv
<1> SUFFICES ASSUME AdminInit
             PROVE  AdminInv
  OBVIOUS
<1>1. AdminTypeOK
  <2>1. role \in [Roles -> RoleRows \cup {None}] /\ user \in [Users -> UserRows \cup {None}]
    BY DEF AdminInit, RoleRows, UserRows
  <2>2. store \in [roles : RoleLists, users : UserLists]
    BY DEF AdminInit, Nobody, RoleLists, UserLists
  <2> QED
    BY <2>1, <2>2 DEF AdminInit, AdminTypeOK
<1>2. SavesOK
  <2>1. /\ \A j \in DOMAIN save : save[j] = None
        /\ \A r \in Roles : sure[r] = None
    BY DEF AdminInit
  <2> QED
    BY <2>1 DEF SavesOK
<1>3. LinkedRolesKept
  BY DEF AdminInit, LinkedRolesKept, Live
<1>4. SavesForRequests /\ AnswersOK /\ RolesBehind /\ UsersBehind
  BY DEF AdminInit, SavesForRequests, AnswersOK, AnswerOK, ListOK, RolesBehind, UsersBehind
<1> QED
  BY <1>1, <1>2, <1>3, <1>4 DEF AdminInv

LEMMA AdminStepInv == AdminInv /\ [AdminNext]_adminVs => AdminInv'
<1> SUFFICES ASSUME AdminInv, [AdminNext]_adminVs
             PROVE  AdminInv'
  OBVIOUS
<1>1. CASE UNCHANGED adminVs
  <2>1. \A q \in Requests : AnswerOK(q)' /\ GoesOn(q)
    BY <1>1, InvParts, AnswerStaysSo DEF adminVs, Repeats, AnswersOK, GoesOn
  <2>2. \A l \in Loads : ListOK(l)'
    BY <1>1, InvParts, ListsStay DEF adminVs
  <2>3. AdminTypeOK' /\ SavesForRequests'
    BY <1>1, InvParts DEF adminVs, AdminTypeOK, SavesForRequests
  <2>4. SavesOK'
    BY <1>1, InvParts, SavesStay DEF adminVs
  <2> QED
    BY <1>1, <2>1, <2>2, <2>3, <2>4, RequestsInv DEF adminVs
<1>2. ASSUME NEW x \in RoleChanges \cup UserChanges, OtherChanges(x)
      PROVE  AdminInv'
  <2>1. Doable(x)
    BY DEF RoleChanges, UserChanges, Doable
  <2> QED
    BY <1>2, <2>1, OtherChangesInv
<1>3. ASSUME NEW l \in Loads,
             \/ Mounts(l) \/ Refreshes(l)
             \/ \E part \in {"roles", "users"} : ReadsList(l, part) \/ ShowsList(l, part) \/ ListFails(l, part)
      PROVE  AdminInv'
  BY <1>3, LoadsInv, ReadsListInv, ShowsListInv, ListFailsInv
<1>4. ASSUME NEW j \in DOMAIN save,
             \/ DropsLinks(j) \/ LosesStatement(j) \/ EndsSave(j)
             \/ \E k \in Keys : RestoresLink(j, k) \/ InsertsLink(j, k)
      PROVE  AdminInv'
  <2>1. j \in Requests \cup {Other}
    BY InvParts DEF AdminTypeOK
  <2> QED
    BY <1>4, <2>1, StatementsInv, EndsSaveInv
<1>5. ASSUME NEW q \in Requests,
             \/ Performs(q) \/ Finds(q) \/ Updates(q) \/ RequestFails(q)
             \/ RoleAnswered(q) \/ UserAnswered(q)
      PROVE  AdminInv'
  BY <1>5, PerformsInv, FindsInv, UpdatesInv, RequestFailsInv, RoleAnsweredInv, UserAnsweredInv
<1>6. ASSUME NEW r \in Roles, NEW keys \in SUBSET Keys, OtherUpdates(r, keys)
      PROVE  AdminInv'
  BY <1>6, OtherUpdatesInv
<1> QED
  BY <1>1, <1>2, <1>3, <1>4, <1>5, <1>6, LeavesInv, PageInv, AsksInv DEF AdminNext

(* The updates of permissions at work, the answers and lists on their way  *)
(* and what the store shows fit what the service keeps, whatever the two   *)
(* administrators do at once.                                              *)
THEOREM AdminInductive == AdminSpec => []AdminInv
BY AdminInitInv, AdminStepInv, PTL DEF AdminSpec

(* Each row, answer, list and page has the fields that the code gives it.  *)
THEOREM AdminTypeCorrect == AdminSpec => []AdminTypeOK
<1>1. AdminInv => AdminTypeOK
  BY InvParts
<1> QED
  BY <1>1, AdminInductive, PTL

(* An update of the permissions of a role that met no other leaves the     *)
(* role with the permissions asked for: this is so for all sets of roles,  *)
(* permissions and requests.                                               *)
THEOREM PermissionsWritten == AdminSpec => []PermissionsAsAsked
<1>1. AdminInv => PermissionsAsAsked
  BY InvParts DEF SavesOK, PermissionsAsAsked
<1> QED
  BY <1>1, AdminInductive, PTL

(* The page of users and roles shows what the service keeps, when nothing  *)
(* it has asked for is under way and nothing names it stale.               *)
THEOREM AdminShown == AdminSpec => []AdminShownIsKept
<1>1. ASSUME AdminInv
      PROVE  AdminShownIsKept
  <2>0. /\ store.roles \in RoleLists /\ store.users \in UserLists
        /\ request \in [Requests -> Changes \cup {None}]
        /\ RolesBehind /\ UsersBehind /\ RowsOK
    BY <1>1, InvParts DEF AdminTypeOK, RowsOK
  <2>1. ASSUME NEW ops, NEW part, NEW i, ops \subseteq RoleOps \cup UserOps,
               \A op \in ops : part \in Parts(op), Made(ops, i)
        PROVE  Pending(part)
    BY <2>1 DEF Made, Pending
  <2>2. \A i : /\ Made({"createRole"}, i) => Pending("roles")
               /\ Made(RoleOps, i) => Pending("roles")
               /\ Made({"create"}, i) => Pending("users")
               /\ Made({"delete"}, i) => Pending("users")
               /\ Made({"create", "update"}, i) => Pending("users")
               /\ Made({"updateRole"}, i) => Pending("users")
    BY <2>1, PartsAre DEF RoleOps, UserOps
  <2>3. ASSUME ~Pending("roles"), "roles" \notin stale
        PROVE  store.roles = [r \in Roles |-> RoleDto(r)]
    <3>1. \A r \in Roles : store.roles[r] = RoleDto(r)
      BY <2>0, <2>2, <2>3 DEF RolesBehind, RoleBehind
    <3> QED
      BY <2>0, <3>1 DEF RoleLists
  <2>4. ASSUME ~Pending("users"), "users" \notin stale
        PROVE  store.users = [u \in Users |-> UserDto(u)]
    <3>1. ASSUME NEW u \in Users
          PROVE  store.users[u] = UserDto(u)
      <4>1. UserBehind(u)
        BY <2>0, <2>4 DEF UsersBehind
      <4>2. store.users[u] = None <=> UserDto(u) = None
        BY <2>2, <2>4, <4>1 DEF UserBehind
      <4>3. store.users[u] # None => \A r \in Roles : store.users[u][r] = UserDto(u)[r]
        BY <2>2, <2>4, <4>1, <4>2 DEF UserBehind
      <4>4. /\ store.users[u] \in UserDtos \cup {None}
            /\ UserDto(u) \in UserDtos \cup {None}
        BY <2>0, DtosAre DEF UserLists, UserListed
      <4> QED
        BY <4>2, <4>3, <4>4 DEF UserDtos
    <3> QED
      BY <2>0, <3>1 DEF UserLists
  <2> QED
    BY <2>3, <2>4 DEF AdminShownIsKept
<1> QED
  BY <1>1, AdminInductive, PTL
=============================================================================
