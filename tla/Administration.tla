----------------------------- MODULE Administration -----------------------------
(***************************************************************************)
(* Administration: the page of users and roles in the monolith (UsersView, *)
(* RolesPanel, the forms and their store), what gateways/public and the    *)
(* service of users do for it, and another administrator at work.          *)
(*                                                                         *)
(* UserRoles has the statements of an update of a user and the role of the *)
(* superadministrator, which this page may not change; here a user is      *)
(* updated in one step, and what is done in several is an update of the    *)
(* permissions of a role. All users fit on one page.                       *)
(***************************************************************************)
EXTENDS FiniteSets, Null

CONSTANTS
  Roles, Users,  \* uids, used and unused
  Keys,          \* permissions
  Names,         \* names of roles
  Requests,      \* changes asked for at a time
  Loads          \* lists being loaded at a time

RoleOps == {"createRole", "updateRole", "deleteRole", "updateRolePermissions"}

UserOps == {"create", "update", "delete"}

(* Rows of the tables.                                                     *)
RoleRows == [name : Names, live : BOOLEAN]

UserRows == [roles : SUBSET Roles, live : BOOLEAN]

(* As they are listed: a user by the names of the roles.                   *)
RoleDtos == [name : Names, keys : SUBSET Keys]

UserDtos == [Roles -> Names \cup {None}]

(* item: the role or user to change; heard: the page that asked is there;  *)
(* old: what the answer says is no longer so.                              *)
Change(ops, items, args, dtos) ==
  [op : ops, item : items, arg : args, step : {"asked", "written", "done"}, heard : BOOLEAN,
   old : BOOLEAN, dto : dtos \cup {None}]

Changes ==
  Change({"createRole", "updateRole"}, Roles, Names, RoleDtos)
  \cup Change({"deleteRole"}, Roles, {None}, RoleDtos)
  \cup Change({"updateRolePermissions"}, Roles, SUBSET Keys, RoleDtos)
  \cup Change({"create", "update"}, Users, SUBSET Names, UserDtos)
  \cup Change({"delete"}, Users, {None}, UserDtos)

(* todo: the links to delete, to restore and to insert; alone: no other    *)
(* update of the role began since.                                         *)
Saves ==
  [role : Roles, keys : SUBSET Keys, alone : BOOLEAN,
   todo : [drop : SUBSET Keys, restore : SUBSET Keys, insert : SUBSET Keys]]

PartLists(dtos) == [step : {"asked", "read", "shown"}, old : BOOLEAN, dto : dtos \cup {None}]

RoleLists == [Roles -> RoleDtos \cup {None}]

UserLists == [Users -> UserDtos \cup {None}]

Lists == [roles : PartLists(RoleLists), users : PartLists(UserLists), heard : BOOLEAN]

Pages ==
  [selected : [Roles -> SUBSET Keys], at : {"closed", "panel", "discard"},
   active : Roles \cup {None}, edited : Roles \cup {None},
   form : {None} \cup [user : Users, names : SUBSET Names]]

ASSUME AdminAssumption ==
  None \notin Requests \cup Names \cup RoleRows \cup UserRows \cup RoleDtos \cup UserDtos
                \cup Changes \cup Saves \cup Lists \cup Pages

VARIABLES
  role,    \* role[r]: the row [name, live], or None
  link,    \* link[r][k]: the row of role_permissions: "none", "live" or "gone"
  user,    \* user[u]: [roles, live], or None
  store,   \* the store: [roles, users] as listed
  view,    \* the page: [selected, at, active, edited, form], or None
  request, \* request[q]: a change asked for, its answer on its way, or None
  save,    \* save[j]: updateRolePermissionLinks at work, or None
  load,    \* load[l]: [roles, users, heard], the lists being loaded, or None
  stale,   \* history: parts of the store that may not be what is kept
  sure     \* history: sure[r]: what the last update of the permissions asked
           \* for, when it was whole and met no other, or None

adminVs == <<role, link, user, store, view, request, save, load, stale, sure>>

(* The other administrator, whose page is not looked at.                   *)
Other == None

Nobody == [roles |-> [r \in Roles |-> None], users |-> [u \in Users |-> None]]

AdminInit ==
  /\ role \in [Roles -> {None} \cup [name : Names, live : {TRUE}]]
  /\ \A r, s \in Roles :
       role[r] # None /\ role[s] # None /\ role[r].name = role[s].name => r = s
  /\ link \in [Roles -> [Keys -> {"none", "live"}]]
  /\ \A r \in Roles, k \in Keys : role[r] = None => link[r][k] = "none"
  /\ user \in [Users -> {None} \cup [roles : SUBSET Roles, live : {TRUE}]]
  /\ \A u \in Users : user[u] # None =>
       user[u].roles # {} /\ \A r \in user[u].roles : role[r] # None
  /\ store = Nobody /\ view = None
  /\ request = [q \in Requests |-> None]
  /\ save = [j \in Requests \cup {Other} |-> None]
  /\ load = [l \in Loads |-> None]
  /\ stale = {"roles", "users"}
  /\ sure = [r \in Roles |-> None]

-----------------------------------------------------------------------------
(* What the service keeps                                                  *)

Live(r) == role[r] # None /\ role[r].live

KeysOf(r) == {k \in Keys : link[r][k] = "live"}

(* toRoleDto of listRoles, a deleted role left out.                        *)
RoleDto(r) == IF Live(r) THEN [name |-> role[r].name, keys |-> KeysOf(r)] ELSE None

(* toPublicUserDto: the roles by their names.                              *)
UserDto(u) ==
  IF user[u] # None /\ user[u].live
  THEN [r \in Roles |-> IF r \in user[u].roles THEN role[r].name ELSE None]
  ELSE None

(* roles.name is unique, deleted rows included: what assertRoleNameAvailable*)
(* lets through the INSERT or UPDATE still refuses.                        *)
Free(name, r) == \A s \in Roles \ {r} : role[s] # None => role[s].name # name

(* user_roles has a link to the role, be it of a deleted user.             *)
Assigned(r) == \E u \in Users : user[u] # None /\ r \in user[u].roles

(* getRolesByNames: all of them, or a refusal.                             *)
Found(names) == names # {} /\ \A n \in names : \E r \in Roles : Live(r) /\ role[r].name = n

Called(names) == {r \in Roles : Live(r) /\ role[r].name \in names}

Part(op) == IF op \in RoleOps THEN "roles" ELSE "users"

(* The change x can be made.                                               *)
Accepts(x) ==
  LET i == x.item IN
  CASE x.op = "createRole" -> role[i] = None /\ Free(x.arg, i)
    [] x.op = "updateRole" -> Live(i) /\ Free(x.arg, i)
    [] x.op = "deleteRole" -> Live(i) /\ ~Assigned(i)
    [] x.op = "create" -> user[i] = None /\ Found(x.arg)
    [] x.op = "update" -> user[i] # None /\ user[i].live /\ Found(x.arg)
    [] x.op = "delete" -> user[i] # None /\ user[i].live

(* The change x is made. What is deleted stays in its table.               *)
Makes(x) ==
  LET i == x.item IN
  /\ role' = CASE x.op \in {"createRole", "updateRole"} ->
                   [role EXCEPT ![i] = [name |-> x.arg, live |-> TRUE]]
              [] x.op = "deleteRole" -> [role EXCEPT ![i].live = FALSE]
              [] OTHER -> role
  /\ user' = CASE x.op \in {"create", "update"} ->
                   [user EXCEPT ![i] = [roles |-> Called(x.arg), live |-> TRUE]]
              [] x.op = "delete" -> [user EXCEPT ![i].live = FALSE]
              [] OTHER -> user
  /\ UNCHANGED link

(* What an answer on its way says is no longer what is kept: a change of   *)
(* the same item, or of the name of a role for the answers about users.    *)
Late(op, i) ==
  [q \in Requests |->
    IF request[q] # None /\ request[q].step = "done"
       /\ (request[q].item = i \/ (op \in {"updateRole", "deleteRole"} /\ request[q].op \in UserOps))
    THEN [request[q] EXCEPT !.old = TRUE] ELSE request[q]]

(* The parts that show a change: users are listed with the names of roles. *)
Parts(op) ==
  IF op \in {"updateRole", "deleteRole"} THEN {"roles", "users"} ELSE {Part(op)}

(* A list of them that has been read and not shown yet.                    *)
LateLists(parts) ==
  [l \in Loads |->
    IF load[l] = None THEN None
    ELSE [load[l] EXCEPT
      !.roles = IF "roles" \in parts /\ @.step = "read" THEN [@ EXCEPT !.old = TRUE] ELSE @,
      !.users = IF "users" \in parts /\ @.step = "read" THEN [@ EXCEPT !.old = TRUE] ELSE @]]

(* Another administrator changes a role or a user.                         *)
OtherChanges(x) ==
  /\ Accepts(x)
  /\ Makes(x)
  /\ request' = Late(x.op, x.item)
  /\ load' = LateLists(Parts(x.op))
  /\ stale' = stale \cup Parts(x.op)
  /\ UNCHANGED <<store, view, save, sure>>

(* createRole, updateRole and deleteRole of RoleService, and the changes of*)
(* a user. What was written is read again before it is answered.           *)
Performs(q) ==
  LET x == request[q] IN
  /\ x # None /\ x.step = "asked" /\ x.op # "updateRolePermissions"
  /\ Accepts(x)
  /\ Makes(x)
  /\ request' = [Late(x.op, x.item) EXCEPT ![q] =
       [x EXCEPT !.step = IF x.op \in {"deleteRole", "delete"} THEN "done" ELSE "written"]]
  /\ load' = LateLists(Parts(x.op))
  /\ UNCHANGED <<store, view, save, stale, sure>>

(* findRoleWithPermissions and findPublicUser, unless it is deleted.       *)
Finds(q) ==
  LET x == request[q]
      dto == IF x.op \in RoleOps THEN RoleDto(x.item) ELSE UserDto(x.item)
  IN
  /\ x # None /\ x.step = "written" /\ save[q] = None
  /\ dto # None
  /\ request' = [request EXCEPT ![q] = [x EXCEPT !.step = "done", !.dto = dto]]
  /\ UNCHANGED <<role, link, user, store, view, save, load, stale, sure>>

-----------------------------------------------------------------------------
(* The permissions of a role                                               *)

Saving(r) == {j \in DOMAIN save : save[j] # None /\ save[j].role = r}

(* Defect: a link that was deleted is not restored.                        *)
LinksToWriteNew(r, keys) ==
  [drop |-> KeysOf(r) \ keys, restore |-> {},
   insert |-> {k \in keys : link[r][k] = "none"}]

(* The statements that make keys of the links there are.                   *)
LinksToWrite(r, keys) ==
  [drop |-> KeysOf(r) \ keys, restore |-> {k \in keys : link[r][k] = "gone"},
   insert |-> {k \in keys : link[r][k] = "none"}]

(* The links are read, deleted ones included; what is to be written        *)
(* follows from what was read.                                             *)
ReadsLinks(j, r, keys) ==
  /\ save[j] = None /\ Live(r)
  /\ save' = [i \in DOMAIN save |->
       IF i = j THEN [role |-> r, keys |-> keys, todo |-> LinksToWrite(r, keys),
                      alone |-> Saving(r) = {}]
       ELSE IF i \in Saving(r) THEN [save[i] EXCEPT !.alone = FALSE] ELSE save[i]]
  /\ sure' = [sure EXCEPT ![r] = None]
  /\ UNCHANGED <<role, link, user, store, view, load, stale>>

Updates(q) ==
  LET x == request[q] IN
  /\ x # None /\ x.op = "updateRolePermissions" /\ x.step = "asked"
  /\ ReadsLinks(q, x.item, x.arg)
  /\ request' = [request EXCEPT ![q].step = "written"]

OtherUpdates(r, keys) == ReadsLinks(Other, r, keys) /\ UNCHANGED request

Nothing == [drop |-> {}, restore |-> {}, insert |-> {}]

(* Nobody of this page waits for the answer.                               *)
Alien(j) == IF j = Other THEN TRUE ELSE request[j] = None

(* One of the parallel statements has been executed.                       *)
Writes(j, todo, links) ==
  LET r == save[j].role IN
  /\ link' = [link EXCEPT ![r] = links]
  /\ save' = [save EXCEPT ![j].todo = todo]
  /\ request' = Late("updateRolePermissions", r)
  /\ load' = LateLists({"roles"})
  /\ stale' = IF Alien(j) THEN stale \cup {"roles"} ELSE stale
  /\ UNCHANGED <<role, user, store, view, sure>>

(* rolePermissionModel.destroy: one statement for all.                     *)
DropsLinks(j) ==
  LET s == save[j] IN
  /\ s # None /\ s.todo.drop # {}
  /\ Writes(j, [s.todo EXCEPT !.drop = {}],
       [k \in Keys |-> IF k \in s.todo.drop /\ link[s.role][k] = "live" THEN "gone"
                       ELSE link[s.role][k]])

RestoresLink(j, k) ==
  LET s == save[j] IN
  /\ s # None /\ k \in s.todo.restore
  /\ Writes(j, [s.todo EXCEPT !.restore = @ \ {k}], [link[s.role] EXCEPT ![k] = "live"])

(* rolePermissionModel.create: one row for a role and a permission.        *)
InsertsLink(j, k) ==
  LET s == save[j] IN
  /\ s # None /\ k \in s.todo.insert
  /\ link[s.role][k] = "none"
  /\ Writes(j, [s.todo EXCEPT !.insert = @ \ {k}], [link[s.role] EXCEPT ![k] = "live"])

(* A statement fails, be it because another update has inserted the row.   *)
(* The answer is an error; the other statements, todo, are executed all the*)
(* same.                                                                   *)
StatementFails(j, todo) ==
  LET s == save[j] IN
  /\ todo # s.todo
  /\ save' = [save EXCEPT ![j] = [s EXCEPT !.todo = todo, !.alone = FALSE]]
  /\ request' = IF Alien(j) THEN request ELSE [request EXCEPT ![j] = None]
  /\ stale' = IF Alien(j) THEN stale ELSE stale \cup {"roles"}
  /\ UNCHANGED <<role, link, user, store, view, load, sure>>

LosesStatement(j) ==
  /\ save[j] # None
  /\ LET todo == save[j].todo IN
     \/ StatementFails(j, [todo EXCEPT !.drop = {}])
     \/ \E k \in todo.restore : StatementFails(j, [todo EXCEPT !.restore = @ \ {k}])
     \/ \E k \in todo.insert : StatementFails(j, [todo EXCEPT !.insert = @ \ {k}])

EndsSave(j) ==
  LET s == save[j] IN
  /\ s # None /\ s.todo = Nothing
  /\ save' = [save EXCEPT ![j] = None]
  /\ sure' = IF s.alone THEN [sure EXCEPT ![s.role] = s.keys] ELSE sure
  /\ UNCHANGED <<role, link, user, store, view, request, load, stale>>

(* A request is refused, a statement or the connection fails, or the list  *)
(* of users that notifyRolePermissionChange reads after the change: what   *)
(* was changed is not shown.                                               *)
RequestFails(q) ==
  LET x == request[q] IN
  /\ x # None
  /\ request' = [request EXCEPT ![q] = None]
  /\ stale' = IF x.step = "asked" THEN stale ELSE stale \cup Parts(x.op)
  /\ UNCHANGED <<role, link, user, store, view, save, load, sure>>

-----------------------------------------------------------------------------
(* The lists                                                               *)

Asked == [step |-> "asked", old |-> FALSE, dto |-> None]

Shown == [Asked EXCEPT !.step = "shown"]

Loading == \E l \in Loads : load[l] # None /\ load[l].heard

(* loadUsers: the requests are sent in parallel.                           *)
LoadsUsers(l) ==
  /\ load[l] = None
  /\ load' = [load EXCEPT ![l] = [roles |-> Asked, users |-> Asked, heard |-> TRUE]]

Waits(op) == \E q \in Requests : request[q] # None /\ request[q].heard /\ request[q].op = op

(* No window is open; that of a deletion stays until it is answered.       *)
AtTable == view # None /\ view.at = "closed" /\ view.form = None /\ ~Waits("delete")

(* The button that loads the lists again.                                  *)
Refreshes(l) ==
  /\ AtTable /\ ~Loading
  /\ LoadsUsers(l)
  /\ UNCHANGED <<role, link, user, store, view, request, save, stale, sure>>

(* list and listRoles of the service.                                      *)
ReadsList(l, part) ==
  /\ load[l] # None /\ load[l][part].step = "asked"
  /\ load' = [load EXCEPT ![l][part] =
       [step |-> "read", old |-> FALSE,
        dto |-> IF part = "roles" THEN [r \in Roles |-> RoleDto(r)]
                ELSE [u \in Users |-> UserDto(u)]]]
  /\ UNCHANGED <<role, link, user, store, view, request, save, stale, sure>>

Ended(x) == IF x.roles.step = "shown" /\ x.users.step = "shown" THEN None ELSE x

(* syncSelectedPermissionKeys, which the watch of the roles calls: the keys*)
(* of every role listed are those listed, whatever was selected, and the   *)
(* active role is one that is listed.                                      *)
Synced(v, roles) ==
  LET listed == {r \in Roles : roles[r] # None} IN
  [v EXCEPT
    !.selected = [r \in Roles |-> IF r \in listed THEN roles[r].keys ELSE @[r]],
    !.active = IF @ = None \/ @ \in listed THEN @
               ELSE IF listed = {} THEN None ELSE CHOOSE r \in listed : TRUE]

(* The answer is committed; the page, if there is one, follows.            *)
ShowsList(l, part) ==
  LET x == load[l][part] IN
  /\ load[l] # None /\ x.step = "read"
  /\ store' = [store EXCEPT ![part] = x.dto]
  /\ load' = [load EXCEPT ![l] = Ended([@ EXCEPT ![part] = Shown])]
  /\ stale' = IF x.old THEN stale \cup {part} ELSE stale \ {part}
  /\ view' = IF view = None \/ part = "users" THEN view ELSE Synced(view, x.dto)
  /\ UNCHANGED <<role, link, user, request, save, sure>>

(* The page no longer waits, though the other list may still come.         *)
ListFails(l, part) ==
  /\ load[l] # None /\ load[l][part].step # "shown"
  /\ load' = [load EXCEPT ![l] = Ended([@ EXCEPT ![part] = Shown, !.heard = FALSE])]
  /\ UNCHANGED <<role, link, user, store, view, request, save, stale, sure>>

Unheard(x) == IF x = None THEN None ELSE [x EXCEPT !.heard = FALSE]

(* The page is opened: what the store has is shown until the lists come.   *)
Mounts(l) ==
  /\ view = None
  /\ view' = Synced([selected |-> [r \in Roles |-> {}], at |-> "closed", active |-> None,
                     edited |-> None, form |-> None], store.roles)
  /\ LoadsUsers(l)
  /\ UNCHANGED <<role, link, user, store, request, save, stale, sure>>

(* The page is left: nobody hears the answers, the store takes them.       *)
Leaves ==
  /\ view # None
  /\ view' = None
  /\ request' = [q \in Requests |-> Unheard(request[q])]
  /\ load' = [l \in Loads |-> Unheard(load[l])]
  /\ UNCHANGED <<role, link, user, store, save, stale, sure>>

-----------------------------------------------------------------------------
(* The panel of roles                                                      *)

Listed(r) == store.roles[r] # None

(* isSubmitting of the panel.                                              *)
Submitting == \E q \in Requests : request[q] # None /\ request[q].heard /\ request[q].op \in RoleOps

(* The window of roles is open, and no dialog above it.                    *)
AtPanel == view # None /\ view.at = "panel"

(* activeRole: the one chosen, or the first of the list.                   *)
OnRole(r) == AtPanel /\ Listed(r) /\ (view.active = r \/ ~\E s \in Roles : Listed(s) /\ view.active = s)

Changed(r) == view.selected[r] # store.roles[r].keys

(* The page does something, and no request is sent.                        *)
Does(v) ==
  /\ view' = v
  /\ UNCHANGED <<role, link, user, store, request, save, load, stale, sure>>

(* openModal: what was selected before is given up.                        *)
OpensPanel(first) ==
  /\ AtTable
  /\ IF view.active = None /\ \E r \in Roles : Listed(r) THEN first \in Roles /\ Listed(first)
                                                        ELSE first = None
  /\ LET v == Synced(view, store.roles) IN
     Does([v EXCEPT !.at = "panel", !.active = IF first = None THEN @ ELSE first])

(* selectRole: an edited name is given up, selected keys are not.          *)
SelectsRole(r) ==
  /\ AtPanel /\ Listed(r)
  /\ Does([view EXCEPT !.active = r, !.edited = None])

(* A checkbox of the active role.                                          *)
TogglesKey(r, k) ==
  /\ OnRole(r) /\ ~Submitting
  /\ Does([view EXCEPT !.selected[r] = (@ \ {k}) \cup ({k} \ @)])

StartsEdit(r) ==
  /\ OnRole(r) /\ view.edited # r /\ ~Submitting
  /\ Does([view EXCEPT !.active = r, !.edited = r])

CancelsEdit(r) ==
  /\ OnRole(r) /\ view.edited = r /\ ~Submitting
  /\ Does([view EXCEPT !.edited = None])

(* hasUnsavedChanges; an edited name may be the old one.                   *)
Unsaved == \E r \in Roles : Listed(r) /\ Changed(r)

(* requestCloseModal and the dialog it may open, whose answer is to stay   *)
(* or to close without saving.                                             *)
AsksToClose ==
  /\ AtPanel /\ ~Submitting
  /\ \/ /\ Unsaved \/ view.edited # None
        /\ Does([view EXCEPT !.at = "discard"])
     \/ ~Unsaved /\ Does([view EXCEPT !.at = "closed", !.edited = None])

Discards(stay) ==
  /\ view # None /\ view.at = "discard"
  /\ Does(IF stay THEN [view EXCEPT !.at = "panel"]
                  ELSE [view EXCEPT !.at = "closed", !.edited = None])

Sends(q, op, i, arg) ==
  /\ request[q] = None /\ save[q] = None
  /\ request' = [request EXCEPT ![q] =
       [op |-> op, item |-> i, arg |-> arg, step |-> "asked", heard |-> TRUE, old |-> FALSE,
        dto |-> None]]
  /\ UNCHANGED <<role, link, user, store, view, save, load, stale, sure>>

CreatesRole(q, r, name) == AtPanel /\ ~Submitting /\ role[r] = None /\ Sends(q, "createRole", r, name)

SavesRole(q, r, name) ==
  OnRole(r) /\ view.edited = r /\ ~Submitting /\ Sends(q, "updateRole", r, name)

DeletesRole(q, r) == OnRole(r) /\ ~Submitting /\ Sends(q, "deleteRole", r, None)

SavesPermissions(q, r) ==
  /\ OnRole(r) /\ Changed(r) /\ ~Submitting
  /\ Sends(q, "updateRolePermissions", r, view.selected[r])

(* Defect: users go on being shown with the old name of a role.            *)
WithRoleAlone(x) ==
  [roles |-> [store.roles EXCEPT ![x.item] =
     IF x.op = "createRole" \/ store.roles[x.item] # None THEN x.dto ELSE None],
   users |-> store.users]

(* What the store makes of an answer about a role: one created is added,   *)
(* one changed is replaced where it is listed, among the users too.        *)
WithRole(x) ==
  LET r == x.item
      new == IF x.op = "createRole" \/ Listed(r) THEN x.dto ELSE None
      name == IF x.dto = None THEN None ELSE x.dto.name
  IN [roles |-> [store.roles EXCEPT ![r] = new],
      users |-> IF x.op = "createRole" THEN store.users
                ELSE [u \in Users |->
                  IF store.users[u] = None \/ store.users[u][r] = None THEN store.users[u]
                  ELSE [store.users[u] EXCEPT ![r] = name]]]

(* The active role was deleted: another that is listed is.                 *)
Moved(v, r, roles) ==
  IF v.active # r THEN v
  ELSE LET others == {s \in Roles \ {r} : roles[s] # None} IN
       [v EXCEPT !.active = IF others = {} THEN None ELSE CHOOSE s \in others : TRUE]

(* commit, the watch of the roles, and what the panel does if it is there. *)
RoleAnswered(q) ==
  LET x == request[q]
      new == WithRole(x)
      v == Synced(view, new.roles)
  IN
  /\ x # None /\ x.step = "done" /\ x.op \in RoleOps
  /\ store' = new
  /\ request' = [request EXCEPT ![q] = None]
  /\ stale' = IF x.old THEN stale \cup {"roles", "users"} ELSE stale
  /\ view' = IF view = None THEN None
             ELSE IF ~x.heard THEN v
             ELSE CASE x.op = "updateRole" -> [v EXCEPT !.edited = None]
                    [] x.op = "deleteRole" -> Moved(v, x.item, new.roles)
                    [] OTHER -> v
  /\ UNCHANGED <<role, link, user, save, load, sure>>

-----------------------------------------------------------------------------
(* The users                                                               *)

NamesOf(u) == {store.users[u][r] : r \in Roles} \ {None}

NamesListed == {store.roles[r].name : r \in {s \in Roles : Listed(s)}}

(* openEditModal: the form takes the names there are.                      *)
OpensForm(u) ==
  /\ AtTable /\ store.users[u] # None
  /\ Does([view EXCEPT !.form = [user |-> u, names |-> NamesOf(u)]])

(* The form is closed, though its request may be under way.                *)
ClosesForm ==
  /\ view # None /\ view.form # None
  /\ view' = [view EXCEPT !.form = None]
  /\ request' = [q \in Requests |->
       IF request[q] # None /\ request[q].op = "update" THEN Unheard(request[q]) ELSE request[q]]
  /\ UNCHANGED <<role, link, user, store, save, load, stale, sure>>

(* updateUser of the form: names it had, of which a role may have been     *)
(* renamed since, and names listed now.                                    *)
SubmitsForm(q, names) ==
  /\ view # None /\ view.form # None /\ ~Waits("update")
  /\ names # {} /\ names \subseteq view.form.names \cup NamesListed
  /\ Sends(q, "update", view.form.user, names)

(* createUser of the other form, which may be closed and opened again      *)
(* while its request is under way.                                         *)
CreatesUser(q, u, names) ==
  /\ AtTable
  /\ user[u] = None /\ names # {} /\ names \subseteq NamesListed
  /\ Sends(q, "create", u, names)

DeletesUser(q, u) ==
  /\ AtTable
  /\ store.users[u] # None
  /\ Sends(q, "delete", u, None)

(* addUser, updateUser and deleteUser of the store; the form closes.       *)
UserAnswered(q) ==
  LET x == request[q] IN
  /\ x # None /\ x.step = "done" /\ x.op \in UserOps
  /\ store' = [store EXCEPT !.users[x.item] =
       IF x.op = "create" \/ (x.op = "update" /\ @ # None) THEN x.dto
       ELSE IF x.op = "delete" THEN None ELSE @]
  /\ request' = [request EXCEPT ![q] = None]
  /\ stale' = IF x.old THEN stale \cup {"users"} ELSE stale
  /\ view' = IF view # None /\ x.heard /\ x.op = "update" THEN [view EXCEPT !.form = None]
             ELSE view
  /\ UNCHANGED <<role, link, user, save, load, sure>>

-----------------------------------------------------------------------------

RoleChanges ==
  [op : {"createRole", "updateRole"}, item : Roles, arg : Names]
  \cup [op : {"deleteRole"}, item : Roles, arg : {None}]

UserChanges ==
  [op : {"create", "update"}, item : Users, arg : SUBSET Names]
  \cup [op : {"delete"}, item : Users, arg : {None}]

AdminNext ==
  \/ Leaves \/ AsksToClose \/ ClosesForm
  \/ \E x \in RoleChanges : OtherChanges(x)
  \/ \E x \in UserChanges : OtherChanges(x)
  \/ \E stay \in BOOLEAN : Discards(stay)
  \/ \E l \in Loads :
       \/ Mounts(l) \/ Refreshes(l)
       \/ \E part \in {"roles", "users"} : ReadsList(l, part) \/ ShowsList(l, part) \/ ListFails(l, part)
  \/ \E r \in Roles \cup {None} : OpensPanel(r)
  \/ \E r \in Roles :
       \/ SelectsRole(r) \/ StartsEdit(r) \/ CancelsEdit(r)
       \/ \E k \in Keys : TogglesKey(r, k)
       \/ \E keys \in SUBSET Keys : OtherUpdates(r, keys)
  \/ \E u \in Users : OpensForm(u)
  \/ \E j \in DOMAIN save :
       \/ DropsLinks(j) \/ LosesStatement(j) \/ EndsSave(j)
       \/ \E k \in Keys : RestoresLink(j, k) \/ InsertsLink(j, k)
  \/ \E q \in Requests :
       \/ Performs(q) \/ Finds(q) \/ Updates(q) \/ RequestFails(q)
       \/ RoleAnswered(q) \/ UserAnswered(q)
       \/ \E r \in Roles :
            \/ DeletesRole(q, r) \/ SavesPermissions(q, r)
            \/ \E n \in Names : CreatesRole(q, r, n) \/ SavesRole(q, r, n)
       \/ \E names \in SUBSET Names :
            \/ SubmitsForm(q, names)
            \/ \E u \in Users : CreatesUser(q, u, names)
       \/ \E u \in Users : DeletesUser(q, u)

AdminSpec == AdminInit /\ [][AdminNext]_adminVs

-----------------------------------------------------------------------------
(* Properties                                                              *)

(* What the service keeps, the store, the page, and what is under way.     *)
AdminTypeOK ==
  /\ role \in [Roles -> RoleRows \cup {None}]
  /\ link \in [Roles -> [Keys -> {"none", "live", "gone"}]]
  /\ user \in [Users -> UserRows \cup {None}]
  /\ store \in [roles : RoleLists, users : UserLists]
  /\ view \in Pages \cup {None}
  /\ request \in [Requests -> Changes \cup {None}]
  /\ save \in [Requests \cup {Other} -> Saves \cup {None}]
  /\ load \in [Loads -> Lists \cup {None}]
  /\ \A l \in Loads : load[l] # None =>
       /\ load[l].roles.step = "read" => load[l].roles.dto \in RoleLists
       /\ load[l].users.step = "read" => load[l].users.dto \in UserLists
  /\ stale \subseteq {"roles", "users"}
  /\ sure \in [Roles -> (SUBSET Keys) \cup {None}]

(* What has been asked for and is not yet answered.                        *)
Pending(part) == \E q \in Requests : request[q] # None /\ part \in Parts(request[q].op)

(* When no change of theirs is under way, the store has the roles and the  *)
(* users as they are kept, though lists and answers are committed in the   *)
(* order they come and a role is shown in both. stale names what can spoil *)
(* it: changes of others since the list was read, an answer that was lost  *)
(* after the change, or one overtaken by a newer change.                   *)
AdminShownIsKept ==
  /\ ~Pending("roles") /\ "roles" \notin stale =>
       store.roles = [r \in Roles |-> RoleDto(r)]
  /\ ~Pending("users") /\ "users" \notin stale =>
       store.users = [u \in Users |-> UserDto(u)]

(* After an update of the permissions of a role that met no other update   *)
(* of that role, the role has the permissions asked for, though links are  *)
(* deleted, restored and inserted in parallel from what was read before.   *)
PermissionsAsAsked == \A r \in Roles : sure[r] # None => KeysOf(r) = sure[r]

=============================================================================
