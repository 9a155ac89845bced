----------------------------- MODULE ChatRooms ------------------------------
(***************************************************************************)
(* The rooms of services/chat: ChatService.createRoom, updateRoom,         *)
(* deleteRoom and leaveRoom over the tables chat_rooms and                 *)
(* chat_room_members.                                                      *)
(*                                                                         *)
(* No method of ChatService opens a transaction: each of them is a chain   *)
(* of promises, one SQL statement at a time, and every other request (of   *)
(* this process or of another worker of the cluster) may run between two   *)
(* of them. A request is therefore a slot of `req' that remembers which    *)
(* statement comes next, and every statement is one action. What a method  *)
(* read earlier and still uses later (the room's type and owner, the       *)
(* member rows) is in the slot. A check that rejects a request changes     *)
(* nothing, so it appears as the guard of the action it precedes.          *)
(*                                                                         *)
(* FailRequest is a statement that the database refuses, or the death of   *)
(* the worker: the statements already made stay, the others never happen.  *)
(***************************************************************************)

CONSTANTS
  Users,        \* users of the application
  Rooms,        \* uids of chat rooms, used and unused
  PublicRooms,  \* rooms seeded by a migration, before the service starts
  Requests,     \* slots for requests in progress
  Times,        \* values of new Date(): the model takes any of them
  Null,         \* SQL NULL
  NoRow         \* leftAt of a member row that does not exist

ASSUME ConstantsAssumption ==
  /\ PublicRooms \subseteq Rooms
  /\ Null \notin Users
  /\ Null \notin Times
  /\ NoRow \notin Times
  /\ Null # NoRow

VARIABLES
  room,         \* room[r]: the row of chat_rooms
  leftAt,       \* leftAt[r][u]: that column of u's row of chat_room_members
  req,          \* req[p]: the request in slot p
  interrupted   \* history: rooms whose closing lost its last statement

vars == <<room, leftAt, req, interrupted>>

(* The users who have a member row in the room, and those still in it.     *)
Rows(r) == {u \in Users : leftAt[r][u] # NoRow}

Active(r) == {u \in Users : leftAt[r][u] = Null}

-----------------------------------------------------------------------------
(* Rows and requests                                                       *)

RoomRow ==
  [type   : {"none", "public", "private", "group"},
   status : {"none", "active", "archived_by_owner", "orphaned"},
   title  : {"initial", "renamed"},
   owner  : Users \cup {Null}]

NoRoom ==
  [type |-> "none", status |-> "none", title |-> "initial", owner |-> Null]

PublicRoom ==
  [type |-> "public", status |-> "active", title |-> "initial", owner |-> Null]

(* The statement a request makes next.                                     *)
CreatePhases == {"insertMembers"}
UpdatePhases == {"rename", "readMembers", "rewrite"}
DeletePhases == {"leaveAll", "archive"}
LeavePhases  == {"findMember", "leave", "count", "orphan"}
Phases       == CreatePhases \cup UpdatePhases \cup DeletePhases \cup LeavePhases

Idle == [phase |-> "idle"]

(* keep: the users who are to be members (createRoom, updateRoom); todo:   *)
(* the users whose row replaceRoomMembers has still to write; missing:     *)
(* those of keep who had no row when it read the rows.                     *)
Pending ==
  [phase : Phases, user : Users, room : Rooms,
   keep : SUBSET Users, todo : SUBSET Users, missing : SUBSET Users]

Pend(phase, u, r, keep) ==
  [phase |-> phase, user |-> u, room |-> r,
   keep |-> keep, todo |-> {}, missing |-> {}]

At(p, phase) == req[p].phase = phase

Goto(p, phase) == req' = [req EXCEPT ![p].phase = phase]

Answer(p) == req' = [req EXCEPT ![p] = Idle]

(* A room's uid is random: a client has it from the member list it is in,  *)
(* from the answer of the createRoom that inserted those members, or from  *)
(* the list of public rooms.                                               *)
Known(r) == Rows(r) # {} \/ room[r].type = "public"

Init ==
  /\ room = [r \in Rooms |-> IF r \in PublicRooms THEN PublicRoom ELSE NoRoom]
  /\ leftAt = [r \in Rooms |-> [u \in Users |-> NoRow]]
  /\ req = [p \in Requests |-> Idle]
  /\ interrupted = {}

-----------------------------------------------------------------------------
(* createRoom: INSERT the room, then INSERT all its members at once. One   *)
(* other person makes the room private, more make it a group.              *)

IsOne(S) == \E u \in S : S = {u}

CreateRoom(p) ==
  /\ At(p, "idle")
  /\ \E u \in Users, r \in Rooms, others \in SUBSET Users :
       /\ u \notin others
       /\ others # {}
       /\ room[r] = NoRoom
       /\ room' = [room EXCEPT ![r] =
            [type |-> IF IsOne(others) THEN "private" ELSE "group",
             status |-> "active", title |-> "initial", owner |-> u]]
       /\ req' = [req EXCEPT ![p] = Pend("insertMembers", u, r, {u} \cup others)]
  /\ UNCHANGED <<leftAt, interrupted>>

CreateRoomMembers(p) ==
  /\ At(p, "insertMembers")
  /\ leftAt' = [leftAt EXCEPT ![req[p].room] =
       [u \in Users |-> IF u \in req[p].keep THEN Null ELSE @[u]]]
  /\ Answer(p)
  /\ UNCHANGED <<room, interrupted>>

-----------------------------------------------------------------------------
(* updateRoom: read the active room and check its owner, write the title,  *)
(* then replaceRoomMembers: read the member rows, write them one by one,   *)
(* insert the missing ones.                                                *)

GroupOwner(r, u) == room[r].type = "group" /\ room[r].owner = u

(* Defect for the checks to notice: the owner is not added to the members. *)
UpdateRoomWithoutOwner(p) ==
  /\ At(p, "idle")
  /\ \E u \in Users, r \in Rooms, members \in SUBSET Users :
       /\ Known(r)
       /\ room[r].status = "active"
       /\ GroupOwner(r, u)
       /\ req' = [req EXCEPT ![p] = Pend("rename", u, r, members)]
  /\ UNCHANGED <<room, leftAt, interrupted>>

UpdateRoom(p) ==
  /\ At(p, "idle")
  /\ \E u \in Users, r \in Rooms, members \in SUBSET Users :
       /\ Known(r)
       /\ room[r].status = "active"
       /\ GroupOwner(r, u)
       /\ req' = [req EXCEPT ![p] = Pend("rename", u, r, members \cup {u})]
  /\ UNCHANGED <<room, leftAt, interrupted>>

(* Defect: the whole row is written back as updateRoom read it.            *)
UpdateTitleSavesStaleRow(p) ==
  /\ At(p, "rename")
  /\ room' = [room EXCEPT ![req[p].room] =
       [type |-> "group", status |-> "active",
        title |-> "renamed", owner |-> req[p].user]]
  /\ Goto(p, "readMembers")
  /\ UNCHANGED <<leftAt, interrupted>>

(* Sequelize writes the changed columns of the instance: the title alone.  *)
UpdateTitle(p) ==
  /\ At(p, "rename")
  /\ room' = [room EXCEPT ![req[p].room].title = "renamed"]
  /\ Goto(p, "readMembers")
  /\ UNCHANGED <<leftAt, interrupted>>

(* A row that is kept and was read with leftAt = NULL has no changed       *)
(* column, so its update makes no statement: it is not in todo.            *)
FindRoomMembers(p) ==
  LET r == req[p].room IN
  /\ At(p, "readMembers")
  /\ req' = [req EXCEPT ![p].phase   = "rewrite",
                        ![p].todo    = Rows(r) \ (req[p].keep \cap Active(r)),
                        ![p].missing = req[p].keep \ Rows(r)]
  /\ UNCHANGED <<room, leftAt, interrupted>>

RewriteMember(p) ==
  /\ At(p, "rewrite")
  /\ \E u \in req[p].todo :
       /\ \/ /\ u \in req[p].keep
             /\ leftAt' = [leftAt EXCEPT ![req[p].room][u] = Null]
          \/ /\ u \notin req[p].keep
             /\ \E t \in Times :
                  leftAt' = [leftAt EXCEPT ![req[p].room][u] = t]
       /\ req' = [req EXCEPT ![p].todo = @ \ {u}]
  /\ UNCHANGED <<room, interrupted>>

(* One INSERT for all of them: the unique key (roomUid, userUid) refuses   *)
(* it whole when another request has inserted one of the rows meanwhile.   *)
InsertMissingMembers(p) ==
  LET r == req[p].room IN
  /\ At(p, "rewrite")
  /\ req[p].todo = {}
  /\ IF req[p].missing \cap Rows(r) = {}
       THEN leftAt' = [leftAt EXCEPT ![r] =
              [u \in Users |-> IF u \in req[p].missing THEN Null ELSE @[u]]]
       ELSE UNCHANGED leftAt
  /\ Answer(p)
  /\ UNCHANGED <<room, interrupted>>

-----------------------------------------------------------------------------
(* deleteRoom: the owner's group is emptied, then archived.                *)

DeleteRoom(p) ==
  /\ At(p, "idle")
  /\ \E u \in Users, r \in Rooms :
       /\ Known(r)
       /\ room[r].status = "active"
       /\ GroupOwner(r, u)
       /\ req' = [req EXCEPT ![p] = Pend("leaveAll", u, r, {})]
  /\ UNCHANGED <<room, leftAt, interrupted>>

(* Defect: the owner stays in the room that is about to be archived.       *)
LeaveAllButOwner(p) ==
  LET r == req[p].room IN
  /\ At(p, "leaveAll")
  /\ \E t \in Times :
       leftAt' = [leftAt EXCEPT ![r] =
         [u \in Users |-> IF u \in Active(r) \ {req[p].user} THEN t ELSE @[u]]]
  /\ Goto(p, "archive")
  /\ UNCHANGED <<room, interrupted>>

LeaveAll(p) ==
  LET r == req[p].room IN
  /\ At(p, "leaveAll")
  /\ \E t \in Times :
       leftAt' = [leftAt EXCEPT ![r] =
         [u \in Users |-> IF u \in Active(r) THEN t ELSE @[u]]]
  /\ Goto(p, "archive")
  /\ UNCHANGED <<room, interrupted>>

ArchiveRoom(p) ==
  /\ At(p, "archive")
  /\ room' = [room EXCEPT ![req[p].room].status = "archived_by_owner",
                          ![req[p].room].owner  = Null]
  /\ Answer(p)
  /\ UNCHANGED <<leftAt, interrupted>>

-----------------------------------------------------------------------------
(* leaveRoom: not for a public room, nor for the owner of a group. A       *)
(* private room is closed by whoever finds nobody left in it.              *)

LeaveRoom(p) ==
  /\ At(p, "idle")
  /\ \E u \in Users, r \in Rooms :
       /\ Known(r)
       /\ room[r].status = "active"
       /\ room[r].type # "public"
       /\ ~GroupOwner(r, u)
       /\ req' = [req EXCEPT ![p] = Pend("findMember", u, r, {})]
  /\ UNCHANGED <<room, leftAt, interrupted>>

FindOwnMember(p) ==
  /\ At(p, "findMember")
  /\ IF req[p].user \in Active(req[p].room)
       THEN Goto(p, "leave")
       ELSE Answer(p)
  /\ UNCHANGED <<room, leftAt, interrupted>>

(* Defect: the empty check is made for the wrong type of room.             *)
LeaveMemberCountsGroups(p) ==
  LET r == req[p].room IN
  /\ At(p, "leave")
  /\ \E t \in Times : leftAt' = [leftAt EXCEPT ![r][req[p].user] = t]
  /\ IF room[r].type = "group" THEN Goto(p, "count") ELSE Answer(p)
  /\ UNCHANGED <<room, interrupted>>

(* The type is that of the room as LeaveRoom read it; it never changes.    *)
LeaveMember(p) ==
  LET r == req[p].room IN
  /\ At(p, "leave")
  /\ \E t \in Times : leftAt' = [leftAt EXCEPT ![r][req[p].user] = t]
  /\ IF room[r].type = "private" THEN Goto(p, "count") ELSE Answer(p)
  /\ UNCHANGED <<room, interrupted>>

(* Defect: the count forgets leftAt = NULL, as a count by roomUid would.   *)
CountAllMembers(p) ==
  /\ At(p, "count")
  /\ IF Rows(req[p].room) = {} THEN Goto(p, "orphan") ELSE Answer(p)
  /\ UNCHANGED <<room, leftAt, interrupted>>

CountActiveMembers(p) ==
  /\ At(p, "count")
  /\ IF Active(req[p].room) = {} THEN Goto(p, "orphan") ELSE Answer(p)
  /\ UNCHANGED <<room, leftAt, interrupted>>

OrphanRoom(p) ==
  /\ At(p, "orphan")
  /\ room' = [room EXCEPT ![req[p].room].status = "orphaned",
                          ![req[p].room].owner  = Null]
  /\ Answer(p)
  /\ UNCHANGED <<leftAt, interrupted>>

-----------------------------------------------------------------------------
(* A statement fails, or the worker dies.                                  *)

FailRequest(p) ==
  /\ ~At(p, "idle")
  /\ Answer(p)
  /\ interrupted' = IF req[p].phase \in {"archive", "count", "orphan"}
                      THEN interrupted \cup {req[p].room}
                      ELSE interrupted
  /\ UNCHANGED <<room, leftAt>>

NewRequest(p) == CreateRoom(p) \/ UpdateRoom(p) \/ DeleteRoom(p) \/ LeaveRoom(p)

Statement(p) ==
  \/ CreateRoomMembers(p)
  \/ UpdateTitle(p)
  \/ FindRoomMembers(p)
  \/ RewriteMember(p)
  \/ InsertMissingMembers(p)
  \/ LeaveAll(p)
  \/ ArchiveRoom(p)
  \/ FindOwnMember(p)
  \/ LeaveMember(p)
  \/ CountActiveMembers(p)
  \/ OrphanRoom(p)

Next ==
  \E p \in Requests : NewRequest(p) \/ Statement(p) \/ FailRequest(p)

Spec == Init /\ [][Next]_vars

(* The database answers and the event loop runs the next callback: a       *)
(* request that was begun goes on.                                         *)
FairSpec == Spec /\ \A p \in Requests : WF_vars(Statement(p))

-----------------------------------------------------------------------------
(* Properties                                                              *)

TypeOK ==
  /\ room \in [Rooms -> RoomRow]
  /\ leftAt \in [Rooms -> [Users -> Times \cup {Null, NoRow}]]
  /\ req \in [Requests -> {Idle} \cup Pending]
  /\ interrupted \subseteq Rooms

(* An active group is governed by its owner, who is in it: updateRoom      *)
(* always keeps the owner, leaveRoom refuses the owner, and only a         *)
(* deleteRoom about to archive the room puts the owner out, or one that    *)
(* died before archiving it.                                               *)
Archiving(r) == \E p \in Requests : At(p, "archive") /\ req[p].room = r

OwnerInOwnGroup ==
  \A r \in Rooms :
    (room[r].type = "group" /\ room[r].status = "active" /\ Rows(r) # {})
      => \/ room[r].owner \in Active(r)
         \/ Archiving(r)
         \/ r \in interrupted

(* The last of two people to leave a private room closes it, although      *)
(* both may be leaving at once: an open private room with nobody in it is  *)
(* one whose leaveRoom is counting the members left, or died counting.     *)
Orphaning(r) ==
  \E p \in Requests : req[p].phase \in {"count", "orphan"} /\ req[p].room = r

NoAbandonedPrivateRoom ==
  \A r \in Rooms :
    (room[r].type = "private" /\ Rows(r) # {} /\ Active(r) = {})
      => \/ room[r].status = "orphaned"
         \/ Orphaning(r)
         \/ r \in interrupted

(* An emptied private room is eventually closed unless a statement failed. *)
EmptyPrivateRoomCloses ==
  \A r \in Rooms :
    (room[r].type = "private" /\ Rows(r) # {} /\ Active(r) = {})
      ~> (room[r].status = "orphaned" \/ r \in interrupted)

(* The rooms behave as RoomPolicy says.                                    *)
Policy == INSTANCE RoomPolicy WITH
  rows   <- [r \in Rooms |-> Rows(r)],
  active <- [r \in Rooms |-> Active(r)]

ImplementsPolicy == Policy!Spec

(* What the lifecycle policy says of a deleted group room: everyone active *)
(* got a leftAt. It does not hold when an updateRoom is under way.         *)
NobodyInArchivedGroup ==
  \A r \in Rooms : room[r].status = "archived_by_owner" => Active(r) = {}

=============================================================================
