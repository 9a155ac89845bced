----------------------------- MODULE RoomPolicy -----------------------------
(***************************************************************************)
(* What the chat service promises about the life of a room, whatever the   *)
(* number of requests it works on at once: src/docs/                       *)
(* chat-room-lifecycle-policy.md, as far as services/chat keeps it.        *)
(*                                                                         *)
(*  - a public room never changes;                                         *)
(*  - the rows of a private room are those of its two people, written      *)
(*    together, and someone who left a private room never comes back;      *)
(*  - a private room is closed only when nobody is left in it, a group     *)
(*    room only by its owner, and a closed room is never reopened;         *)
(*  - an owner is named when the room is opened and forgotten when it is   *)
(*    closed, and never changes in between;                                *)
(*  - a membership row is never deleted.                                   *)
(*                                                                         *)
(* ChatRooms implements this module under the mapping of its last section. *)
(***************************************************************************)

CONSTANTS
  Users,        \* users of the application
  Rooms,        \* uids of chat rooms, used and unused
  PublicRooms,  \* rooms a migration created
  Null          \* SQL NULL

VARIABLES
  room,         \* room[r]: the row of chat_rooms
  rows,         \* rows[r]: the users who have a row of chat_room_members
  active        \* active[r]: those of them whose leftAt is NULL

vars == <<room, rows, active>>

NoRoom ==
  [type |-> "none", status |-> "none", title |-> "initial", owner |-> Null]

PublicRoom ==
  [type |-> "public", status |-> "active", title |-> "initial", owner |-> Null]

OpenRoom(type, owner) ==
  [type |-> type, status |-> "active", title |-> "initial", owner |-> owner]

Init ==
  /\ room = [r \in Rooms |-> IF r \in PublicRooms THEN PublicRoom ELSE NoRoom]
  /\ rows = [r \in Rooms |-> {}]
  /\ active = [r \in Rooms |-> {}]

(* A user opens a room and becomes its owner.                              *)
Open(r) ==
  /\ room[r] = NoRoom
  /\ \E o \in Users, type \in {"private", "group"} :
        room' = [room EXCEPT ![r] = OpenRoom(type, o)]
  /\ UNCHANGED <<rows, active>>

(* The two people of a private room take their seats together.             *)
SeatPair(r) ==
  /\ room[r].type = "private"
  /\ rows[r] = {}
  /\ \E u \in Users \ {room[r].owner} :
       /\ rows' = [rows EXCEPT ![r] = {room[r].owner, u}]
       /\ active' = [active EXCEPT ![r] = {room[r].owner, u}]
  /\ UNCHANGED room

(* One of them leaves, for good.                                           *)
LeavePrivate(r) ==
  /\ room[r].type = "private"
  /\ \E u \in active[r] : active' = [active EXCEPT ![r] = @ \ {u}]
  /\ UNCHANGED <<room, rows>>

(* A private room nobody is left in is closed.                             *)
Orphan(r) ==
  /\ room[r].type = "private"
  /\ rows[r] # {}
  /\ active[r] = {}
  /\ room' = [room EXCEPT ![r].status = "orphaned", ![r].owner = Null]
  /\ UNCHANGED <<rows, active>>

(* The membership of a group changes; rows are only added, and nobody is   *)
(* active without one.                                                     *)
Regroup(r) ==
  /\ room[r].type = "group"
  /\ UNCHANGED room
  /\ \E added \in SUBSET Users : rows' = [rows EXCEPT ![r] = @ \cup added]
  /\ \E seated \in SUBSET rows'[r] : active' = [active EXCEPT ![r] = seated]

(* A group gets another title.                                             *)
Rename(r) ==
  /\ room[r].type = "group"
  /\ room' = [room EXCEPT ![r].title = "renamed"]
  /\ UNCHANGED <<rows, active>>

(* The owner closes the group.                                             *)
Archive(r) ==
  /\ room[r].type = "group"
  /\ room' = [room EXCEPT ![r].status = "archived_by_owner", ![r].owner = Null]
  /\ UNCHANGED <<rows, active>>

Next ==
  \E r \in Rooms :
    \/ Open(r)
    \/ SeatPair(r)
    \/ LeavePrivate(r)
    \/ Orphan(r)
    \/ Regroup(r)
    \/ Rename(r)
    \/ Archive(r)

Spec == Init /\ [][Next]_vars

=============================================================================
