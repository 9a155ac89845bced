----------------------------- MODULE RoomAccess -----------------------------
(***************************************************************************)
(* ChatService.assertRoomAccess beside the requests of ChatRooms: what     *)
(* sendMessage, listMessages, findMessageForUserAction and the route       *)
(* /chat/rooms/access of the chat gateway ask first. It is two SELECTs,    *)
(* the room and then the member row, and any statement of a createRoom,    *)
(* updateRoom, deleteRoom or leaveRoom may run between them, or after them *)
(* and before what the caller does with the answer.                        *)
(*                                                                         *)
(* A check writes nothing, so checks do not disturb one another: one check *)
(* in progress per reader stands for any number of them.                   *)
(***************************************************************************)
EXTENDS ChatRooms

CONSTANT Readers    \* the users whose checks are followed

ASSUME ReadersAssumption == Readers \subseteq Users

VARIABLES
  access,       \* access[u]: the check in progress for u
  overlapped    \* history: rooms updated and deleted at the same time

accessVars == <<vars, access, overlapped>>

NoCheck == [phase |-> "none"]

(* room: between the two SELECTs; granted: the caller's own statements     *)
(* have still to be made.                                                  *)
Check == [phase : {"room", "granted"}, room : Rooms]

Updating(r) == \E p \in Requests : req[p].phase \in UpdatePhases /\ req[p].room = r

Deleting(r) == \E p \in Requests : req[p].phase \in DeletePhases /\ req[p].room = r

AccessInit ==
  /\ Init
  /\ access = [u \in Readers |-> NoCheck]
  /\ overlapped = {}

-----------------------------------------------------------------------------
(* The room must be active; a public one is open to everybody.             *)
FindRoom(u) ==
  /\ access[u] = NoCheck
  /\ \E r \in Rooms :
       /\ Known(r)
       /\ room[r].status = "active"
       /\ access' = [access EXCEPT ![u] =
            [phase |-> IF room[r].type = "public" THEN "granted" ELSE "room",
             room  |-> r]]
  /\ UNCHANGED <<vars, overlapped>>

(* Defect for the checks to notice: the member row may be one that has     *)
(* been left, as a search by roomUid and userUid alone would find it.      *)
FindFormerMember(u) ==
  /\ access[u].phase = "room"
  /\ access' = [access EXCEPT ![u] =
       IF u \in Rows(@.room) THEN [@ EXCEPT !.phase = "granted"] ELSE NoCheck]
  /\ UNCHANGED <<vars, overlapped>>

(* The row with leftAt = NULL, or the request is refused.                  *)
FindMember(u) ==
  /\ access[u].phase = "room"
  /\ access' = [access EXCEPT ![u] =
       IF u \in Active(@.room) THEN [@ EXCEPT !.phase = "granted"] ELSE NoCheck]
  /\ UNCHANGED <<vars, overlapped>>

(* The caller is done, or one of the statements failed.                    *)
EndCheck(u) ==
  /\ access[u] # NoCheck
  /\ access' = [access EXCEPT ![u] = NoCheck]
  /\ UNCHANGED <<vars, overlapped>>

(* Any step of the rooms.                                                  *)
RoomStep ==
  /\ Next
  /\ overlapped' = overlapped \cup {r \in Rooms : Updating(r)' /\ Deleting(r)'}
  /\ UNCHANGED access

AccessNext ==
  \/ RoomStep
  \/ \E u \in Readers : FindRoom(u) \/ FindMember(u) \/ EndCheck(u)

AccessSpec == AccessInit /\ [][AccessNext]_accessVars

(* As in ChatRooms: a request that was begun goes on.                      *)
FairAccessSpec == AccessSpec /\ \A p \in Requests : WF_vars(Statement(p))

-----------------------------------------------------------------------------
(* Properties                                                              *)

AccessTypeOK ==
  /\ TypeOK
  /\ access \in [Readers -> {NoCheck} \cup Check]
  /\ overlapped \subseteq Rooms

(* A group that was archived has nobody active in it, unless an updateRoom *)
(* was at work on the room while deleteRoom was: deleteRoom empties the    *)
(* room before it closes it, and no other request, begun before or after,  *)
(* lets anybody in.                                                        *)
ArchivedIsEmptyUnlessOverlap ==
  \A r \in Rooms :
    room[r].status = "archived_by_owner" => Active(r) = {} \/ r \in overlapped

(* The two SELECTs add up to one check: when the member row is found, the  *)
(* room that was found active before it still is, although it may have     *)
(* been left, emptied or closed between the two; its closing removes the   *)
(* members first. The exception is a room updated while it was deleted.    *)
Admits(u) == access[u].phase # "granted" /\ access'[u].phase = "granted"

MayEnter(u, r) ==
  /\ room[r].status = "active"
  /\ room[r].type = "public" \/ u \in Active(r)

AccessHeldAtOnce ==
  [][\A u \in Readers :
       Admits(u) => LET r == access'[u].room IN MayEnter(u, r) \/ r \in overlapped]_accessVars

=============================================================================
