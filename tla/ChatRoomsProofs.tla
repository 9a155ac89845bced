--------------------------- MODULE ChatRoomsProofs --------------------------
(***************************************************************************)
(* Theorems of ChatRooms and RoomAccess, for any users, rooms and number   *)
(* of requests in progress.                                                *)
(***************************************************************************)
EXTENDS RoomAccess, TLAPS

(***************************************************************************)
(* Every step is a new request, one statement or the failure of some slot. *)
(***************************************************************************)
Step(p) ==
  \/ CreateRoom(p) \/ CreateRoomMembers(p)
  \/ UpdateRoom(p) \/ UpdateTitle(p) \/ FindRoomMembers(p)
  \/ RewriteMember(p) \/ InsertMissingMembers(p)
  \/ DeleteRoom(p) \/ LeaveAll(p) \/ ArchiveRoom(p)
  \/ LeaveRoom(p) \/ FindOwnMember(p) \/ LeaveMember(p)
  \/ CountActiveMembers(p) \/ OrphanRoom(p)
  \/ FailRequest(p)

LEMMA StepCases == Next <=> \E p \in Requests : Step(p)
  BY DEF Next, Step, NewRequest, Statement

LEMMA InitTypeOK == Init => TypeOK
  BY ConstantsAssumption DEF Init, TypeOK, RoomRow, PublicRoom, NoRoom

LEMMA BusyIsPending ==
  ASSUME TypeOK, NEW p \in Requests, ~At(p, "idle")
  PROVE  req[p] \in Pending
  BY DEF TypeOK, Idle, At

(* The slots stay well typed when a request begins, goes on or ends.       *)
ReqTyped == req \in [Requests -> {Idle} \cup Pending]

LEMMA BeginTyped ==
  ASSUME TypeOK, NEW p \in Requests, NEW pending \in Pending,
         req' = [req EXCEPT ![p] = pending]
  PROVE  ReqTyped'
  BY DEF TypeOK, ReqTyped

LEMMA GotoTyped ==
  ASSUME TypeOK, NEW p \in Requests, ~At(p, "idle"),
         NEW phase \in Phases, Goto(p, phase)
  PROVE  ReqTyped'
<1>1. req[p] \in Pending
  BY BusyIsPending
<1>2. [req[p] EXCEPT !.phase = phase] \in Pending
  BY <1>1 DEF Pending
<1>. QED  BY <1>2 DEF TypeOK, Goto, ReqTyped

LEMMA AnswerTyped ==
  ASSUME TypeOK, NEW p \in Requests, Answer(p)
  PROVE  ReqTyped'
  BY DEF TypeOK, Answer, ReqTyped

LEMMA PhasesKnown ==
  Phases = {"insertMembers", "rename", "readMembers", "rewrite", "leaveAll",
            "archive", "findMember", "leave", "count", "orphan"}
  BY DEF Phases, CreatePhases, UpdatePhases, DeletePhases, LeavePhases

(* Type correctness of one step, one case per action.                      *)
LEMMA StepTypeOK ==
  ASSUME TypeOK, NEW p \in Requests, Step(p)
  PROVE  TypeOK'
<1>. USE ConstantsAssumption
<1>0. ~At(p, "idle") => req[p] \in Pending
  BY BusyIsPending
<1>1. CASE CreateRoom(p)
  <2>1. PICK u \in Users, r \in Rooms, others \in SUBSET Users :
          /\ room' = [room EXCEPT ![r] =
               [type |-> IF IsOne(others) THEN "private" ELSE "group",
                status |-> "active", title |-> "initial", owner |-> u]]
          /\ req' = [req EXCEPT ![p] = Pend("insertMembers", u, r, {u} \cup others)]
    BY <1>1 DEF CreateRoom
  <2>2. room' \in [Rooms -> RoomRow]
    BY <2>1 DEF TypeOK, RoomRow
  <2>3. ReqTyped'
    <3>1. Pend("insertMembers", u, r, {u} \cup others) \in Pending
      BY <2>1, PhasesKnown DEF Pend, Pending
    <3>. QED  BY <2>1, <3>1, BeginTyped
  <2>. QED  BY <1>1, <2>2, <2>3 DEF CreateRoom, TypeOK, ReqTyped
<1>2. CASE CreateRoomMembers(p)
  <2>1. ReqTyped'
    BY <1>2, AnswerTyped DEF CreateRoomMembers
  <2>2. leftAt' \in [Rooms -> [Users -> Times \cup {Null, NoRow}]]
    BY <1>2 DEF CreateRoomMembers, TypeOK
  <2>. QED  BY <1>2, <2>1, <2>2 DEF CreateRoomMembers, TypeOK, ReqTyped
<1>3. CASE UpdateRoom(p)
  <2>1. PICK u \in Users, r \in Rooms, members \in SUBSET Users :
          req' = [req EXCEPT ![p] = Pend("rename", u, r, members \cup {u})]
    BY <1>3 DEF UpdateRoom
  <2>2. ReqTyped'
    <3>1. Pend("rename", u, r, members \cup {u}) \in Pending
      BY <2>1, PhasesKnown DEF Pend, Pending
    <3>. QED  BY <2>1, <3>1, BeginTyped
  <2>. QED  BY <1>3, <2>2 DEF UpdateRoom, TypeOK, ReqTyped
<1>4. CASE UpdateTitle(p)
  <2>1. ReqTyped'
    BY <1>4, PhasesKnown, GotoTyped DEF UpdateTitle, At
  <2>2. room[req[p].room] \in RoomRow
    BY <1>4, <1>0 DEF UpdateTitle, At, TypeOK, Pending
  <2>3. [room[req[p].room] EXCEPT !.title = "renamed"] \in RoomRow
    BY <2>2 DEF RoomRow
  <2>4. room' \in [Rooms -> RoomRow]
    BY <1>4, <2>3 DEF UpdateTitle, TypeOK
  <2>. QED  BY <1>4, <2>1, <2>4 DEF UpdateTitle, TypeOK, ReqTyped
<1>5. CASE FindRoomMembers(p)
  <2>1. ReqTyped'
    BY <1>5, <1>0 DEF FindRoomMembers, At, TypeOK, ReqTyped, Pending, Phases, UpdatePhases, Rows
  <2>. QED  BY <1>5, <2>1 DEF FindRoomMembers, TypeOK, ReqTyped
<1>6. CASE RewriteMember(p)
  <2>1. ReqTyped'
    BY <1>6, <1>0 DEF RewriteMember, At, TypeOK, ReqTyped, Pending
  <2>2. req[p].room \in Rooms
    BY <1>6, <1>0 DEF RewriteMember, At, Pending
  <2>3. PICK u \in req[p].todo, v \in Times \cup {Null} :
          leftAt' = [leftAt EXCEPT ![req[p].room][u] = v]
    BY <1>6 DEF RewriteMember
  <2>4. leftAt' \in [Rooms -> [Users -> Times \cup {Null, NoRow}]]
    BY <2>2, <2>3 DEF TypeOK
  <2>. QED  BY <1>6, <2>1, <2>4 DEF RewriteMember, TypeOK, ReqTyped
<1>7. CASE InsertMissingMembers(p)
  <2>1. ReqTyped'
    BY <1>7, AnswerTyped DEF InsertMissingMembers
  <2>2. leftAt' \in [Rooms -> [Users -> Times \cup {Null, NoRow}]]
    BY <1>7 DEF InsertMissingMembers, TypeOK
  <2>. QED  BY <1>7, <2>1, <2>2 DEF InsertMissingMembers, TypeOK, ReqTyped
<1>8. CASE DeleteRoom(p)
  <2>1. PICK u \in Users, r \in Rooms :
          req' = [req EXCEPT ![p] = Pend("leaveAll", u, r, {})]
    BY <1>8 DEF DeleteRoom
  <2>2. ReqTyped'
    <3>1. Pend("leaveAll", u, r, {}) \in Pending
      BY <2>1, PhasesKnown DEF Pend, Pending
    <3>. QED  BY <2>1, <3>1, BeginTyped
  <2>. QED  BY <1>8, <2>2 DEF DeleteRoom, TypeOK, ReqTyped
<1>9. CASE LeaveAll(p)
  <2>1. ReqTyped'
    BY <1>9, PhasesKnown, GotoTyped DEF LeaveAll, At
  <2>2. leftAt' \in [Rooms -> [Users -> Times \cup {Null, NoRow}]]
    <3>1. PICK t \in Times : leftAt' = [leftAt EXCEPT ![req[p].room] =
            [u \in Users |-> IF u \in Active(req[p].room) THEN t ELSE @[u]]]
      BY <1>9 DEF LeaveAll
    <3>2. req[p].room \in Rooms
      BY <1>9, <1>0 DEF LeaveAll, At, Pending
    <3>. QED  BY <3>1, <3>2 DEF TypeOK
  <2>. QED  BY <1>9, <2>1, <2>2 DEF LeaveAll, TypeOK, ReqTyped
<1>10. CASE ArchiveRoom(p)
  <2>1. ReqTyped'
    BY <1>10, AnswerTyped DEF ArchiveRoom
  <2>2. room[req[p].room] \in RoomRow
    BY <1>10, <1>0 DEF ArchiveRoom, At, TypeOK, Pending
  <2>3. [room[req[p].room] EXCEPT !.status = "archived_by_owner", !.owner = Null] \in RoomRow
    BY <2>2 DEF RoomRow
  <2>4. room' \in [Rooms -> RoomRow]
    BY <1>10, <2>3 DEF ArchiveRoom, TypeOK
  <2>. QED  BY <1>10, <2>1, <2>4 DEF ArchiveRoom, TypeOK, ReqTyped
<1>11. CASE LeaveRoom(p)
  <2>1. PICK u \in Users, r \in Rooms :
          req' = [req EXCEPT ![p] = Pend("findMember", u, r, {})]
    BY <1>11 DEF LeaveRoom
  <2>2. ReqTyped'
    <3>1. Pend("findMember", u, r, {}) \in Pending
      BY <2>1, PhasesKnown DEF Pend, Pending
    <3>. QED  BY <2>1, <3>1, BeginTyped
  <2>. QED  BY <1>11, <2>2 DEF LeaveRoom, TypeOK, ReqTyped
<1>12. CASE FindOwnMember(p)
  <2>1. ReqTyped'
    BY <1>12, PhasesKnown, GotoTyped, AnswerTyped DEF FindOwnMember, At
  <2>. QED  BY <1>12, <2>1 DEF FindOwnMember, TypeOK, ReqTyped
<1>13. CASE LeaveMember(p)
  <2>1. ReqTyped'
    BY <1>13, PhasesKnown, GotoTyped, AnswerTyped DEF LeaveMember, At
  <2>2. req[p].room \in Rooms /\ req[p].user \in Users
    BY <1>13, <1>0 DEF LeaveMember, At, Pending
  <2>3. PICK t \in Times : leftAt' = [leftAt EXCEPT ![req[p].room][req[p].user] = t]
    BY <1>13 DEF LeaveMember
  <2>4. leftAt' \in [Rooms -> [Users -> Times \cup {Null, NoRow}]]
    BY <2>2, <2>3 DEF TypeOK
  <2>. QED  BY <1>13, <2>1, <2>4 DEF LeaveMember, TypeOK, ReqTyped
<1>14. CASE CountActiveMembers(p)
  <2>1. ReqTyped'
    BY <1>14, PhasesKnown, GotoTyped, AnswerTyped DEF CountActiveMembers, At
  <2>. QED  BY <1>14, <2>1 DEF CountActiveMembers, TypeOK, ReqTyped
<1>15. CASE OrphanRoom(p)
  <2>1. ReqTyped'
    BY <1>15, AnswerTyped DEF OrphanRoom
  <2>2. room[req[p].room] \in RoomRow
    BY <1>15, <1>0 DEF OrphanRoom, At, TypeOK, Pending
  <2>3. [room[req[p].room] EXCEPT !.status = "orphaned", !.owner = Null] \in RoomRow
    BY <2>2 DEF RoomRow
  <2>4. room' \in [Rooms -> RoomRow]
    BY <1>15, <2>3 DEF OrphanRoom, TypeOK
  <2>. QED  BY <1>15, <2>1, <2>4 DEF OrphanRoom, TypeOK, ReqTyped
<1>16. CASE FailRequest(p)
  <2>1. ReqTyped'
    BY <1>16, AnswerTyped DEF FailRequest
  <2>2. interrupted' \subseteq Rooms
    BY <1>16, <1>0 DEF FailRequest, TypeOK, Pending
  <2>. QED  BY <1>16, <2>1, <2>2 DEF FailRequest, TypeOK, ReqTyped
<1>. QED  BY <1>1, <1>2, <1>3, <1>4, <1>5, <1>6, <1>7, <1>8, <1>9, <1>10, <1>11, <1>12, <1>13, <1>14, <1>15, <1>16 DEF Step

(* Type correctness: every row and every slot holds what its column or     *)
(* method can put there, whatever requests overlap or fail.                *)
THEOREM TypeCorrect == Spec => []TypeOK
<1>1. TypeOK /\ [Next]_vars => TypeOK'
  <2>1. ASSUME TypeOK, UNCHANGED vars PROVE TypeOK'
    BY <2>1 DEF TypeOK, vars
  <2>. QED  BY <2>1, StepCases, StepTypeOK
<1>. QED  BY InitTypeOK, <1>1, PTL DEF Spec

-----------------------------------------------------------------------------
(***************************************************************************)
(* The inductive invariant. What a method checked before its first         *)
(* statement is still true, or harmless, when it makes the later ones:     *)
(* a room keeps its type, a group loses its owner but never changes him,   *)
(* and a membership row is never deleted.                                  *)
(***************************************************************************)
Open(r) == room[r].type \in {"private", "group"}

(* createRoom is the first to write members: nobody knows the room yet.    *)
OpenerOK(q) ==
  At(q, "insertMembers") =>
    LET r == req[q].room  u == req[q].user  keep == req[q].keep IN
    /\ Open(r)
    /\ room[r].status = "active"
    /\ room[r].owner = u
    /\ Rows(r) = {}
    /\ u \in keep
    /\ room[r].type = "private" => \E v \in Users \ {u} : keep = {u, v}

(* updateRoom works on a group whose owner it keeps in it.                 *)
UpdaterOK(q) ==
  req[q].phase \in UpdatePhases =>
    LET r == req[q].room  u == req[q].user IN
    /\ room[r].type = "group"
    /\ Rows(r) # {}
    /\ room[r].owner \in {Null, u}
    /\ u \in req[q].keep
    /\ At(q, "rewrite") => req[q].todo \subseteq Rows(r)

DeleterOK(q) ==
  req[q].phase \in DeletePhases =>
    room[req[q].room].type = "group" /\ Rows(req[q].room) # {}

(* leaveRoom never works for the owner of a group, and finds nobody in a   *)
(* private room only when nobody will be in it again.                      *)
LeaverOK(q) ==
  req[q].phase \in LeavePhases =>
    LET r == req[q].room  u == req[q].user IN
    /\ Open(r)
    /\ Rows(r) # {}
    /\ ~GroupOwner(r, u)
    /\ At(q, "leave") => u \in Rows(r)
    /\ req[q].phase \in {"count", "orphan"} => room[r].type = "private"
    /\ At(q, "orphan") => Active(r) = {}

SlotOK(q) == OpenerOK(q) /\ UpdaterOK(q) /\ DeleterOK(q) /\ LeaverOK(q)

OneOpener ==
  \A p, q \in Requests :
    At(p, "insertMembers") /\ At(q, "insertMembers") /\ req[p].room = req[q].room
      => p = q

(* The properties of ChatRooms, that only an open room has rows, and that  *)
(* a closed one has no owner, one room at a time.                          *)
RoomOK(r) ==
  /\ Rows(r) # {} => Open(r)
  /\ (room[r].type = "group" /\ room[r].status = "active" /\ Rows(r) # {})
       => room[r].owner \in Active(r) \/ Archiving(r) \/ r \in interrupted
  /\ (room[r].type = "private" /\ Rows(r) # {} /\ Active(r) = {})
       => room[r].status = "orphaned" \/ Orphaning(r) \/ r \in interrupted
  /\ room[r].status \in {"archived_by_owner", "orphaned"} => room[r].owner = Null
  /\ Open(r) /\ room[r].status = "active" => room[r].owner \in Users

IInv ==
  /\ TypeOK
  /\ \A q \in Requests : SlotOK(q)
  /\ OneOpener
  /\ \A r \in Rooms : RoomOK(r)

LEMMA InitIInv == Init => IInv
<1>. SUFFICES ASSUME Init PROVE IInv
  OBVIOUS
<1>1. TypeOK
  BY InitTypeOK
<1>2. \A q \in Requests : req[q].phase = "idle"
  BY DEF Init, Idle
<1>3. \A r \in Rooms : Rows(r) = {} /\ Active(r) = {}
  BY ConstantsAssumption DEF Init, Rows, Active
<1>4. \A q \in Requests : SlotOK(q)
  BY <1>2 DEF SlotOK, OpenerOK, UpdaterOK, DeleterOK, LeaverOK, At,
     UpdatePhases, DeletePhases, LeavePhases
<1>5. OneOpener
  BY <1>2 DEF OneOpener, At
<1>6. \A r \in Rooms : RoomOK(r)
  <2>1. \A r \in Rooms : room[r] \in {PublicRoom, NoRoom}
    BY DEF Init
  <2>2. \A r \in Rooms : room[r].type \notin {"private", "group"}
                         /\ room[r].status \in {"active", "none"}
    BY <2>1 DEF PublicRoom, NoRoom
  <2>. QED  BY <1>3, <2>2 DEF RoomOK, Open
<1>. QED  BY <1>1, <1>4, <1>5, <1>6 DEF IInv

-----------------------------------------------------------------------------
(* What a step on room s by slot p leaves alone.                           *)
Frame(p, s) ==
  /\ \A q \in Requests \ {p} : req'[q] = req[q]
  /\ \A r \in Rooms \ {s} : room'[r] = room[r] /\ leftAt'[r] = leftAt[r]
  /\ interrupted \subseteq interrupted'
  /\ At(p, "idle") \/ req[p].room = s
  /\ At(p, "idle")' \/ req'[p].room = s

(* How a room that requests are at work on may change.                     *)
Evolves(s) ==
  /\ room'[s].type = room[s].type
  /\ room'[s].owner \in {room[s].owner, Null}
  /\ Rows(s) \subseteq Rows(s)'
  /\ room[s].type = "private" /\ Rows(s) # {} => Active(s)' \subseteq Active(s)

Untouched(s) == room'[s] = room[s] /\ leftAt'[s] = leftAt[s]

LEMMA UntouchedRows ==
  ASSUME NEW s, Untouched(s)
  PROVE  Rows(s)' = Rows(s) /\ Active(s)' = Active(s) /\ Evolves(s)
  BY DEF Untouched, Rows, Active, Evolves

(* A request in progress survives what others do to its room.              *)
LEMMA SlotSurvives ==
  ASSUME TypeOK, NEW q \in Requests, SlotOK(q), req'[q] = req[q],
         ~At(q, "idle") => Evolves(req[q].room),
         At(q, "insertMembers") => Untouched(req[q].room)
  PROVE  SlotOK(q)'
<1>. DEFINE r == req[q].room
<1>1. OpenerOK(q)'
  BY UntouchedRows DEF SlotOK, OpenerOK, At, Open, Untouched
<1>2. UpdaterOK(q)'
  BY DEF SlotOK, UpdaterOK, At, Evolves, UpdatePhases
<1>3. DeleterOK(q)'
  BY DEF SlotOK, DeleterOK, At, Evolves, DeletePhases
<1>4. LeaverOK(q)'
  <2>. SUFFICES ASSUME req[q].phase \in LeavePhases
                PROVE  LeaverOK(q)'
    BY DEF LeaverOK
  <2>1. req[q] \in Pending /\ Evolves(req[q].room)
    BY BusyIsPending DEF At, LeavePhases
  <2>. QED  BY <2>1, ConstantsAssumption
            DEF SlotOK, LeaverOK, At, Evolves, Open, GroupOwner, LeavePhases, Pending
<1>. QED  BY <1>1, <1>2, <1>3, <1>4 DEF SlotOK

(* Nothing of a room's own invariant is lost by a step on another room.    *)
LEMMA RoomSurvives ==
  ASSUME TypeOK, NEW p \in Requests, NEW s \in Rooms, Frame(p, s),
         NEW r \in Rooms \ {s}, RoomOK(r)
  PROVE  RoomOK(r)'
<1>1. room'[r] = room[r] /\ Rows(r)' = Rows(r) /\ Active(r)' = Active(r)
  BY UntouchedRows DEF Frame, Untouched
<1>2. Archiving(r) => Archiving(r)'
  BY DEF Archiving, Frame, At
<1>3. Orphaning(r) => Orphaning(r)'
  BY DEF Orphaning, Frame, At
<1>. QED  BY <1>1, <1>2, <1>3 DEF RoomOK, Open, Frame

(* So a step preserves the invariant when it is right about its own slot   *)
(* and its own room, and careful with the requests it shares the room with.*)
LEMMA StepKeepsIInv ==
  ASSUME IInv, TypeOK', NEW p \in Requests, NEW s \in Rooms, Frame(p, s),
         \A q \in Requests \ {p} :
           ~At(q, "idle") /\ req[q].room = s =>
             /\ Evolves(s)
             /\ At(q, "insertMembers") => Untouched(s)
             /\ ~(At(q, "insertMembers") /\ At(p, "insertMembers")'),
         SlotOK(p)', RoomOK(s)'
  PROVE  IInv'
<1>1. ASSUME NEW q \in Requests PROVE SlotOK(q)'
  <2>1. CASE q = p
    BY <2>1
  <2>2. CASE q # p
    <3>1. req'[q] = req[q] /\ SlotOK(q) /\ TypeOK
      BY <2>2 DEF Frame, IInv
    <3>2. CASE At(q, "idle")
      BY <3>1, <3>2, SlotSurvives DEF At
    <3>3. CASE ~At(q, "idle") /\ req[q].room = s
      BY <2>2, <3>1, <3>3, SlotSurvives
    <3>4. CASE ~At(q, "idle") /\ req[q].room # s
      <4>1. req[q].room \in Rooms
        BY <3>1, <3>4, BusyIsPending DEF Pending
      <4>2. Untouched(req[q].room)
        BY <3>4, <4>1 DEF Frame, Untouched
      <4>. QED  BY <3>1, <4>2, UntouchedRows, SlotSurvives
    <3>. QED  BY <3>2, <3>3, <3>4
  <2>. QED  BY <2>1, <2>2
<1>2. OneOpener'
  <2>. SUFFICES ASSUME NEW q1 \in Requests, NEW q2 \in Requests,
                       At(q1, "insertMembers")', At(q2, "insertMembers")',
                       req'[q1].room = req'[q2].room, q1 # q2
                PROVE  FALSE
    BY DEF OneOpener
  <2>1. CASE q1 # p /\ q2 # p
    BY <2>1 DEF Frame, IInv, OneOpener, At
  <2>2. CASE q1 = p
    BY <2>2 DEF Frame, At
  <2>3. CASE q2 = p
    BY <2>3 DEF Frame, At
  <2>. QED  BY <2>1, <2>2, <2>3
<1>3. \A r \in Rooms : RoomOK(r)'
  BY RoomSurvives DEF IInv
<1>. QED  BY <1>1, <1>2, <1>3 DEF IInv

LEMMA IdleSlotOK ==
  ASSUME NEW q, req'[q].phase = "idle"
  PROVE  SlotOK(q)'
  BY DEF SlotOK, OpenerOK, UpdaterOK, DeleterOK, LeaverOK, At,
     UpdatePhases, DeletePhases, LeavePhases

(* A slot in progress: its fields are typed, its room exists.              *)
LEMMA BusyFields ==
  ASSUME TypeOK, NEW p \in Requests, ~At(p, "idle")
  PROVE  /\ req[p].room \in Rooms /\ req[p].user \in Users
         /\ req[p].keep \in SUBSET Users
         /\ req[p].todo \in SUBSET Users /\ req[p].missing \in SUBSET Users
         /\ room[req[p].room] \in RoomRow
  BY BusyIsPending DEF Pending, TypeOK

(* Ending a request, or moving it on, leaves the other slots alone.        *)
LEMMA AnswerFrame ==
  ASSUME TypeOK, NEW p \in Requests, Answer(p)
  PROVE  /\ req'[p].phase = "idle"
         /\ \A q \in Requests \ {p} : req'[q] = req[q]
  BY DEF TypeOK, Answer, Idle

LEMMA GotoFrame ==
  ASSUME TypeOK, NEW p \in Requests, ~At(p, "idle"), NEW phase, Goto(p, phase)
  PROVE  /\ req'[p].phase = phase
         /\ req'[p].user = req[p].user /\ req'[p].room = req[p].room
         /\ req'[p].keep = req[p].keep /\ req'[p].todo = req[p].todo
         /\ req'[p].missing = req[p].missing
         /\ \A q \in Requests \ {p} : req'[q] = req[q]
<1>1. req[p] \in Pending
  BY BusyIsPending
<1>2. req' = [req EXCEPT ![p] = [req[p] EXCEPT !.phase = phase]]
  BY DEF Goto
<1>. QED  BY <1>1, <1>2 DEF TypeOK, Pending

(* A step that writes no row.                                              *)
LEMMA QuietStep ==
  ASSUME IInv, TypeOK', NEW p \in Requests, NEW s \in Rooms, Frame(p, s),
         UNCHANGED <<room, leftAt>>,
         ~At(p, "insertMembers")',
         At(p, "archive") => At(p, "archive")' \/ s \in interrupted',
         req[p].phase \in {"count", "orphan"} =>
           \/ req'[p].phase \in {"count", "orphan"}
           \/ s \in interrupted'
           \/ Active(s) # {},
         SlotOK(p)'
  PROVE  IInv'
<1>1. Untouched(s) /\ Evolves(s) /\ Rows(s)' = Rows(s) /\ Active(s)' = Active(s)
  BY UntouchedRows DEF Untouched
<1>2. RoomOK(s)'
  <2>1. RoomOK(s)
    BY DEF IInv
  <2>2. Archiving(s) => Archiving(s)' \/ s \in interrupted'
    BY DEF Archiving, Frame, At
  <2>3. Orphaning(s) => Orphaning(s)' \/ s \in interrupted' \/ Active(s) # {}
    BY DEF Orphaning, Frame, At
  <2>. QED  BY <1>1, <2>1, <2>2, <2>3 DEF RoomOK, Open, Frame
<1>. QED  BY <1>1, <1>2, StepKeepsIInv

-----------------------------------------------------------------------------
(* Reading statements, checks and failures.                                *)

LEMMA UpdateRoomIInv ==
  ASSUME IInv, TypeOK', NEW p \in Requests, UpdateRoom(p)
  PROVE  IInv'
<1>1. PICK u \in Users, r \in Rooms, members \in SUBSET Users :
        /\ Known(r) /\ GroupOwner(r, u)
        /\ req' = [req EXCEPT ![p] = Pend("rename", u, r, members \cup {u})]
  BY DEF UpdateRoom
<1>2. TypeOK /\ At(p, "idle") /\ UNCHANGED <<room, leftAt, interrupted>>
  BY DEF UpdateRoom, IInv
<1>3. /\ req'[p].phase = "rename" /\ req'[p].user = u /\ req'[p].room = r
      /\ u \in req'[p].keep
      /\ \A q \in Requests \ {p} : req'[q] = req[q]
  BY <1>1, <1>2 DEF TypeOK, Pend
<1>4. Frame(p, r)
  BY <1>2, <1>3 DEF Frame, At
<1>5. SlotOK(p)'
  BY <1>1, <1>2, <1>3 DEF SlotOK, OpenerOK, UpdaterOK, DeleterOK, LeaverOK, At,
     UpdatePhases, DeletePhases, LeavePhases, Known, GroupOwner, Rows
<1>. QED  BY <1>2, <1>3, <1>4, <1>5, QuietStep DEF At

LEMMA DeleteRoomIInv ==
  ASSUME IInv, TypeOK', NEW p \in Requests, DeleteRoom(p)
  PROVE  IInv'
<1>1. PICK u \in Users, r \in Rooms :
        /\ Known(r) /\ GroupOwner(r, u)
        /\ req' = [req EXCEPT ![p] = Pend("leaveAll", u, r, {})]
  BY DEF DeleteRoom
<1>2. TypeOK /\ At(p, "idle") /\ UNCHANGED <<room, leftAt, interrupted>>
  BY DEF DeleteRoom, IInv
<1>3. /\ req'[p].phase = "leaveAll" /\ req'[p].user = u /\ req'[p].room = r
      /\ \A q \in Requests \ {p} : req'[q] = req[q]
  BY <1>1, <1>2 DEF TypeOK, Pend
<1>4. Frame(p, r)
  BY <1>2, <1>3 DEF Frame, At
<1>5. SlotOK(p)'
  BY <1>1, <1>2, <1>3 DEF SlotOK, OpenerOK, UpdaterOK, DeleterOK, LeaverOK, At,
     UpdatePhases, DeletePhases, LeavePhases, Known, GroupOwner, Rows
<1>. QED  BY <1>2, <1>3, <1>4, <1>5, QuietStep DEF At

LEMMA LeaveRoomIInv ==
  ASSUME IInv, TypeOK', NEW p \in Requests, LeaveRoom(p)
  PROVE  IInv'
<1>1. PICK u \in Users, r \in Rooms :
        /\ Known(r) /\ room[r].type # "public" /\ ~GroupOwner(r, u)
        /\ req' = [req EXCEPT ![p] = Pend("findMember", u, r, {})]
  BY DEF LeaveRoom
<1>2. TypeOK /\ At(p, "idle") /\ UNCHANGED <<room, leftAt, interrupted>>
  BY DEF LeaveRoom, IInv
<1>3. /\ req'[p].phase = "findMember" /\ req'[p].user = u /\ req'[p].room = r
      /\ \A q \in Requests \ {p} : req'[q] = req[q]
  BY <1>1, <1>2 DEF TypeOK, Pend
<1>4. Frame(p, r)
  BY <1>2, <1>3 DEF Frame, At
<1>5. Open(r) /\ Rows(r) # {}
  BY <1>1 DEF IInv, RoomOK, Known
<1>6. SlotOK(p)'
  BY <1>1, <1>2, <1>3, <1>5 DEF SlotOK, OpenerOK, UpdaterOK, DeleterOK, LeaverOK, At,
     UpdatePhases, DeletePhases, LeavePhases, Open, GroupOwner, Rows
<1>. QED  BY <1>2, <1>3, <1>4, <1>6, QuietStep DEF At

LEMMA FindRoomMembersIInv ==
  ASSUME IInv, TypeOK', NEW p \in Requests, FindRoomMembers(p)
  PROVE  IInv'
<1>. DEFINE s == req[p].room
<1>1. TypeOK /\ At(p, "readMembers") /\ SlotOK(p)
      /\ UNCHANGED <<room, leftAt, interrupted>>
  BY DEF FindRoomMembers, IInv
<1>2. s \in Rooms /\ req[p] \in Pending
  BY <1>1, BusyFields, BusyIsPending DEF At
<1>3. /\ req'[p].phase = "rewrite" /\ req'[p].user = req[p].user
      /\ req'[p].room = s /\ req'[p].keep = req[p].keep
      /\ req'[p].todo \subseteq Rows(s)
      /\ \A q \in Requests \ {p} : req'[q] = req[q]
  BY <1>1, <1>2 DEF FindRoomMembers, TypeOK, Pending
<1>4. Frame(p, s)
  BY <1>1, <1>3 DEF Frame, At
<1>5. SlotOK(p)'
  BY <1>1, <1>3 DEF SlotOK, OpenerOK, UpdaterOK, DeleterOK, LeaverOK, At,
     UpdatePhases, DeletePhases, LeavePhases, Rows
<1>. QED  BY <1>1, <1>2, <1>3, <1>4, <1>5, QuietStep DEF At

LEMMA FindOwnMemberIInv ==
  ASSUME IInv, TypeOK', NEW p \in Requests, FindOwnMember(p)
  PROVE  IInv'
<1>. DEFINE s == req[p].room
<1>1. TypeOK /\ At(p, "findMember") /\ SlotOK(p)
      /\ UNCHANGED <<room, leftAt, interrupted>>
  BY DEF FindOwnMember, IInv
<1>2. s \in Rooms /\ ~At(p, "idle")
  BY <1>1, BusyFields DEF At
<1>3. CASE Answer(p)
  <2>1. req'[p].phase = "idle" /\ Frame(p, s)
    BY <1>1, <1>3, AnswerFrame DEF Frame, At
  <2>. QED  BY <1>1, <1>2, <2>1, IdleSlotOK, QuietStep DEF At
<1>4. CASE Goto(p, "leave") /\ req[p].user \in Active(s)
  <2>1. /\ req'[p].phase = "leave"
        /\ req'[p].user = req[p].user /\ req'[p].room = s
        /\ \A q \in Requests \ {p} : req'[q] = req[q]
    BY <1>1, <1>2, <1>4, GotoFrame
  <2>2. Frame(p, s)
    BY <1>1, <2>1 DEF Frame, At
  <2>3. req[p].user \in Rows(s)
    BY <1>4, ConstantsAssumption DEF Rows, Active
  <2>4. SlotOK(p)'
    BY <1>1, <2>1, <2>3 DEF SlotOK, OpenerOK, UpdaterOK, DeleterOK, LeaverOK, At,
       UpdatePhases, DeletePhases, LeavePhases, Rows, Open, GroupOwner
  <2>. QED  BY <1>1, <1>2, <2>1, <2>2, <2>4, QuietStep DEF At
<1>. QED  BY <1>3, <1>4 DEF FindOwnMember

LEMMA CountActiveMembersIInv ==
  ASSUME IInv, TypeOK', NEW p \in Requests, CountActiveMembers(p)
  PROVE  IInv'
<1>. DEFINE s == req[p].room
<1>1. TypeOK /\ At(p, "count") /\ SlotOK(p)
      /\ UNCHANGED <<room, leftAt, interrupted>>
  BY DEF CountActiveMembers, IInv
<1>2. s \in Rooms /\ ~At(p, "idle")
  BY <1>1, BusyFields DEF At
<1>3. CASE Answer(p) /\ Active(s) # {}
  <2>1. req'[p].phase = "idle" /\ Frame(p, s)
    BY <1>1, <1>3, AnswerFrame DEF Frame, At
  <2>. QED  BY <1>1, <1>2, <1>3, <2>1, IdleSlotOK, QuietStep DEF At
<1>4. CASE Goto(p, "orphan") /\ Active(s) = {}
  <2>1. /\ req'[p].phase = "orphan"
        /\ req'[p].user = req[p].user /\ req'[p].room = s
        /\ \A q \in Requests \ {p} : req'[q] = req[q]
    BY <1>1, <1>2, <1>4, GotoFrame
  <2>2. Frame(p, s)
    BY <1>1, <2>1 DEF Frame, At
  <2>3. SlotOK(p)'
    BY <1>1, <1>4, <2>1 DEF SlotOK, OpenerOK, UpdaterOK, DeleterOK, LeaverOK, At,
       UpdatePhases, DeletePhases, LeavePhases, Rows, Active, Open, GroupOwner
  <2>. QED  BY <1>1, <1>2, <2>1, <2>2, <2>3, QuietStep DEF At
<1>. QED  BY <1>3, <1>4 DEF CountActiveMembers

LEMMA FailRequestIInv ==
  ASSUME IInv, TypeOK', NEW p \in Requests, FailRequest(p)
  PROVE  IInv'
<1>. DEFINE s == req[p].room
<1>1. TypeOK /\ ~At(p, "idle") /\ Answer(p) /\ UNCHANGED <<room, leftAt>>
  BY DEF FailRequest, IInv
<1>2. s \in Rooms
  BY <1>1, BusyFields
<1>3. interrupted \subseteq interrupted'
      /\ (req[p].phase \in {"archive", "count", "orphan"} => s \in interrupted')
  BY DEF FailRequest
<1>4. req'[p].phase = "idle" /\ Frame(p, s)
  BY <1>1, <1>3, AnswerFrame DEF Frame, At
<1>. QED  BY <1>1, <1>2, <1>3, <1>4, IdleSlotOK, QuietStep DEF At

(* Writing statements on a room that has members: nobody is opening it.    *)
LEMMA WriteStep ==
  ASSUME IInv, TypeOK', NEW p \in Requests, NEW s \in Rooms, Frame(p, s),
         Rows(s) # {}, Evolves(s), ~At(p, "insertMembers")',
         SlotOK(p)', RoomOK(s)'
  PROVE  IInv'
<1>1. ASSUME NEW q \in Requests, req[q].room = s PROVE ~At(q, "insertMembers")
  BY <1>1 DEF IInv, SlotOK, OpenerOK
<1>. QED  BY <1>1, StepKeepsIInv

LEMMA CreateRoomIInv ==
  ASSUME IInv, TypeOK', NEW p \in Requests, CreateRoom(p)
  PROVE  IInv'
<1>1. PICK u \in Users, r \in Rooms, others \in SUBSET Users :
        /\ u \notin others /\ others # {} /\ room[r] = NoRoom
        /\ room' = [room EXCEPT ![r] =
             [type |-> IF IsOne(others) THEN "private" ELSE "group",
              status |-> "active", title |-> "initial", owner |-> u]]
        /\ req' = [req EXCEPT ![p] = Pend("insertMembers", u, r, {u} \cup others)]
  BY DEF CreateRoom
<1>2. TypeOK /\ At(p, "idle") /\ UNCHANGED <<leftAt, interrupted>>
  BY DEF CreateRoom, IInv
<1>3. /\ req'[p].phase = "insertMembers" /\ req'[p].user = u
      /\ req'[p].room = r /\ req'[p].keep = {u} \cup others
      /\ \A q \in Requests \ {p} : req'[q] = req[q]
  BY <1>1, <1>2 DEF TypeOK, Pend
<1>4. /\ room'[r].type = IF IsOne(others) THEN "private" ELSE "group"
      /\ room'[r].status = "active" /\ room'[r].owner = u
      /\ \A t \in Rooms \ {r} : room'[t] = room[t]
  BY <1>1, <1>2 DEF TypeOK
<1>5. Frame(p, r)
  BY <1>2, <1>3, <1>4 DEF Frame, At
<1>6. Rows(r) = {} /\ Rows(r)' = {}
  <2>1. room[r].type = "none"
    BY <1>1 DEF NoRoom
  <2>2. Rows(r) = {}
    BY <2>1 DEF IInv, RoomOK, Open
  <2>. QED  BY <1>2, <2>2 DEF Rows
<1>7. ASSUME NEW q \in Requests \ {p}, ~At(q, "idle") PROVE req[q].room # r
  <2>1. req[q] \in Pending
    BY <1>2, <1>7, BusyIsPending
  <2>2. room[req[q].room].type \in {"private", "group"}
    BY <2>1 DEF IInv, SlotOK, OpenerOK, UpdaterOK, DeleterOK, LeaverOK, Open,
       At, Pending, Phases, CreatePhases
  <2>. QED  BY <1>1, <2>2 DEF NoRoom
<1>8. SlotOK(p)'
  <2>1. OpenerOK(p)'
    <3>1. room'[r].type = "private" => \E v \in Users \ {u} : {u} \cup others = {u, v}
      BY <1>1, <1>4 DEF IsOne
    <3>. QED  BY <1>3, <1>4, <1>6, <3>1 DEF OpenerOK, Open
  <2>. QED  BY <1>3, <2>1 DEF SlotOK, UpdaterOK, DeleterOK, LeaverOK,
            UpdatePhases, DeletePhases, LeavePhases
<1>9. RoomOK(r)'
  BY <1>4, <1>6 DEF RoomOK, Open
<1>. QED  BY <1>5, <1>7, <1>8, <1>9, StepKeepsIInv

LEMMA CreateRoomMembersIInv ==
  ASSUME IInv, TypeOK', NEW p \in Requests, CreateRoomMembers(p)
  PROVE  IInv'
<1>0. PICK s : s = req[p].room
  OBVIOUS
<1>1. TypeOK /\ At(p, "insertMembers") /\ SlotOK(p) /\ Answer(p)
      /\ UNCHANGED <<room, interrupted>>
  BY <1>0 DEF CreateRoomMembers, IInv
<1>2. s \in Rooms
  BY <1>0, <1>1, BusyFields DEF At
<1>3. leftAt' = [leftAt EXCEPT ![s] =
        [u \in Users |-> IF u \in req[p].keep THEN Null ELSE @[u]]]
  BY <1>0 DEF CreateRoomMembers
<1>4. req'[p].phase = "idle" /\ \A q \in Requests \ {p} : req'[q] = req[q]
  BY <1>0, <1>1, AnswerFrame
<1>5. Frame(p, s)
  BY <1>0, <1>1, <1>2, <1>3, <1>4 DEF Frame, At, TypeOK
<1>6. room[s].owner \in Users /\ room[s].owner \in Active(s)'
  <2>1. room[s].owner \in Users /\ room[s].owner \in req[p].keep
    BY <1>0, <1>1, BusyFields DEF SlotOK, OpenerOK, At
  <2>. QED  BY <1>0, <1>2, <1>3, <2>1 DEF Active, TypeOK, IInv
<1>7. ASSUME NEW q \in Requests \ {p}, req[q].room = s, ~At(q, "idle") PROVE FALSE
  <2>1. req[q] \in Pending
    BY <1>0, <1>1, <1>7, BusyIsPending
  <2>2. ~At(q, "insertMembers")
    BY <1>0, <1>1, <1>7 DEF IInv, OneOpener
  <2>3. Rows(s) # {}
    BY <1>0, <1>7, <2>1, <2>2 DEF IInv, SlotOK, UpdaterOK, DeleterOK, LeaverOK,
       At, Pending, Phases, CreatePhases
  <2>. QED  BY <1>0, <1>1, <2>3 DEF SlotOK, OpenerOK
<1>8. RoomOK(s)'
  <2>1. Open(s) /\ room[s].status = "active"
    BY <1>0, <1>1 DEF SlotOK, OpenerOK
  <2>. QED  BY <1>0, <1>1, <1>6, <2>1 DEF RoomOK, Open
<1>. QED  BY <1>0, <1>2, <1>4, <1>5, <1>7, <1>8, IdleSlotOK, StepKeepsIInv

LEMMA UpdateTitleIInv ==
  ASSUME IInv, TypeOK', NEW p \in Requests, UpdateTitle(p)
  PROVE  IInv'
<1>0. PICK s : s = req[p].room
  OBVIOUS
<1>1. TypeOK /\ At(p, "rename") /\ SlotOK(p) /\ Goto(p, "readMembers")
      /\ UNCHANGED <<leftAt, interrupted>>
  BY <1>0 DEF UpdateTitle, IInv
<1>2. s \in Rooms /\ room[s] \in RoomRow
  BY <1>0, <1>1, BusyFields DEF At
<1>3. /\ req'[p].phase = "readMembers"
      /\ req'[p].user = req[p].user /\ req'[p].room = s
      /\ req'[p].keep = req[p].keep
      /\ \A q \in Requests \ {p} : req'[q] = req[q]
  BY <1>0, <1>1, GotoFrame DEF At
<1>4. /\ room'[s].type = room[s].type /\ room'[s].status = room[s].status
      /\ room'[s].owner = room[s].owner
      /\ \A t \in Rooms \ {s} : room'[t] = room[t]
  <2>1. room' = [room EXCEPT ![s] = [room[s] EXCEPT !.title = "renamed"]]
    BY <1>0 DEF UpdateTitle
  <2>. QED  BY <1>0, <1>1, <1>2, <2>1 DEF TypeOK, RoomRow
<1>5. Frame(p, s)
  BY <1>0, <1>1, <1>3, <1>4 DEF Frame, At
<1>6. Rows(s)' = Rows(s) /\ Active(s)' = Active(s)
  BY <1>0, <1>1 DEF Rows, Active
<1>7. Rows(s) # {} /\ Evolves(s)
  BY <1>0, <1>1, <1>4, <1>6 DEF SlotOK, UpdaterOK, At, UpdatePhases, Evolves
<1>8. SlotOK(p)'
  BY <1>0, <1>1, <1>3, <1>4, <1>6 DEF SlotOK, OpenerOK, UpdaterOK, DeleterOK, LeaverOK, At,
     UpdatePhases, DeletePhases, LeavePhases
<1>9. RoomOK(s)'
  <2>1. RoomOK(s) /\ room[s].type = "group"
    BY <1>0, <1>1, <1>2 DEF IInv, SlotOK, UpdaterOK, At, UpdatePhases
  <2>2. Archiving(s) => Archiving(s)'
    BY <1>0, <1>1, <1>3 DEF Archiving, At
  <2>. QED  BY <1>0, <1>1, <1>4, <1>6, <2>1, <2>2 DEF RoomOK, Open
<1>. QED  BY <1>0, <1>2, <1>3, <1>5, <1>7, <1>8, <1>9, WriteStep DEF At

LEMMA RewriteMemberIInv ==
  ASSUME IInv, TypeOK', NEW p \in Requests, RewriteMember(p)
  PROVE  IInv'
<1>0. PICK s : s = req[p].room
  OBVIOUS
<1>1. TypeOK /\ At(p, "rewrite") /\ SlotOK(p) /\ UNCHANGED <<room, interrupted>>
  BY <1>0 DEF RewriteMember, IInv
<1>2. s \in Rooms /\ req[p] \in Pending
  BY <1>0, <1>1, BusyFields, BusyIsPending DEF At
<1>3. PICK u \in req[p].todo, v \in Times \cup {Null} :
        /\ leftAt' = [leftAt EXCEPT ![s][u] = v]
        /\ u \in req[p].keep => v = Null
        /\ req' = [req EXCEPT ![p].todo = @ \ {u}]
  BY <1>0 DEF RewriteMember
<1>4. /\ req'[p].phase = "rewrite"
      /\ req'[p].user = req[p].user /\ req'[p].room = s
      /\ req'[p].keep = req[p].keep /\ req'[p].todo \subseteq req[p].todo
      /\ \A q \in Requests \ {p} : req'[q] = req[q]
  BY <1>0, <1>1, <1>2, <1>3 DEF TypeOK, At, Pending
<1>5. u \in Users /\ v # NoRow
  BY <1>0, <1>2, <1>3, ConstantsAssumption DEF Pending
<1>6. Frame(p, s)
  BY <1>0, <1>1, <1>2, <1>3, <1>4 DEF Frame, At, TypeOK
<1>7. /\ room[s].type = "group" /\ Rows(s) # {}
      /\ room[s].owner \in {Null, req[p].user}
      /\ req[p].user \in req[p].keep
      /\ req[p].todo \subseteq Rows(s)
  BY <1>0, <1>1 DEF SlotOK, UpdaterOK, At, UpdatePhases
<1>8. Rows(s)' = Rows(s)
  BY <1>0, <1>1, <1>2, <1>3, <1>5, <1>7 DEF Rows, TypeOK
<1>9. Evolves(s)
  BY <1>0, <1>1, <1>7, <1>8 DEF Evolves
<1>10. SlotOK(p)'
  BY <1>0, <1>1, <1>4, <1>7, <1>8 DEF SlotOK, OpenerOK, UpdaterOK, DeleterOK, LeaverOK, At,
     UpdatePhases, DeletePhases, LeavePhases
<1>11. RoomOK(s)'
  <2>1. RoomOK(s)
    BY <1>0, <1>2 DEF IInv
  <2>2. Archiving(s) => Archiving(s)'
    BY <1>0, <1>1, <1>4 DEF Archiving, At
  <2>3. ASSUME room[s].owner \in Active(s) PROVE room[s].owner \in Active(s)'
    <3>1. room[s].owner = req[p].user
      BY <1>0, <1>7, <2>3, ConstantsAssumption DEF Active
    <3>. QED  BY <1>0, <1>1, <1>2, <1>3, <1>5, <1>7, <2>3, <3>1 DEF Active, TypeOK
  <2>. QED  BY <1>0, <1>1, <1>7, <1>8, <2>1, <2>2, <2>3 DEF RoomOK, Open
<1>. QED  BY <1>0, <1>2, <1>4, <1>6, <1>7, <1>9, <1>10, <1>11, WriteStep DEF At

LEMMA InsertMissingMembersIInv ==
  ASSUME IInv, TypeOK', NEW p \in Requests, InsertMissingMembers(p)
  PROVE  IInv'
<1>0. PICK s : s = req[p].room
  OBVIOUS
<1>1. TypeOK /\ At(p, "rewrite") /\ SlotOK(p) /\ Answer(p)
      /\ UNCHANGED <<room, interrupted>>
  BY <1>0 DEF InsertMissingMembers, IInv
<1>2. s \in Rooms
  BY <1>0, <1>1, BusyFields DEF At
<1>3. \/ leftAt' = leftAt
      \/ leftAt' = [leftAt EXCEPT ![s] =
           [u \in Users |-> IF u \in req[p].missing THEN Null ELSE @[u]]]
  BY <1>0 DEF InsertMissingMembers
<1>4. req'[p].phase = "idle" /\ \A q \in Requests \ {p} : req'[q] = req[q]
  BY <1>0, <1>1, AnswerFrame
<1>5. Frame(p, s)
  BY <1>0, <1>1, <1>2, <1>3, <1>4 DEF Frame, At, TypeOK
<1>6. Rows(s) \subseteq Rows(s)' /\ Active(s) \subseteq Active(s)'
  BY <1>1, <1>2, <1>3, ConstantsAssumption DEF Rows, Active, TypeOK
<1>7. room[s].type = "group" /\ Rows(s) # {}
  BY <1>0, <1>1 DEF SlotOK, UpdaterOK, At, UpdatePhases
<1>8. Evolves(s)
  BY <1>1, <1>6, <1>7 DEF Evolves
<1>9. RoomOK(s)'
  <2>1. RoomOK(s)
    BY <1>2 DEF IInv
  <2>2. Archiving(s) => Archiving(s)'
    BY <1>1, <1>4 DEF Archiving, At
  <2>. QED  BY <1>1, <1>6, <1>7, <2>1, <2>2 DEF RoomOK, Open
<1>. QED  BY <1>2, <1>4, <1>5, <1>7, <1>8, <1>9, IdleSlotOK, WriteStep DEF At

LEMMA LeaveAllIInv ==
  ASSUME IInv, TypeOK', NEW p \in Requests, LeaveAll(p)
  PROVE  IInv'
<1>0. PICK s : s = req[p].room
  OBVIOUS
<1>1. TypeOK /\ At(p, "leaveAll") /\ SlotOK(p) /\ Goto(p, "archive")
      /\ UNCHANGED <<room, interrupted>>
  BY <1>0 DEF LeaveAll, IInv
<1>2. s \in Rooms
  BY <1>0, <1>1, BusyFields DEF At
<1>3. PICK t \in Times : leftAt' = [leftAt EXCEPT ![s] =
        [u \in Users |-> IF u \in Active(s) THEN t ELSE @[u]]]
  BY <1>0 DEF LeaveAll
<1>4. /\ req'[p].phase = "archive" /\ req'[p].room = s
      /\ \A q \in Requests \ {p} : req'[q] = req[q]
  BY <1>0, <1>1, GotoFrame DEF At
<1>5. Frame(p, s)
  BY <1>0, <1>1, <1>2, <1>3, <1>4 DEF Frame, At, TypeOK
<1>6. Rows(s)' = Rows(s)
  BY <1>1, <1>2, <1>3, ConstantsAssumption DEF Rows, Active, TypeOK
<1>7. room[s].type = "group" /\ Rows(s) # {}
  BY <1>0, <1>1 DEF SlotOK, DeleterOK, At, DeletePhases
<1>8. Evolves(s)
  BY <1>1, <1>6, <1>7 DEF Evolves
<1>9. SlotOK(p)'
  BY <1>1, <1>4, <1>6, <1>7 DEF SlotOK, OpenerOK, UpdaterOK, DeleterOK, LeaverOK, At,
     UpdatePhases, DeletePhases, LeavePhases
<1>10. RoomOK(s)'
  <2>1. RoomOK(s)
    BY <1>2 DEF IInv
  <2>2. Archiving(s)'
    BY <1>4 DEF Archiving, At
  <2>. QED  BY <1>1, <1>6, <1>7, <2>1, <2>2 DEF RoomOK, Open
<1>. QED  BY <1>2, <1>4, <1>5, <1>7, <1>8, <1>9, <1>10, WriteStep DEF At

LEMMA ArchiveRoomIInv ==
  ASSUME IInv, TypeOK', NEW p \in Requests, ArchiveRoom(p)
  PROVE  IInv'
<1>0. PICK s : s = req[p].room
  OBVIOUS
<1>1. TypeOK /\ At(p, "archive") /\ SlotOK(p) /\ Answer(p)
      /\ UNCHANGED <<leftAt, interrupted>>
  BY <1>0 DEF ArchiveRoom, IInv
<1>2. s \in Rooms /\ room[s] \in RoomRow
  BY <1>0, <1>1, BusyFields DEF At
<1>3. req'[p].phase = "idle" /\ \A q \in Requests \ {p} : req'[q] = req[q]
  BY <1>1, AnswerFrame
<1>4. /\ room'[s].type = room[s].type
      /\ room'[s].status = "archived_by_owner" /\ room'[s].owner = Null
      /\ \A t \in Rooms \ {s} : room'[t] = room[t]
  <2>1. room' = [room EXCEPT ![s] =
          [room[s] EXCEPT !.status = "archived_by_owner", !.owner = Null]]
    BY <1>0 DEF ArchiveRoom
  <2>. QED  BY <1>1, <1>2, <2>1 DEF TypeOK, RoomRow
<1>5. Frame(p, s)
  BY <1>0, <1>1, <1>3, <1>4 DEF Frame, At
<1>6. Rows(s)' = Rows(s) /\ Active(s)' = Active(s)
  BY <1>1 DEF Rows, Active
<1>7. room[s].type = "group" /\ Rows(s) # {}
  BY <1>0, <1>1 DEF SlotOK, DeleterOK, At, DeletePhases
<1>8. Evolves(s)
  BY <1>4, <1>6, <1>7 DEF Evolves
<1>9. RoomOK(s)'
  BY <1>4, <1>7 DEF RoomOK, Open
<1>. QED  BY <1>2, <1>3, <1>5, <1>7, <1>8, <1>9, IdleSlotOK, WriteStep DEF At

LEMMA LeaveMemberIInv ==
  ASSUME IInv, TypeOK', NEW p \in Requests, LeaveMember(p)
  PROVE  IInv'
<1>0. PICK s : s = req[p].room
  OBVIOUS
<1>1. TypeOK /\ At(p, "leave") /\ SlotOK(p) /\ UNCHANGED <<room, interrupted>>
  BY <1>0 DEF LeaveMember, IInv
<1>2. s \in Rooms /\ req[p].user \in Users
  BY <1>0, <1>1, BusyFields DEF At
<1>3. PICK t \in Times : leftAt' = [leftAt EXCEPT ![s][req[p].user] = t]
  BY <1>0 DEF LeaveMember
<1>4. /\ req'[p].phase = (IF room[s].type = "private" THEN "count" ELSE "idle")
      /\ room[s].type = "private" => req'[p].user = req[p].user /\ req'[p].room = s
      /\ \A q \in Requests \ {p} : req'[q] = req[q]
  BY <1>0, <1>1, GotoFrame, AnswerFrame DEF At, LeaveMember
<1>5. Frame(p, s)
  BY <1>0, <1>1, <1>2, <1>3, <1>4 DEF Frame, At, TypeOK
<1>6. /\ Open(s) /\ Rows(s) # {} /\ ~GroupOwner(s, req[p].user)
      /\ req[p].user \in Rows(s)
  BY <1>0, <1>1 DEF SlotOK, LeaverOK, At, LeavePhases
<1>7. Rows(s)' = Rows(s) /\ Active(s)' = Active(s) \ {req[p].user}
  BY <1>1, <1>2, <1>3, <1>6, ConstantsAssumption DEF Rows, Active, TypeOK
<1>8. Evolves(s)
  BY <1>1, <1>7 DEF Evolves
<1>9. SlotOK(p)'
  <2>1. CASE room[s].type # "private"
    BY <1>4, <2>1, IdleSlotOK
  <2>2. CASE room[s].type = "private"
    BY <1>1, <1>4, <1>6, <1>7, <2>2 DEF SlotOK, OpenerOK, UpdaterOK, DeleterOK, LeaverOK,
       At, UpdatePhases, DeletePhases, LeavePhases, Open, GroupOwner
  <2>. QED  BY <2>1, <2>2
<1>10. RoomOK(s)'
  <2>1. RoomOK(s)
    BY <1>2 DEF IInv
  <2>2. Archiving(s) => Archiving(s)'
    BY <1>1, <1>4 DEF Archiving, At
  <2>3. room[s].type = "private" => Orphaning(s)'
    BY <1>4 DEF Orphaning
  <2>4. room[s].type = "group" /\ room[s].owner \in Active(s)
          => room[s].owner \in Active(s)'
    BY <1>6, <1>7 DEF GroupOwner
  <2>. QED  BY <1>1, <1>7, <2>1, <2>2, <2>3, <2>4 DEF RoomOK, Open
<1>. QED  BY <1>2, <1>4, <1>5, <1>6, <1>8, <1>9, <1>10, WriteStep DEF At

LEMMA OrphanRoomIInv ==
  ASSUME IInv, TypeOK', NEW p \in Requests, OrphanRoom(p)
  PROVE  IInv'
<1>0. PICK s : s = req[p].room
  OBVIOUS
<1>1. TypeOK /\ At(p, "orphan") /\ SlotOK(p) /\ Answer(p)
      /\ UNCHANGED <<leftAt, interrupted>>
  BY <1>0 DEF OrphanRoom, IInv
<1>2. s \in Rooms /\ room[s] \in RoomRow
  BY <1>0, <1>1, BusyFields DEF At
<1>3. req'[p].phase = "idle" /\ \A q \in Requests \ {p} : req'[q] = req[q]
  BY <1>1, AnswerFrame
<1>4. /\ room'[s].type = room[s].type
      /\ room'[s].status = "orphaned" /\ room'[s].owner = Null
      /\ \A t \in Rooms \ {s} : room'[t] = room[t]
  <2>1. room' = [room EXCEPT ![s] =
          [room[s] EXCEPT !.status = "orphaned", !.owner = Null]]
    BY <1>0 DEF OrphanRoom
  <2>. QED  BY <1>1, <1>2, <2>1 DEF TypeOK, RoomRow
<1>5. Frame(p, s)
  BY <1>0, <1>1, <1>3, <1>4 DEF Frame, At
<1>6. Rows(s)' = Rows(s) /\ Active(s)' = Active(s)
  BY <1>1 DEF Rows, Active
<1>7. room[s].type = "private" /\ Rows(s) # {}
  BY <1>0, <1>1 DEF SlotOK, LeaverOK, At, LeavePhases
<1>8. Evolves(s)
  BY <1>4, <1>6 DEF Evolves
<1>9. RoomOK(s)'
  BY <1>4, <1>7 DEF RoomOK, Open
<1>. QED  BY <1>2, <1>3, <1>5, <1>7, <1>8, <1>9, IdleSlotOK, WriteStep DEF At

LEMMA NextIInv == IInv /\ [Next]_vars => IInv'
<1>1. ASSUME IInv, UNCHANGED vars PROVE IInv'
  <2>1. UNCHANGED <<room, leftAt, req, interrupted>>
    BY <1>1 DEF vars
  <2>2. TypeOK'
    BY <1>1, <2>1 DEF TypeOK, IInv
  <2>3. \A r : Rows(r)' = Rows(r) /\ Active(r)' = Active(r)
               /\ Archiving(r)' = Archiving(r) /\ Orphaning(r)' = Orphaning(r)
    BY <2>1 DEF Rows, Active, Archiving, Orphaning, At
  <2>4. \A q \in Requests : SlotOK(q)'
    BY <1>1, <2>1, <2>3 DEF IInv, SlotOK, OpenerOK, UpdaterOK, DeleterOK, LeaverOK,
       At, Open, GroupOwner
  <2>5. OneOpener'
    BY <1>1, <2>1 DEF IInv, OneOpener, At
  <2>6. \A r \in Rooms : RoomOK(r)'
    BY <1>1, <2>1, <2>3 DEF IInv, RoomOK, Open
  <2>. QED  BY <2>2, <2>4, <2>5, <2>6 DEF IInv
<1>2. ASSUME IInv, NEW p \in Requests, Step(p) PROVE IInv'
  <2>1. TypeOK'
    BY <1>2, StepTypeOK DEF IInv
  <2>. QED
    BY <1>2, <2>1, CreateRoomIInv, CreateRoomMembersIInv, UpdateRoomIInv,
       UpdateTitleIInv, FindRoomMembersIInv, RewriteMemberIInv,
       InsertMissingMembersIInv, DeleteRoomIInv, LeaveAllIInv, ArchiveRoomIInv,
       LeaveRoomIInv, FindOwnMemberIInv, LeaveMemberIInv, CountActiveMembersIInv,
       OrphanRoomIInv, FailRequestIInv DEF Step
<1>. QED  BY <1>1, <1>2, StepCases

THEOREM InductiveInvariant == Spec => []IInv
  BY InitIInv, NextIInv, PTL DEF Spec

(* An active group has its owner among its active members, unless          *)
(* deleteRoom is between its two statements or died there.                 *)
THEOREM OwnerStays == Spec => []OwnerInOwnGroup
<1>1. IInv => OwnerInOwnGroup
  BY DEF IInv, RoomOK, OwnerInOwnGroup
<1>. QED  BY <1>1, InductiveInvariant, PTL

(* However two people leave a private room, it does not stay open with     *)
(* nobody in it, unless the last leaveRoom is still at work or died.       *)
THEOREM EmptyRoomsClose == Spec => []NoAbandonedPrivateRoom
<1>1. IInv => NoAbandonedPrivateRoom
  BY DEF IInv, RoomOK, NoAbandonedPrivateRoom
<1>. QED  BY <1>1, InductiveInvariant, PTL

-----------------------------------------------------------------------------
(***************************************************************************)
(* The refinement: every statement of a request is one step of RoomPolicy  *)
(* or leaves rooms, rows and active members as they are.                   *)
(***************************************************************************)
RowsBar   == [r \in Rooms |-> Rows(r)]
ActiveBar == [r \in Rooms |-> Active(r)]

LEMMA BarUnchanged ==
  ASSUME leftAt' = leftAt
  PROVE  RowsBar' = RowsBar /\ ActiveBar' = ActiveBar
  BY DEF RowsBar, ActiveBar, Rows, Active

LEMMA PolicyInit == Init => Policy!Init
<1>. SUFFICES ASSUME Init PROVE Policy!Init
  OBVIOUS
<1>1. room = [r \in Rooms |->
        IF r \in PublicRooms THEN Policy!PublicRoom ELSE Policy!NoRoom]
  BY DEF Init, Policy!PublicRoom, Policy!NoRoom, PublicRoom, NoRoom
<1>2. \A r \in Rooms : Rows(r) = {} /\ Active(r) = {}
  BY ConstantsAssumption DEF Init, Rows, Active
<1>. QED  BY <1>1, <1>2 DEF Policy!Init

LEMMA PolicyCreateRoom ==
  ASSUME IInv, NEW p \in Requests, CreateRoom(p)
  PROVE  Policy!Next
<1>1. PICK u \in Users, r \in Rooms, others \in SUBSET Users :
        /\ room[r] = NoRoom
        /\ room' = [room EXCEPT ![r] =
             [type |-> IF IsOne(others) THEN "private" ELSE "group",
              status |-> "active", title |-> "initial", owner |-> u]]
  BY DEF CreateRoom
<1>2. room[r] = Policy!NoRoom
  BY <1>1 DEF NoRoom, Policy!NoRoom
<1>3. \E type \in {"private", "group"} :
        room' = [room EXCEPT ![r] = Policy!OpenRoom(type, u)]
  BY <1>1 DEF Policy!OpenRoom
<1>4. RowsBar' = RowsBar /\ ActiveBar' = ActiveBar
  BY BarUnchanged DEF CreateRoom
<1>5. Policy!Open(r)
  BY <1>2, <1>3, <1>4 DEF Policy!Open, RowsBar, ActiveBar
<1>. QED  BY <1>5 DEF Policy!Next

LEMMA PolicyCreateRoomMembers ==
  ASSUME IInv, NEW p \in Requests, CreateRoomMembers(p)
  PROVE  Policy!Next
<1>0. PICK s, keep : s = req[p].room /\ keep = req[p].keep
  OBVIOUS
<1>1. TypeOK /\ At(p, "insertMembers") /\ SlotOK(p) /\ UNCHANGED room
  BY DEF CreateRoomMembers, IInv
<1>2. s \in Rooms /\ keep \in SUBSET Users /\ room[s].owner = req[p].user
      /\ req[p].user \in Users
  BY <1>0, <1>1, BusyFields DEF At, SlotOK, OpenerOK
<1>3. PICK g : g = [u \in Users |-> IF u \in keep THEN Null ELSE leftAt[s][u]]
  OBVIOUS
<1>4. leftAt' = [leftAt EXCEPT ![s] = g]
  BY <1>0, <1>3 DEF CreateRoomMembers
<1>5. \A u \in Users : leftAt[s][u] = NoRow
  BY <1>0, <1>1 DEF SlotOK, OpenerOK, Rows
<1>6. {u \in Users : g[u] # NoRow} = keep /\ {u \in Users : g[u] = Null} = keep
  BY <1>2, <1>3, <1>5, ConstantsAssumption
<1>7. RowsBar' = [RowsBar EXCEPT ![s] = keep]
      /\ ActiveBar' = [ActiveBar EXCEPT ![s] = keep]
  <2>1. \A r \in Rooms : leftAt'[r] = IF r = s THEN g ELSE leftAt[r]
    BY <1>1, <1>2, <1>4 DEF TypeOK
  <2>. QED  BY <1>2, <1>6, <2>1 DEF RowsBar, ActiveBar, Rows, Active
<1>8. RowsBar[s] = {}
  BY <1>0, <1>1, <1>2 DEF SlotOK, OpenerOK, RowsBar
<1>9. CASE room[s].type = "private"
  <2>1. PICK v \in Users \ {room[s].owner} : keep = {room[s].owner, v}
    BY <1>0, <1>1, <1>2, <1>9 DEF SlotOK, OpenerOK
  <2>2. Policy!SeatPair(s)
    BY <1>1, <1>7, <1>8, <1>9, <2>1 DEF Policy!SeatPair, RowsBar, ActiveBar
  <2>. QED  BY <1>2, <2>2 DEF Policy!Next
<1>10. CASE room[s].type = "group"
  <2>1. RowsBar' = [RowsBar EXCEPT ![s] = @ \cup keep]
    BY <1>7, <1>8
  <2>2. Policy!Regroup(s)
    BY <1>1, <1>2, <1>7, <1>10, <2>1 DEF Policy!Regroup, RowsBar, ActiveBar
  <2>. QED  BY <1>2, <2>2 DEF Policy!Next
<1>. QED  BY <1>0, <1>1, <1>9, <1>10 DEF SlotOK, OpenerOK, Open

(* The statements of updateRoom and deleteRoom that write member rows.     *)
LEMMA PolicyRegroup ==
  ASSUME IInv, NEW s \in Rooms, room[s].type = "group", UNCHANGED room,
         NEW g, leftAt' = [leftAt EXCEPT ![s] = g],
         Rows(s) \subseteq {u \in Users : g[u] # NoRow}
  PROVE  Policy!Next
<1>1. RowsBar' = [RowsBar EXCEPT ![s] = {u \in Users : g[u] # NoRow}]
      /\ ActiveBar' = [ActiveBar EXCEPT ![s] = {u \in Users : g[u] = Null}]
  <2>1. \A r \in Rooms : leftAt'[r] = IF r = s THEN g ELSE leftAt[r]
    BY DEF IInv, TypeOK
  <2>2. \A r \in Rooms \ {s} : Rows(r)' = Rows(r) /\ Active(r)' = Active(r)
    BY <2>1 DEF Rows, Active
  <2>3. Rows(s)' = {u \in Users : g[u] # NoRow} /\ Active(s)' = {u \in Users : g[u] = Null}
    BY <2>1 DEF Rows, Active
  <2>. QED  BY <2>2, <2>3 DEF RowsBar, ActiveBar
<1>2. RowsBar' = [RowsBar EXCEPT ![s] = @ \cup {u \in Users : g[u] # NoRow}]
  <2>1. RowsBar[s] = Rows(s)
    BY DEF RowsBar
  <2>2. Rows(s) \cup {u \in Users : g[u] # NoRow} = {u \in Users : g[u] # NoRow}
    OBVIOUS
  <2>. QED  BY <1>1, <2>1, <2>2
<1>3. {u \in Users : g[u] = Null} \subseteq {u \in Users : g[u] # NoRow}
  BY ConstantsAssumption
<1>4. PICK added, seated \in SUBSET Users :
        /\ added = {u \in Users : g[u] # NoRow}
        /\ seated = {u \in Users : g[u] = Null}
  OBVIOUS
<1>5. Policy!Regroup(s)
  <2>1. seated \subseteq RowsBar[s] \cup added
    BY <1>3, <1>4
  <2>. QED  BY <1>1, <1>2, <1>4, <2>1 DEF Policy!Regroup, RowsBar, ActiveBar
<1>. QED  BY <1>5 DEF Policy!Next

LEMMA PolicyRewriteMember ==
  ASSUME IInv, NEW p \in Requests, RewriteMember(p)
  PROVE  Policy!Next
<1>0. PICK s : s = req[p].room
  OBVIOUS
<1>1. TypeOK /\ At(p, "rewrite") /\ SlotOK(p) /\ UNCHANGED room
  BY DEF RewriteMember, IInv
<1>2. s \in Rooms /\ room[s].type = "group"
  BY <1>0, <1>1, BusyFields DEF At, SlotOK, UpdaterOK, UpdatePhases
<1>3. PICK u \in req[p].todo, v \in Times \cup {Null} :
        leftAt' = [leftAt EXCEPT ![s][u] = v]
  BY <1>0 DEF RewriteMember
<1>4. PICK g : g = [leftAt[s] EXCEPT ![u] = v]
  OBVIOUS
<1>5. leftAt' = [leftAt EXCEPT ![s] = g]
  BY <1>3, <1>4
<1>6. Rows(s) \subseteq {w \in Users : g[w] # NoRow}
  BY <1>1, <1>2, <1>3, <1>4, ConstantsAssumption DEF Rows, TypeOK
<1>. QED  BY <1>1, <1>2, <1>5, <1>6, PolicyRegroup

LEMMA PolicyInsertMissingMembers ==
  ASSUME IInv, NEW p \in Requests, InsertMissingMembers(p)
  PROVE  Policy!Next \/ UNCHANGED <<room, leftAt>>
<1>0. PICK s : s = req[p].room
  OBVIOUS
<1>1. TypeOK /\ At(p, "rewrite") /\ SlotOK(p) /\ UNCHANGED room
  BY DEF InsertMissingMembers, IInv
<1>2. s \in Rooms /\ room[s].type = "group"
  BY <1>0, <1>1, BusyFields DEF At, SlotOK, UpdaterOK, UpdatePhases
<1>3. PICK g : g = [u \in Users |-> IF u \in req[p].missing THEN Null ELSE leftAt[s][u]]
  OBVIOUS
<1>4. CASE leftAt' = [leftAt EXCEPT ![s] = g]
  <2>1. Rows(s) \subseteq {w \in Users : g[w] # NoRow}
    BY <1>3, ConstantsAssumption DEF Rows
  <2>. QED  BY <1>1, <1>2, <1>4, <2>1, PolicyRegroup
<1>5. leftAt' = [leftAt EXCEPT ![s] = g] \/ UNCHANGED leftAt
  BY <1>0, <1>3 DEF InsertMissingMembers
<1>. QED  BY <1>1, <1>4, <1>5

LEMMA PolicyLeaveAll ==
  ASSUME IInv, NEW p \in Requests, LeaveAll(p)
  PROVE  Policy!Next
<1>0. PICK s : s = req[p].room
  OBVIOUS
<1>1. TypeOK /\ At(p, "leaveAll") /\ SlotOK(p) /\ UNCHANGED room
  BY DEF LeaveAll, IInv
<1>2. s \in Rooms /\ room[s].type = "group"
  BY <1>0, <1>1, BusyFields DEF At, SlotOK, DeleterOK, DeletePhases
<1>3. PICK t \in Times : leftAt' = [leftAt EXCEPT ![s] =
        [u \in Users |-> IF u \in Active(s) THEN t ELSE @[u]]]
  BY <1>0 DEF LeaveAll
<1>4. PICK g : g = [u \in Users |-> IF u \in Active(s) THEN t ELSE leftAt[s][u]]
  OBVIOUS
<1>5. leftAt' = [leftAt EXCEPT ![s] = g]
  BY <1>3, <1>4
<1>6. Rows(s) \subseteq {w \in Users : g[w] # NoRow}
  BY <1>3, <1>4, ConstantsAssumption DEF Rows
<1>. QED  BY <1>1, <1>2, <1>5, <1>6, PolicyRegroup

LEMMA PolicyLeaveMember ==
  ASSUME IInv, NEW p \in Requests, LeaveMember(p)
  PROVE  Policy!Next \/ (UNCHANGED room /\ RowsBar' = RowsBar /\ ActiveBar' = ActiveBar)
<1>0. PICK s, u : s = req[p].room /\ u = req[p].user
  OBVIOUS
<1>1. TypeOK /\ At(p, "leave") /\ SlotOK(p) /\ UNCHANGED room
  BY DEF LeaveMember, IInv
<1>2. s \in Rooms /\ u \in Users /\ Open(s) /\ u \in Rows(s)
  BY <1>0, <1>1, BusyFields DEF At, SlotOK, LeaverOK, LeavePhases
<1>3. PICK t \in Times : leftAt' = [leftAt EXCEPT ![s][u] = t]
  BY <1>0 DEF LeaveMember
<1>4. PICK g : g = [leftAt[s] EXCEPT ![u] = t]
  OBVIOUS
<1>5. leftAt' = [leftAt EXCEPT ![s] = g]
  BY <1>3, <1>4
<1>6. {w \in Users : g[w] # NoRow} = Rows(s)
      /\ {w \in Users : g[w] = Null} = Active(s) \ {u}
  BY <1>1, <1>2, <1>3, <1>4, ConstantsAssumption DEF Rows, Active, TypeOK
<1>7. RowsBar' = [RowsBar EXCEPT ![s] = Rows(s)]
      /\ ActiveBar' = [ActiveBar EXCEPT ![s] = Active(s) \ {u}]
  <2>1. \A r \in Rooms : leftAt'[r] = IF r = s THEN g ELSE leftAt[r]
    BY <1>1, <1>2, <1>5 DEF TypeOK
  <2>. QED  BY <1>2, <1>6, <2>1 DEF RowsBar, ActiveBar, Rows, Active
<1>8. RowsBar' = RowsBar /\ ActiveBar' = [ActiveBar EXCEPT ![s] = @ \ {u}]
  BY <1>2, <1>7 DEF RowsBar, ActiveBar
<1>9. CASE room[s].type = "group"
  BY <1>1, <1>2, <1>5, <1>6, <1>9, PolicyRegroup
<1>10. CASE room[s].type = "private" /\ u \in Active(s)
  <2>1. Policy!LeavePrivate(s)
    BY <1>1, <1>2, <1>8, <1>10 DEF Policy!LeavePrivate, RowsBar, ActiveBar
  <2>. QED  BY <1>2, <2>1 DEF Policy!Next
<1>11. CASE u \notin Active(s)
  <2>1. ActiveBar' = ActiveBar
    BY <1>2, <1>7, <1>11 DEF ActiveBar
  <2>. QED  BY <1>1, <1>8, <2>1
<1>. QED  BY <1>2, <1>9, <1>10, <1>11 DEF Open

(* The statements that write the room's own row.                           *)
LEMMA PolicyUpdateTitle ==
  ASSUME IInv, NEW p \in Requests, UpdateTitle(p)
  PROVE  Policy!Next
<1>0. PICK s : s = req[p].room
  OBVIOUS
<1>1. TypeOK /\ At(p, "rename") /\ SlotOK(p) /\ leftAt' = leftAt
  BY DEF UpdateTitle, IInv
<1>2. s \in Rooms /\ room[s].type = "group"
  BY <1>0, <1>1, BusyFields DEF At, SlotOK, UpdaterOK, UpdatePhases
<1>3. RowsBar' = RowsBar /\ ActiveBar' = ActiveBar
  BY <1>1, BarUnchanged
<1>4. Policy!Rename(s)
  BY <1>0, <1>2, <1>3 DEF UpdateTitle, Policy!Rename, RowsBar, ActiveBar
<1>. QED  BY <1>2, <1>4 DEF Policy!Next

LEMMA PolicyArchiveRoom ==
  ASSUME IInv, NEW p \in Requests, ArchiveRoom(p)
  PROVE  Policy!Next
<1>0. PICK s : s = req[p].room
  OBVIOUS
<1>1. TypeOK /\ At(p, "archive") /\ SlotOK(p) /\ leftAt' = leftAt
  BY DEF ArchiveRoom, IInv
<1>2. s \in Rooms /\ room[s].type = "group"
  BY <1>0, <1>1, BusyFields DEF At, SlotOK, DeleterOK, DeletePhases
<1>3. RowsBar' = RowsBar /\ ActiveBar' = ActiveBar
  BY <1>1, BarUnchanged
<1>4. Policy!Archive(s)
  BY <1>0, <1>2, <1>3 DEF ArchiveRoom, Policy!Archive, RowsBar, ActiveBar
<1>. QED  BY <1>2, <1>4 DEF Policy!Next

LEMMA PolicyOrphanRoom ==
  ASSUME IInv, NEW p \in Requests, OrphanRoom(p)
  PROVE  Policy!Next
<1>0. PICK s : s = req[p].room
  OBVIOUS
<1>1. TypeOK /\ At(p, "orphan") /\ SlotOK(p) /\ leftAt' = leftAt
  BY DEF OrphanRoom, IInv
<1>2. s \in Rooms /\ room[s].type = "private" /\ Rows(s) # {} /\ Active(s) = {}
  BY <1>0, <1>1, BusyFields DEF At, SlotOK, LeaverOK, LeavePhases
<1>3. RowsBar' = RowsBar /\ ActiveBar' = ActiveBar
  BY <1>1, BarUnchanged
<1>4. Policy!Orphan(s)
  BY <1>0, <1>2, <1>3 DEF OrphanRoom, Policy!Orphan, RowsBar, ActiveBar
<1>. QED  BY <1>2, <1>4 DEF Policy!Next

LEMMA PolicyNext ==
  ASSUME IInv, [Next]_vars
  PROVE  [Policy!Next]_(Policy!vars)
<1>1. ASSUME UNCHANGED <<room, leftAt>> PROVE UNCHANGED Policy!vars
  BY <1>1, BarUnchanged DEF Policy!vars, RowsBar, ActiveBar
<1>2. ASSUME UNCHANGED room, RowsBar' = RowsBar, ActiveBar' = ActiveBar
      PROVE  UNCHANGED Policy!vars
  BY <1>2 DEF Policy!vars, RowsBar, ActiveBar
<1>3. CASE UNCHANGED vars
  BY <1>1, <1>3 DEF vars
<1>4. ASSUME NEW p \in Requests, Step(p) PROVE Policy!Next \/ UNCHANGED Policy!vars
  <2>1. CASE UpdateRoom(p) \/ FindRoomMembers(p) \/ DeleteRoom(p) \/ LeaveRoom(p)
             \/ FindOwnMember(p) \/ CountActiveMembers(p) \/ FailRequest(p)
    BY <1>1, <2>1 DEF UpdateRoom, FindRoomMembers, DeleteRoom, LeaveRoom,
       FindOwnMember, CountActiveMembers, FailRequest
  <2>2. CASE LeaveMember(p)
    BY <1>2, <2>2, PolicyLeaveMember
  <2>3. CASE InsertMissingMembers(p)
    BY <1>1, <2>3, PolicyInsertMissingMembers
  <2>. QED
    BY <1>4, <2>1, <2>2, <2>3, PolicyCreateRoom, PolicyCreateRoomMembers,
       PolicyUpdateTitle, PolicyRewriteMember, PolicyLeaveAll, PolicyArchiveRoom,
       PolicyOrphanRoom DEF Step
<1>. QED  BY <1>3, <1>4, StepCases

(* The service, one statement at a time, with requests overlapping and     *)
(* dying, implements the policy.                                           *)
THEOREM RoomsFollowPolicy == Spec => ImplementsPolicy
  BY PolicyInit, PolicyNext, InductiveInvariant, PTL
     DEF ImplementsPolicy, Policy!Spec, Spec

-----------------------------------------------------------------------------
(***************************************************************************)
(* RoomAccess. Its rooms behave as ChatRooms says, so all of the above     *)
(* holds of them.                                                          *)
(***************************************************************************)
LEMMA AccessRooms == AccessNext => [Next]_vars
  BY DEF AccessNext, RoomStep, FindRoom, FindMember, EndCheck

THEOREM AccessKeepsRooms == AccessSpec => Spec
<1>1. AccessInit => Init
  BY DEF AccessInit
<1>2. [AccessNext]_accessVars => [Next]_vars
  BY AccessRooms DEF accessVars
<1>. QED  BY <1>1, <1>2, PTL DEF AccessSpec, Spec

(***************************************************************************)
(* What one step of slot p on room s may do, as far as the checks and the  *)
(* closing of rooms are concerned.                                         *)
(***************************************************************************)
SameStatus(s) ==
  room'[s].status = room[s].status /\ room'[s].type = room[s].type

Opens(s) == room[s].status = "none" /\ room'[s].status = "active"

Archives(p, s) ==
  /\ At(p, "archive") /\ At(p, "idle")'
  /\ room'[s].status = "archived_by_owner" /\ room'[s].type = room[s].type

Orphans(p, s) ==
  /\ At(p, "orphan")
  /\ room'[s].status = "orphaned" /\ room'[s].type = room[s].type

Outline(p, s) ==
  /\ Frame(p, s)
  /\ SameStatus(s) \/ Opens(s) \/ Archives(p, s) \/ Orphans(p, s)
  /\ Rows(s) \subseteq Rows(s)'
  /\ Active(s)' \subseteq Active(s) \/ At(p, "rewrite") \/ At(p, "insertMembers")
  /\ req'[p].phase \in UpdatePhases =>
       \/ req[p].phase \in UpdatePhases
       \/ room[s].status = "active" /\ SameStatus(s)
  /\ At(p, "archive")' => Active(s)' = {}

LEMMA OutlineBegin ==
  ASSUME TypeOK, NEW p \in Requests, At(p, "idle"), NEW s \in Rooms,
         UNCHANGED <<room, leftAt, interrupted>>, room[s].status = "active",
         NEW phase \in {"rename", "leaveAll", "findMember"},
         NEW u \in Users, NEW keep,
         req' = [req EXCEPT ![p] = Pend(phase, u, s, keep)]
  PROVE  Outline(p, s)
<1>1. /\ req'[p].phase = phase /\ req'[p].room = s
      /\ \A q \in Requests \ {p} : req'[q] = req[q]
  BY DEF TypeOK, Pend
<1>2. Frame(p, s)
  BY <1>1 DEF Frame, At
<1>3. Untouched(s) /\ SameStatus(s)
  BY DEF Untouched, SameStatus
<1>. QED  BY <1>1, <1>2, <1>3, UntouchedRows DEF Outline, At

(* A statement that reads, or a failure: the slot ends or goes on.         *)
LEMMA OutlineRead ==
  ASSUME TypeOK, NEW p \in Requests, ~At(p, "idle"),
         UNCHANGED <<room, leftAt>>, interrupted \subseteq interrupted',
         Answer(p) \/ (\E phase \in {"leave", "orphan"} : Goto(p, phase))
  PROVE  Outline(p, req[p].room)
<1>0. PICK s : s = req[p].room
  OBVIOUS
<1>1. /\ req'[p].phase \in {"idle", "leave", "orphan"}
      /\ At(p, "idle")' \/ req'[p].room = s
      /\ \A q \in Requests \ {p} : req'[q] = req[q]
  BY <1>0, AnswerFrame, GotoFrame DEF At
<1>2. Frame(p, s)
  BY <1>0, <1>1 DEF Frame, At
<1>3. Untouched(s) /\ SameStatus(s)
  BY DEF Untouched, SameStatus
<1>4. Outline(p, s)
  BY <1>1, <1>2, <1>3, UntouchedRows DEF Outline, At, UpdatePhases
<1>. QED  BY <1>0, <1>4

(* Statements that write member rows of the slot's room.                   *)
MemberWrite(p, s, g) ==
  /\ ~At(p, "idle") /\ req[p].room = s
  /\ UNCHANGED <<room, interrupted>>
  /\ leftAt' = [leftAt EXCEPT ![s] = g]
  /\ \A q \in Requests \ {p} : req'[q] = req[q]
  /\ At(p, "idle")' \/ req'[p].room = s
  /\ \A u \in Users : leftAt[s][u] # NoRow => g[u] # NoRow
  /\ \/ \A u \in Users : g[u] = Null => leftAt[s][u] = Null
     \/ At(p, "rewrite") \/ At(p, "insertMembers")
  /\ req'[p].phase \in UpdatePhases => req[p].phase \in UpdatePhases
  /\ At(p, "archive")' => \A u \in Users : g[u] # Null

LEMMA OutlineMembers ==
  ASSUME TypeOK, NEW p \in Requests, NEW s \in Rooms, NEW g, MemberWrite(p, s, g)
  PROVE  Outline(p, s)
<1>1. leftAt'[s] = g /\ \A r \in Rooms \ {s} : leftAt'[r] = leftAt[r]
  BY DEF TypeOK, MemberWrite
<1>2. Frame(p, s)
  BY <1>1 DEF Frame, MemberWrite
<1>3. Rows(s) \subseteq Rows(s)'
  BY <1>1 DEF Rows, MemberWrite
<1>4. Active(s)' \subseteq Active(s) \/ At(p, "rewrite") \/ At(p, "insertMembers")
  BY <1>1 DEF Active, MemberWrite
<1>5. At(p, "archive")' => Active(s)' = {}
  BY <1>1 DEF Active, MemberWrite
<1>. QED  BY <1>2, <1>3, <1>4, <1>5 DEF Outline, SameStatus, MemberWrite

LEMMA StepOutline ==
  ASSUME IInv, NEW p \in Requests, Step(p)
  PROVE  \E s \in Rooms : Outline(p, s)
<1>0. PICK s : s = req[p].room
  OBVIOUS
<1>1. TypeOK /\ SlotOK(p) /\ (~At(p, "idle") => s \in Rooms /\ req[p] \in Pending)
  BY <1>0, BusyFields, BusyIsPending DEF IInv
<1>2. CASE CreateRoom(p)
  <2>1. PICK u \in Users, r \in Rooms, others \in SUBSET Users :
          /\ room[r] = NoRoom
          /\ room' = [room EXCEPT ![r] =
               [type |-> IF IsOne(others) THEN "private" ELSE "group",
                status |-> "active", title |-> "initial", owner |-> u]]
          /\ req' = [req EXCEPT ![p] = Pend("insertMembers", u, r, {u} \cup others)]
    BY <1>2 DEF CreateRoom
  <2>2. At(p, "idle") /\ UNCHANGED <<leftAt, interrupted>>
    BY <1>2 DEF CreateRoom
  <2>3. /\ req'[p].phase = "insertMembers" /\ req'[p].room = r
        /\ \A q \in Requests \ {p} : req'[q] = req[q]
    BY <1>1, <2>1 DEF TypeOK, Pend
  <2>4. room'[r].status = "active" /\ \A t \in Rooms \ {r} : room'[t] = room[t]
    BY <1>1, <2>1 DEF TypeOK
  <2>5. Frame(p, r) /\ Opens(r)
    BY <2>1, <2>2, <2>3, <2>4 DEF Frame, At, Opens, NoRoom
  <2>6. Rows(r)' = Rows(r) /\ Active(r)' = Active(r)
    BY <2>2 DEF Rows, Active
  <2>7. Outline(p, r)
    BY <2>3, <2>5, <2>6 DEF Outline, At, UpdatePhases
  <2>. QED  BY <2>1, <2>7
<1>3. CASE UpdateRoom(p)
  <2>1. PICK u \in Users, r \in Rooms, members \in SUBSET Users :
          /\ room[r].status = "active"
          /\ req' = [req EXCEPT ![p] = Pend("rename", u, r, members \cup {u})]
    BY <1>3 DEF UpdateRoom
  <2>. QED  BY <1>1, <1>3, <2>1, OutlineBegin DEF UpdateRoom
<1>4. CASE DeleteRoom(p)
  <2>1. PICK u \in Users, r \in Rooms :
          /\ room[r].status = "active"
          /\ req' = [req EXCEPT ![p] = Pend("leaveAll", u, r, {})]
    BY <1>4 DEF DeleteRoom
  <2>. QED  BY <1>1, <1>4, <2>1, OutlineBegin DEF DeleteRoom
<1>5. CASE LeaveRoom(p)
  <2>1. PICK u \in Users, r \in Rooms :
          /\ room[r].status = "active"
          /\ req' = [req EXCEPT ![p] = Pend("findMember", u, r, {})]
    BY <1>5 DEF LeaveRoom
  <2>. QED  BY <1>1, <1>5, <2>1, OutlineBegin DEF LeaveRoom
<1>6. CASE FindOwnMember(p) \/ CountActiveMembers(p) \/ FailRequest(p)
  <2>1. ~At(p, "idle") /\ UNCHANGED <<room, leftAt>> /\ interrupted \subseteq interrupted'
    BY <1>6 DEF FindOwnMember, CountActiveMembers, FailRequest, At
  <2>2. Answer(p) \/ (\E phase \in {"leave", "orphan"} : Goto(p, phase))
    BY <1>6 DEF FindOwnMember, CountActiveMembers, FailRequest
  <2>. QED  BY <1>0, <1>1, <2>1, <2>2, OutlineRead
<1>7. CASE FindRoomMembers(p)
  <2>1. At(p, "readMembers") /\ UNCHANGED <<room, leftAt, interrupted>>
    BY <1>7 DEF FindRoomMembers
  <2>2. /\ req'[p].phase = "rewrite" /\ req'[p].room = s
        /\ \A q \in Requests \ {p} : req'[q] = req[q]
    BY <1>0, <1>1, <1>7, <2>1 DEF FindRoomMembers, TypeOK, Pending, At
  <2>3. Frame(p, s) /\ Untouched(s) /\ SameStatus(s)
    BY <1>0, <2>1, <2>2 DEF Frame, Untouched, SameStatus, At
  <2>4. Outline(p, s)
    BY <2>1, <2>2, <2>3, UntouchedRows DEF Outline, At, UpdatePhases
  <2>. QED  BY <1>1, <2>1, <2>4 DEF At
<1>8. CASE UpdateTitle(p)
  <2>1. At(p, "rename") /\ Goto(p, "readMembers") /\ UNCHANGED <<leftAt, interrupted>>
    BY <1>8 DEF UpdateTitle
  <2>2. /\ req'[p].phase = "readMembers" /\ req'[p].room = s
        /\ \A q \in Requests \ {p} : req'[q] = req[q]
    BY <1>0, <1>1, <2>1, GotoFrame DEF At
  <2>3. s \in Rooms /\ room[s] \in RoomRow
    BY <1>1, <2>1 DEF At, TypeOK
  <2>4. room' = [room EXCEPT ![s] = [room[s] EXCEPT !.title = "renamed"]]
    BY <1>0, <1>8 DEF UpdateTitle
  <2>5. SameStatus(s) /\ \A t \in Rooms \ {s} : room'[t] = room[t]
    BY <1>1, <2>3, <2>4 DEF TypeOK, RoomRow, SameStatus
  <2>6. Frame(p, s) /\ Rows(s)' = Rows(s) /\ Active(s)' = Active(s)
    BY <1>0, <2>1, <2>2, <2>5 DEF Frame, At, Rows, Active
  <2>7. Outline(p, s)
    BY <2>1, <2>2, <2>5, <2>6 DEF Outline, At, UpdatePhases
  <2>. QED  BY <2>3, <2>7
<1>9. CASE CreateRoomMembers(p)
  <2>1. At(p, "insertMembers") /\ Answer(p) /\ UNCHANGED <<room, interrupted>>
    BY <1>9 DEF CreateRoomMembers
  <2>2. s \in Rooms /\ At(p, "idle")' /\ \A q \in Requests \ {p} : req'[q] = req[q]
    BY <1>1, <2>1, AnswerFrame DEF At
  <2>3. PICK g : g = [u \in Users |-> IF u \in req[p].keep THEN Null ELSE leftAt[s][u]]
    OBVIOUS
  <2>4. leftAt' = [leftAt EXCEPT ![s] = g]
    BY <1>0, <1>9, <2>3 DEF CreateRoomMembers
  <2>5. \A u \in Users : leftAt[s][u] # NoRow => g[u] # NoRow
    BY <2>3, ConstantsAssumption
  <2>6. req'[p].phase \notin UpdatePhases /\ ~At(p, "archive")' /\ ~At(p, "idle")
    BY <2>1, <2>2 DEF At, UpdatePhases
  <2>9. MemberWrite(p, s, g)
    BY <1>0, <1>1, <2>1, <2>2, <2>4, <2>5, <2>6 DEF MemberWrite
  <2>. QED  BY <1>1, <2>1, <2>9, OutlineMembers DEF At
<1>10. CASE InsertMissingMembers(p)
  <2>1. At(p, "rewrite") /\ Answer(p) /\ UNCHANGED <<room, interrupted>>
    BY <1>10 DEF InsertMissingMembers
  <2>2. s \in Rooms /\ At(p, "idle")' /\ \A q \in Requests \ {p} : req'[q] = req[q]
    BY <1>1, <2>1, AnswerFrame DEF At
  <2>3. PICK g : g = IF leftAt' = leftAt THEN leftAt[s] ELSE
          [u \in Users |-> IF u \in req[p].missing THEN Null ELSE leftAt[s][u]]
    OBVIOUS
  <2>4. leftAt' = [leftAt EXCEPT ![s] = g]
    BY <1>0, <1>1, <1>10, <2>2, <2>3 DEF InsertMissingMembers, TypeOK
  <2>5. \A u \in Users : leftAt[s][u] # NoRow => g[u] # NoRow
    BY <2>3, ConstantsAssumption
  <2>6. req'[p].phase \notin UpdatePhases /\ ~At(p, "archive")' /\ ~At(p, "idle")
    BY <2>1, <2>2 DEF At, UpdatePhases
  <2>9. MemberWrite(p, s, g)
    BY <1>0, <1>1, <2>1, <2>2, <2>4, <2>5, <2>6 DEF MemberWrite
  <2>. QED  BY <1>1, <2>1, <2>9, OutlineMembers DEF At
<1>11. CASE RewriteMember(p)
  <2>1. At(p, "rewrite") /\ UNCHANGED <<room, interrupted>>
    BY <1>11 DEF RewriteMember
  <2>2. PICK u \in req[p].todo, v \in Times \cup {Null} :
          /\ leftAt' = [leftAt EXCEPT ![s][u] = v]
          /\ req' = [req EXCEPT ![p].todo = @ \ {u}]
    BY <1>0, <1>11 DEF RewriteMember
  <2>3. s \in Rooms /\ req[p] \in Pending
    BY <1>1, <2>1 DEF At
  <2>4. /\ req'[p].phase = "rewrite" /\ req'[p].room = s
        /\ \A q \in Requests \ {p} : req'[q] = req[q]
    BY <1>0, <1>1, <2>1, <2>2, <2>3 DEF TypeOK, Pending, At
  <2>5. PICK g : g = [leftAt[s] EXCEPT ![u] = v]
    OBVIOUS
  <2>6. leftAt' = [leftAt EXCEPT ![s] = g]
    BY <2>2, <2>5
  <2>7. \A w \in Users : leftAt[s][w] # NoRow => g[w] # NoRow
    BY <1>1, <2>2, <2>3, <2>5, ConstantsAssumption DEF TypeOK
  <2>8. req[p].phase \in UpdatePhases /\ ~At(p, "archive")' /\ ~At(p, "idle")
    BY <2>1, <2>4 DEF At, UpdatePhases
  <2>9. MemberWrite(p, s, g)
    BY <1>0, <1>1, <2>1, <2>3, <2>4, <2>6, <2>7, <2>8 DEF MemberWrite
  <2>. QED  BY <1>1, <2>1, <2>9, OutlineMembers DEF At
<1>12. CASE LeaveAll(p)
  <2>1. At(p, "leaveAll") /\ Goto(p, "archive") /\ UNCHANGED <<room, interrupted>>
    BY <1>12 DEF LeaveAll
  <2>2. /\ s \in Rooms /\ req'[p].phase = "archive" /\ req'[p].room = s
        /\ \A q \in Requests \ {p} : req'[q] = req[q]
    BY <1>0, <1>1, <2>1, GotoFrame DEF At
  <2>3. PICK t \in Times : leftAt' = [leftAt EXCEPT ![s] =
          [u \in Users |-> IF u \in Active(s) THEN t ELSE @[u]]]
    BY <1>0, <1>12 DEF LeaveAll
  <2>4. PICK g : g = [u \in Users |-> IF u \in Active(s) THEN t ELSE leftAt[s][u]]
    OBVIOUS
  <2>5. leftAt' = [leftAt EXCEPT ![s] = g]
    BY <2>3, <2>4
  <2>6. \A u \in Users : g[u] # Null /\ (leftAt[s][u] # NoRow => g[u] # NoRow)
    BY <2>3, <2>4, ConstantsAssumption DEF Active
  <2>7. req'[p].phase \notin UpdatePhases /\ ~At(p, "idle")
    BY <2>1, <2>2 DEF At, UpdatePhases
  <2>9. MemberWrite(p, s, g)
    BY <1>0, <1>1, <2>1, <2>2, <2>5, <2>6, <2>7 DEF MemberWrite
  <2>. QED  BY <1>1, <2>1, <2>9, OutlineMembers DEF At
<1>13. CASE LeaveMember(p)
  <2>1. At(p, "leave") /\ UNCHANGED <<room, interrupted>>
        /\ (Answer(p) \/ Goto(p, "count"))
    BY <1>13 DEF LeaveMember
  <2>2. /\ s \in Rooms /\ req'[p].phase \in {"idle", "count"}
        /\ At(p, "idle")' \/ req'[p].room = s
        /\ \A q \in Requests \ {p} : req'[q] = req[q]
    BY <1>0, <1>1, <2>1, AnswerFrame, GotoFrame DEF At
  <2>3. PICK t \in Times : leftAt' = [leftAt EXCEPT ![s][req[p].user] = t]
    BY <1>0, <1>13 DEF LeaveMember
  <2>4. PICK g : g = [leftAt[s] EXCEPT ![req[p].user] = t]
    OBVIOUS
  <2>5. leftAt' = [leftAt EXCEPT ![s] = g]
    BY <2>3, <2>4
  <2>6. \A u \in Users : /\ leftAt[s][u] # NoRow => g[u] # NoRow
                         /\ g[u] = Null => leftAt[s][u] = Null
    BY <1>1, <2>2, <2>3, <2>4, ConstantsAssumption DEF TypeOK
  <2>7. req'[p].phase \notin UpdatePhases /\ ~At(p, "archive")' /\ ~At(p, "idle")
    BY <2>1, <2>2 DEF At, UpdatePhases
  <2>9. MemberWrite(p, s, g)
    BY <1>0, <1>1, <2>1, <2>2, <2>5, <2>6, <2>7 DEF MemberWrite
  <2>. QED  BY <1>1, <2>1, <2>9, OutlineMembers DEF At
<1>14. CASE ArchiveRoom(p) \/ OrphanRoom(p)
  <2>1. PICK status \in {"archived_by_owner", "orphaned"} :
          /\ room' = [room EXCEPT ![s].status = status, ![s].owner = Null]
          /\ At(p, IF status = "orphaned" THEN "orphan" ELSE "archive")
    BY <1>0, <1>14 DEF ArchiveRoom, OrphanRoom
  <2>2. Answer(p) /\ UNCHANGED <<leftAt, interrupted>>
    BY <1>14 DEF ArchiveRoom, OrphanRoom
  <2>3. ~At(p, "idle") /\ s \in Rooms
    BY <1>1, <2>1 DEF At
  <2>4. At(p, "idle")' /\ \A q \in Requests \ {p} : req'[q] = req[q]
    BY <1>1, <2>2, AnswerFrame DEF At
  <2>5. /\ room'[s].status = status /\ room'[s].type = room[s].type
        /\ \A t \in Rooms \ {s} : room'[t] = room[t]
    <3>1. room[s] \in RoomRow
      BY <1>1, <2>3 DEF TypeOK
    <3>. QED  BY <1>1, <2>1, <2>3, <3>1 DEF TypeOK, RoomRow
  <2>6. Frame(p, s) /\ Rows(s)' = Rows(s) /\ Active(s)' = Active(s)
    BY <1>0, <2>2, <2>4, <2>5 DEF Frame, Rows, Active
  <2>7. Archives(p, s) \/ Orphans(p, s)
    BY <2>1, <2>4, <2>5 DEF Archives, Orphans
  <2>8. Outline(p, s)
    BY <2>4, <2>6, <2>7 DEF Outline, At, UpdatePhases
  <2>. QED  BY <2>3, <2>8
<1>. QED
  BY <1>2, <1>3, <1>4, <1>5, <1>6, <1>7, <1>8, <1>9, <1>10, <1>11, <1>12, <1>13,
     <1>14 DEF Step

-----------------------------------------------------------------------------
(***************************************************************************)
(* The inductive invariant of RoomAccess. Whoever is about to archive a    *)
(* room has emptied it, and nobody is filling it again, unless it is one   *)
(* that was updated and deleted at once; a room once opened has a status   *)
(* for ever.                                                               *)
(***************************************************************************)
ClosedOK(r) ==
  /\ room[r].status = "orphaned" =>
       room[r].type = "private" /\ Rows(r) # {} /\ Active(r) = {}
  /\ room[r].status = "archived_by_owner" =>
       /\ room[r].type = "group" /\ Rows(r) # {}
       /\ r \in overlapped \/ (Active(r) = {} /\ ~Updating(r))

OverlapOK ==
  \A r \in Rooms : Updating(r) /\ Deleting(r) => r \in overlapped

EmptiedOK(q) ==
  At(q, "archive") => Active(req[q].room) = {} \/ req[q].room \in overlapped

CheckOK(u) ==
  access[u].phase = "room" =>
    room[access[u].room].status # "none" /\ access[u].room \in Rooms

AInv ==
  /\ IInv
  /\ AccessTypeOK
  /\ \A r \in Rooms : ClosedOK(r)
  /\ OverlapOK
  /\ \A q \in Requests : EmptiedOK(q)
  /\ \A u \in Readers : CheckOK(u)

LEMMA InitAInv == AccessInit => AInv
<1>. SUFFICES ASSUME AccessInit PROVE AInv
  OBVIOUS
<1>1. IInv /\ Init
  BY InitIInv DEF AccessInit
<1>2. AccessTypeOK
  BY <1>1 DEF AccessInit, AccessTypeOK, IInv
<1>3. \A q \in Requests : req[q].phase = "idle"
  BY <1>1 DEF Init, Idle
<1>4. \A r \in Rooms : room[r].status \in {"active", "none"}
  BY <1>1 DEF Init, PublicRoom, NoRoom
<1>5. \A r \in Rooms : ClosedOK(r)
  BY <1>4 DEF ClosedOK
<1>6. OverlapOK /\ \A q \in Requests : EmptiedOK(q)
  BY <1>3 DEF OverlapOK, EmptiedOK, Updating, UpdatePhases, At
<1>7. \A u \in Readers : CheckOK(u)
  BY DEF AccessInit, CheckOK, NoCheck
<1>. QED  BY <1>1, <1>2, <1>5, <1>6, <1>7 DEF AInv

(* Membership of a room grows only under the hands of an updateRoom, or of *)
(* the createRoom that opens it.                                           *)
LEMMA OnlyUpdatersSeat ==
  ASSUME AInv, NEW p \in Requests, NEW s \in Rooms, Outline(p, s),
         room[s].status # "active" \/ Deleting(s), Rows(s) # {}
  PROVE  Active(s)' \subseteq Active(s) \/ Updating(s)
<1>1. ~At(p, "idle") => req[p].room = s
  BY DEF Outline, Frame
<1>2. ~At(p, "insertMembers")
  BY <1>1 DEF AInv, IInv, SlotOK, OpenerOK, At
<1>3. At(p, "rewrite") => Updating(s)
  BY <1>1 DEF Updating, UpdatePhases, At
<1>. QED  BY <1>2, <1>3 DEF Outline

LEMMA ClosedStep ==
  ASSUME AInv, NEW p \in Requests, NEW s \in Rooms, Outline(p, s),
         overlapped' = overlapped \cup {r \in Rooms : Updating(r)' /\ Deleting(r)'},
         NEW r \in Rooms
  PROVE  ClosedOK(r)'
<1>1. ASSUME NEW t \in Rooms, Updating(t)'
      PROVE  Updating(t) \/ (t = s /\ room[s].status = "active" /\ SameStatus(s))
  <2>1. PICK q \in Requests : req'[q].phase \in UpdatePhases /\ req'[q].room = t
    BY <1>1 DEF Updating
  <2>2. CASE q # p
    BY <2>1, <2>2 DEF Outline, Frame, Updating
  <2>3. CASE q = p
    <3>1. ~At(p, "idle")' /\ s = t
      BY <2>1, <2>3 DEF Outline, Frame, At, UpdatePhases
    <3>2. req[p].phase \in UpdatePhases => req[p].room = t
      BY <3>1 DEF Outline, Frame, At, UpdatePhases
    <3>. QED  BY <2>1, <2>3, <3>1, <3>2 DEF Outline, Updating
  <2>. QED  BY <2>2, <2>3
<1>2. ClosedOK(r)
  BY DEF AInv
<1>3. CASE r # s
  <2>1. room'[r] = room[r] /\ Rows(r)' = Rows(r) /\ Active(r)' = Active(r)
    BY <1>3, UntouchedRows DEF Outline, Frame, Untouched
  <2>. QED  BY <1>1, <1>2, <1>3, <2>1 DEF ClosedOK
<1>4. CASE r = s /\ SameStatus(s)
  <2>1. ASSUME room[s].status = "orphaned" PROVE ~Updating(s)
    BY <1>2, <1>4, <2>1 DEF ClosedOK, Updating, AInv, IInv, SlotOK, UpdaterOK
  <2>2. room[s].status \in {"orphaned", "archived_by_owner"} =>
          Rows(s)' # {} /\ (Active(s)' \subseteq Active(s) \/ Updating(s))
    <3>1. room[s].status \in {"orphaned", "archived_by_owner"} => Rows(s) # {}
      BY <1>2, <1>4 DEF ClosedOK
    <3>. QED  BY <3>1, OnlyUpdatersSeat DEF Outline
  <2>3. room[s].status = "archived_by_owner" /\ Updating(s)' => Updating(s)
    BY <1>1, <1>4
  <2>. QED  BY <1>2, <1>4, <2>1, <2>2, <2>3 DEF ClosedOK, SameStatus
<1>5. CASE r = s /\ Opens(s)
  BY <1>5 DEF Opens, ClosedOK
<1>6. CASE r = s /\ Archives(p, s)
  <2>1. /\ req[p].room = s /\ room[s].type = "group" /\ Rows(s) # {}
        /\ Deleting(s) /\ (Active(s) = {} \/ s \in overlapped)
    <3>1. req[p].room = s /\ SlotOK(p) /\ EmptiedOK(p) /\ At(p, "archive")
      BY <1>6 DEF Archives, Outline, Frame, AInv, IInv, At
    <3>. QED  BY <3>1 DEF SlotOK, DeleterOK, EmptiedOK, Deleting, DeletePhases, At
  <2>2. Updating(s)' => Updating(s)
    BY <1>1, <1>6 DEF Archives, SameStatus
  <2>3. Updating(s) => s \in overlapped
    BY <2>1 DEF AInv, OverlapOK
  <2>4. Rows(s)' # {} /\ (Active(s)' \subseteq Active(s) \/ Updating(s))
    BY <2>1, OnlyUpdatersSeat DEF Outline
  <2>. QED  BY <1>6, <2>1, <2>2, <2>3, <2>4 DEF ClosedOK, Archives
<1>7. CASE r = s /\ Orphans(p, s)
  <2>1. req[p].room = s /\ SlotOK(p) /\ At(p, "orphan")
    BY <1>7 DEF Orphans, Outline, Frame, AInv, IInv, At
  <2>2. room[s].type = "private" /\ Rows(s) # {} /\ Active(s) = {}
    BY <2>1 DEF SlotOK, LeaverOK, LeavePhases, At
  <2>3. Active(s)' = {} /\ Rows(s)' # {}
    BY <2>1, <2>2 DEF Outline, At
  <2>. QED  BY <1>7, <2>2, <2>3 DEF ClosedOK, Orphans
<1>. QED  BY <1>3, <1>4, <1>5, <1>6, <1>7 DEF Outline

LEMMA EmptiedStep ==
  ASSUME AInv, NEW p \in Requests, NEW s \in Rooms, Outline(p, s),
         overlapped \subseteq overlapped', NEW q \in Requests
  PROVE  EmptiedOK(q)'
<1>1. CASE q = p
  BY <1>1 DEF Outline, Frame, EmptiedOK, At
<1>2. CASE q # p /\ At(q, "archive")'
  <2>1. req'[q] = req[q] /\ At(q, "archive") /\ EmptiedOK(q) /\ SlotOK(q) /\ TypeOK
    BY <1>2 DEF Outline, Frame, At, AInv, IInv
  <2>2. PICK r : r = req[q].room
    OBVIOUS
  <2>3. r \in Rooms /\ Deleting(r) /\ Rows(r) # {}
    BY <2>1, <2>2, BusyFields DEF At, Deleting, DeletePhases, SlotOK, DeleterOK
  <2>4. Active(r) = {} \/ r \in overlapped
    BY <2>1, <2>2 DEF EmptiedOK
  <2>5. Active(r)' \subseteq Active(r) \/ r \in overlapped
    <3>1. CASE r # s
      BY <2>3, <3>1, UntouchedRows DEF Outline, Frame, Untouched
    <3>2. CASE r = s
      BY <2>3, <3>2, OnlyUpdatersSeat DEF AInv, OverlapOK
    <3>. QED  BY <3>1, <3>2
  <2>6. r \in overlapped' \/ \A u \in Users : leftAt'[r][u] # Null
    BY <2>4, <2>5 DEF Active
  <2>. QED  BY <2>1, <2>2, <2>6 DEF EmptiedOK, Active
<1>. QED  BY <1>1, <1>2 DEF EmptiedOK

LEMMA RoomStepAInv ==
  ASSUME AInv, RoomStep
  PROVE  AInv'
<1>1. PICK p \in Requests : Step(p)
  BY StepCases DEF RoomStep
<1>2. IInv /\ IInv' /\ TypeOK'
  BY NextIInv DEF AInv, RoomStep, IInv
<1>3. PICK s \in Rooms : Outline(p, s)
  BY <1>1, <1>2, StepOutline
<1>4. /\ overlapped' = overlapped \cup {r \in Rooms : Updating(r)' /\ Deleting(r)'}
      /\ access' = access
  BY DEF RoomStep
<1>5. AccessTypeOK'
  BY <1>2, <1>4 DEF AInv, AccessTypeOK
<1>6. \A r \in Rooms : ClosedOK(r)'
  BY <1>3, <1>4, ClosedStep
<1>7. OverlapOK'
  BY <1>4 DEF OverlapOK
<1>8. \A q \in Requests : EmptiedOK(q)'
  BY <1>3, <1>4, EmptiedStep
<1>9. \A u \in Readers : CheckOK(u)'
  <2>1. \A r \in Rooms : room[r].status # "none" => room'[r].status # "none"
    BY <1>3 DEF Outline, Frame, SameStatus, Opens, Archives, Orphans
  <2>. QED  BY <1>4, <2>1 DEF AInv, CheckOK
<1>. QED  BY <1>2, <1>5, <1>6, <1>7, <1>8, <1>9 DEF AInv

(* Checks leave the rooms alone.                                           *)
LEMMA CheckStepAInv ==
  ASSUME AInv, UNCHANGED <<vars, overlapped>>,
         access' \in [Readers -> {NoCheck} \cup Check],
         \A u \in Readers : access'[u].phase = "room" =>
           /\ access'[u].room \in Rooms
           /\ room[access'[u].room].status # "none"
  PROVE  AInv'
<1>1. UNCHANGED <<room, leftAt, req, interrupted, overlapped>>
  BY DEF vars
<1>2. IInv'
  BY NextIInv DEF AInv
<1>3. AccessTypeOK'
  BY <1>1, <1>2 DEF AInv, AccessTypeOK, IInv
<1>4. \A r : /\ Rows(r)' = Rows(r) /\ Active(r)' = Active(r)
             /\ Updating(r)' = Updating(r) /\ Deleting(r)' = Deleting(r)
  BY <1>1 DEF Rows, Active, Updating, Deleting
<1>5. \A r \in Rooms : ClosedOK(r)'
  BY <1>1, <1>4 DEF AInv, ClosedOK
<1>6. OverlapOK' /\ \A q \in Requests : EmptiedOK(q)'
  BY <1>1, <1>4 DEF AInv, OverlapOK, EmptiedOK, At
<1>7. \A u \in Readers : CheckOK(u)'
  BY <1>1 DEF CheckOK
<1>. QED  BY <1>2, <1>3, <1>5, <1>6, <1>7 DEF AInv

LEMMA AccessNextAInv == AInv /\ [AccessNext]_accessVars => AInv'
<1>. SUFFICES ASSUME AInv, [AccessNext]_accessVars PROVE AInv'
  OBVIOUS
<1>0. /\ access \in [Readers -> {NoCheck} \cup Check]
      /\ room \in [Rooms -> RoomRow]
      /\ \A u \in Readers : CheckOK(u)
  BY DEF AInv, AccessTypeOK, TypeOK
<1>1. CASE RoomStep
  BY <1>1, RoomStepAInv
<1>2. CASE UNCHANGED accessVars
  BY <1>0, <1>2, CheckStepAInv DEF accessVars, CheckOK
<1>3. ASSUME NEW u \in Readers, FindRoom(u) PROVE AInv'
  <2>1. PICK r \in Rooms :
          /\ room[r].status = "active"
          /\ access' = [access EXCEPT ![u] =
               [phase |-> IF room[r].type = "public" THEN "granted" ELSE "room",
                room  |-> r]]
    BY <1>3 DEF FindRoom
  <2>2. access' \in [Readers -> {NoCheck} \cup Check]
    BY <1>0, <2>1 DEF Check
  <2>3. \A v \in Readers : access'[v].phase = "room" =>
          access'[v].room \in Rooms /\ room[access'[v].room].status # "none"
    BY <1>0, <2>1 DEF CheckOK
  <2>. QED  BY <1>3, <2>2, <2>3, CheckStepAInv DEF FindRoom
<1>4. ASSUME NEW u \in Readers, FindMember(u) \/ EndCheck(u) PROVE AInv'
  <2>1. PICK check \in {NoCheck, [access[u] EXCEPT !.phase = "granted"]} :
          /\ access' = [access EXCEPT ![u] = check]
          /\ check # NoCheck => access[u].phase = "room"
    BY <1>4 DEF FindMember, EndCheck
  <2>2. check \in {NoCheck} \cup Check /\ check.phase # "room"
    <3>1. CASE check = NoCheck
      BY <3>1 DEF NoCheck
    <3>2. CASE check # NoCheck
      <4>1. access[u] \in Check
        BY <1>0, <2>1, <3>2 DEF NoCheck
      <4>. QED  BY <2>1, <3>2, <4>1 DEF Check
    <3>. QED  BY <3>1, <3>2
  <2>3. access' \in [Readers -> {NoCheck} \cup Check]
    BY <1>0, <2>1, <2>2
  <2>4. \A v \in Readers : access'[v].phase = "room" =>
          access'[v].room \in Rooms /\ room[access'[v].room].status # "none"
    BY <1>0, <2>1, <2>2 DEF CheckOK
  <2>. QED  BY <1>4, <2>3, <2>4, CheckStepAInv DEF FindMember, EndCheck
<1>. QED  BY <1>1, <1>2, <1>3, <1>4 DEF AccessNext

THEOREM AccessInvariant == AccessSpec => []AInv
  BY InitAInv, AccessNextAInv, PTL DEF AccessSpec

(* An archived group is empty, unless it was being updated while it was    *)
(* being deleted: the promise of the lifecycle policy, and the only way in *)
(* which the service breaks it.                                            *)
THEOREM ArchivedRoomsAreEmpty == AccessSpec => []ArchivedIsEmptyUnlessOverlap
<1>1. AInv => ArchivedIsEmptyUnlessOverlap
  BY DEF AInv, ClosedOK, ArchivedIsEmptyUnlessOverlap
<1>. QED  BY <1>1, AccessInvariant, PTL

(* assertRoomAccess grants only what its two SELECTs, read together at the *)
(* moment of the second, would grant, although rooms are left, emptied and *)
(* closed between them.                                                    *)
THEOREM AccessIsOneCheck == AccessSpec => AccessHeldAtOnce
<1>. DEFINE Admitted ==
       \A u \in Readers :
         Admits(u) => LET r == access'[u].room IN MayEnter(u, r) \/ r \in overlapped
<1>1. AInv /\ [AccessNext]_accessVars => [Admitted]_accessVars
  <2>. SUFFICES ASSUME AInv, [AccessNext]_accessVars, NEW u \in Readers, Admits(u)
                PROVE  MayEnter(u, access'[u].room) \/ access'[u].room \in overlapped
    OBVIOUS
  <2>0. /\ access \in [Readers -> {NoCheck} \cup Check]
        /\ room \in [Rooms -> RoomRow]
    BY DEF AInv, AccessTypeOK, TypeOK
  <2>1. access' # access
    BY DEF Admits
  <2>2. PICK v \in Readers : FindRoom(v) \/ FindMember(v) \/ EndCheck(v)
    BY <2>1 DEF AccessNext, RoomStep, accessVars
  <2>3. CASE FindRoom(v)
    <3>1. PICK r \in Rooms :
            /\ room[r].status = "active"
            /\ access' = [access EXCEPT ![v] =
                 [phase |-> IF room[r].type = "public" THEN "granted" ELSE "room",
                  room  |-> r]]
      BY <2>3 DEF FindRoom
    <3>. QED  BY <2>0, <3>1 DEF Admits, MayEnter
  <2>4. CASE FindMember(v)
    <3>1. /\ access[v].phase = "room"
          /\ access' = [access EXCEPT ![v] =
               IF v \in Active(access[v].room)
                 THEN [access[v] EXCEPT !.phase = "granted"] ELSE NoCheck]
      BY <2>4 DEF FindMember
    <3>2. PICK r \in Rooms : r = access[v].room /\ room[r].status # "none"
      BY <3>1 DEF AInv, CheckOK
    <3>3. u = v /\ u \in Active(r) /\ access'[u].room = r
      <4>1. u = v
        BY <2>0, <3>1 DEF Admits
      <4>2. access[v] \in Check
        BY <2>0, <3>1 DEF NoCheck
      <4>. QED  BY <2>0, <3>1, <3>2, <4>1, <4>2 DEF Admits, NoCheck, Check
    <3>4. room[r].status = "active" \/ r \in overlapped
      <4>1. ClosedOK(r) /\ room[r].status \in {"active", "archived_by_owner", "orphaned"}
        BY <2>0, <3>2 DEF AInv, RoomRow
      <4>. QED  BY <3>3, <4>1 DEF ClosedOK
    <3>. QED  BY <3>3, <3>4 DEF MayEnter
  <2>5. CASE EndCheck(v)
    BY <2>0, <2>5 DEF EndCheck, Admits, NoCheck
  <2>. QED  BY <2>2, <2>3, <2>4, <2>5
<1>. QED  BY <1>1, AccessInvariant, PTL DEF AccessSpec, AccessHeldAtOnce

=============================================================================
