------------------------------ MODULE ChatClient ------------------------------
(***************************************************************************)
(* One group of services/chat as one of its members sees it: the requests  *)
(* of its owner and of the member through ChatSocketController, the        *)
(* channel of the room, the connection of the member's browser, ChatView   *)
(* and the store behind it.                                                *)
(*                                                                         *)
(* A request is served by services/chat in one step (its statements are    *)
(* modules ChatRooms and ChatMessages) and announced by the gateway in a   *)
(* later one. Answers and events reach the browser in the order they were  *)
(* sent; the messages themselves are loaded by HTTP, beside them.          *)
(***************************************************************************)
EXTENDS Naturals, Sequences, FiniteSets, Null

CONSTANTS
  Messages,      \* messages of the room, each sent at most once
  ChatRequests,  \* socket requests at a time: 1..n
  ChatLoads      \* HTTP requests for the messages at a time: 1..n

ServiceOps == {"send", "edit", "delete"}
OwnerOps == {"put", "out", "close"}
MemberOps == {"list", "join", "leave"}

(* result: what listRooms has found; lost: the connection that asked is.   *)
Asking(ops, messages) ==
  [op : ops, m : messages, step : {"asked", "served"}, result : BOOLEAN \cup {None},
   lost : BOOLEAN]

RunningRequests == Asking(ServiceOps, Messages) \cup Asking(OwnerOps \cup MemberOps, {None})

(* Answers and events.                                                     *)
Letters ==
  [kind : ServiceOps, m : Messages, value : BOOLEAN \cup {None}]
  \cup [kind : {"list"}, m : {None}, value : BOOLEAN]
  \cup [kind : {"join", "leave", "close"}, m : {None}, value : BOOLEAN \cup {None}]
  \cup [kind : {"refused", "notSent"}, m : Messages \cup {None}, value : BOOLEAN \cup {None}]

MessageRows == [Messages -> {"none", "new", "edited"}]

RunningChatLoads == [step : {"asked", "read"}, snapshot : MessageRows]

ASSUME ChatAssumption ==
  /\ None \notin Messages \cup RunningRequests \cup RunningChatLoads
  /\ ChatRequests \subseteq Nat /\ ChatLoads \subseteq Nat

VARIABLES
  room,        \* [member, open]: the member's row, the status of the room
  own,         \* the messages the member sends; the owner sends the others
  text,        \* text[m]: of the row of a message
  joined,      \* the member's socket is in the channel of the room
  online,      \* the socket is connected
  chatRequest, \* chatRequest[r] of owner or member, or None
  inbox,       \* answers and events on their way to the browser
  mounted,     \* ChatView is on the screen
  chatView,    \* the store: [listed, active, shown], the room saved, and the message
               \* the view is sending (isSending), or None
  chatLoad,    \* chatLoad[l]: a listMessages in progress, or None
  putOut,      \* history: the owner removed a member whose socket was joined
  strayed,     \* history: a socket joined after its user had left, or was joined when
               \* a leave came that an earlier connection had asked for
  crossed      \* history: what the view shows may be old, see Properties

chatVars == <<own, room, text, joined, online, chatRequest, inbox, mounted, chatView,
              chatLoad, putOut, strayed, crossed>>

Absent == {"none", "deleted"}

(* What listMessages answers: the rooms are smaller than a page.           *)
Snapshot == [m \in Messages |-> IF text[m] \in Absent THEN "none" ELSE text[m]]

Blank == [m \in Messages |-> "none"]

ChatInit ==
  /\ own \in SUBSET Messages
  /\ room = [member |-> TRUE, open |-> TRUE]
  /\ text = [m \in Messages |-> "none"]
  /\ joined = FALSE
  /\ online = TRUE
  /\ chatRequest = [r \in ChatRequests |-> None]
  /\ inbox = <<>>
  /\ mounted = FALSE
  /\ chatView \in [listed : {FALSE}, active : {FALSE}, shown : {Blank},
               sending : {None}, saved : BOOLEAN]
  /\ chatLoad = [l \in ChatLoads |-> None]
  /\ putOut = FALSE /\ strayed = FALSE /\ crossed = FALSE

Mine(op, m) == op \in MemberOps \/ (op \in ServiceOps /\ m \in own)

At(r, step) == chatRequest[r] # None /\ chatRequest[r].step = step

(* Slots are taken in order: which one a request has means nothing.        *)
Ask(r, op, m) ==
  /\ chatRequest[r] = None /\ \A s \in ChatRequests : s < r => chatRequest[s] # None
  /\ chatRequest' = [chatRequest EXCEPT ![r] =
       [op |-> op, m |-> m, step |-> "asked", result |-> None, lost |-> FALSE]]

-----------------------------------------------------------------------------
(* Requests begin                                                          *)

(* The owner, with any client: what the service refuses is refused there.  *)
OwnerAsks(r, op, m) ==
  /\ ~Mine(op, m)
  /\ Ask(r, op, m)
  /\ UNCHANGED <<own, room, text, joined, online, inbox, mounted, chatView, chatLoad,
                 putOut, strayed, crossed>>

(* A message is sent once: no request for it and no answer is under way.   *)
Unsent(m) ==
  /\ \A s \in ChatRequests : chatRequest[s] # None => chatRequest[s].m # m
  /\ \A i \in 1..Len(inbox) : inbox[i].m # m

(* ChatMessageComposer sends one message at a time, to the active room.    *)
SendMessage(r, m) ==
  /\ m \in own /\ mounted /\ online
  /\ chatView.active /\ chatView.sending = None /\ Unsent(m)
  /\ Ask(r, "send", m)
  /\ chatView' = [chatView EXCEPT !.sending = m]
  /\ UNCHANGED <<own, room, text, joined, online, inbox, mounted, chatLoad,
                 putOut, strayed, crossed>>

(* ChatMessagesList offers these for the user's own messages it shows.     *)
ChangeMessage(r, op, m) ==
  /\ op \in {"edit", "delete"} /\ m \in own /\ mounted /\ online
  /\ chatView.active /\ chatView.shown[m] # "none"
  /\ Ask(r, op, m)
  /\ UNCHANGED <<own, room, text, joined, online, inbox, mounted, chatView, chatLoad,
                 putOut, strayed, crossed>>

(* ChatRoomsPanel: refresh, and open or leave a room of the list.          *)
PanelAsks(r, op) ==
  /\ op \in MemberOps /\ mounted /\ online
  /\ op # "list" => chatView.listed
  /\ Ask(r, op, None)
  /\ UNCHANGED <<own, room, text, joined, online, inbox, mounted, chatView, chatLoad,
                 putOut, strayed, crossed>>

(* Another room is opened: its own join has been answered.                 *)
SelectOther ==
  /\ mounted /\ online /\ chatView.active
  /\ chatView' = [chatView EXCEPT !.active = FALSE, !.saved = FALSE]
  /\ UNCHANGED <<own, room, text, joined, online, chatRequest, inbox, mounted, chatLoad,
                 putOut, strayed, crossed>>

-----------------------------------------------------------------------------
(* services/chat                                                           *)

Serve(r, result) ==
  chatRequest' = [chatRequest EXCEPT ![r].step = "served", ![r].result = result]

HasAccess(r) == room.open /\ (room.member \/ ~Mine(chatRequest[r].op, chatRequest[r].m))

Becomes == [send |-> "new", edit |-> "edited", delete |-> "deleted"]

(* sendMessage; updateMessage and deleteMessageFile; deleteMessage. Two    *)
(* requests on one message may be announced in the other order.            *)
ServeMessage(r) ==
  LET q == chatRequest[r] IN
  /\ At(r, "asked") /\ q.op \in ServiceOps
  /\ HasAccess(r)
  /\ IF q.op = "send" THEN text[q.m] = "none" ELSE text[q.m] \notin Absent
  /\ text' = [text EXCEPT ![q.m] = Becomes[q.op]]
  /\ Serve(r, None)
  /\ crossed' = (crossed \/
                   \E s \in ChatRequests : At(s, "served") /\ chatRequest[s].m = q.m)
  /\ UNCHANGED <<own, room, joined, online, inbox, mounted, chatView, chatLoad, putOut,
                 strayed>>

(* updateRoom with or without the member, deleteRoom.                      *)
ServeOwner(r) ==
  LET q == chatRequest[r] IN
  /\ At(r, "asked") /\ q.op \in OwnerOps
  /\ room.open
  /\ room' = [member |-> q.op = "put", open |-> q.op # "close"]
  /\ Serve(r, None)
  /\ putOut' = (putOut \/ (room.member /\ ~room'.member))
  /\ crossed' = (crossed \/ \E s \in ChatRequests \ {r} :
                   chatRequest[s] # None /\ chatRequest[s].op \in MemberOps \cup OwnerOps)
  /\ UNCHANGED <<own, text, joined, online, inbox, mounted, chatView, chatLoad, strayed>>

(* listRooms, assertRoomAccess for join, leaveRoom.                        *)
ServeMember(r) ==
  LET q == chatRequest[r] IN
  /\ At(r, "asked") /\ q.op \in MemberOps
  /\ q.op # "list" => HasAccess(r)
  /\ room' = IF q.op = "leave" THEN [room EXCEPT !.member = FALSE] ELSE room
  /\ Serve(r, IF q.op = "list" THEN room.open /\ room.member ELSE None)
  /\ UNCHANGED <<own, text, joined, online, inbox, mounted, chatView, chatLoad,
                 putOut, strayed, crossed>>

-----------------------------------------------------------------------------
(* The gateway                                                             *)

Answer(r, kind) == [kind |-> kind, m |-> chatRequest[r].m, value |-> chatRequest[r].result]

(* To the member's socket, if it is the one the answer is for, or in the   *)
(* channel an event is for. Otherwise it reaches nobody.                   *)
Deliver(letter, reaches) == inbox' = IF reaches THEN Append(inbox, letter) ELSE inbox

End(r) == chatRequest' = [chatRequest EXCEPT ![r] = None]

(* The event to the others in the channel, the answer to the sender.       *)
AnnounceMessage(r) ==
  LET q == chatRequest[r] IN
  /\ At(r, "served") /\ q.op \in ServiceOps
  /\ Deliver(Answer(r, q.op), IF Mine(q.op, q.m) THEN ~q.lost ELSE joined)
  /\ End(r)
  /\ UNCHANGED <<own, room, text, joined, online, mounted, chatView, chatLoad, putOut,
                 strayed, crossed>>

(* The member stays in the channel. chat:room:updated changes the title.   *)
AnnounceOwner(r) ==
  LET q == chatRequest[r] IN
  /\ At(r, "served") /\ q.op \in OwnerOps
  /\ Deliver(Answer(r, "close"), q.op = "close" /\ joined)
  /\ End(r)
  /\ UNCHANGED <<own, room, text, joined, online, mounted, chatView, chatLoad, putOut,
                 strayed, crossed>>

(* Defect: the socket is not taken out of the channel.                     *)
AnnounceMemberStays(r) ==
  LET q == chatRequest[r]
      joins == ~q.lost /\ (q.op = "join" \/ (q.op = "list" /\ q.result = TRUE))
      stays == joined /\ q.lost /\ q.op = "leave" IN
  /\ At(r, "served") /\ q.op \in MemberOps
  /\ joined' = (joins \/ joined)
  /\ strayed' = (strayed \/ ((joins \/ stays) /\ ~room.member))
  /\ Deliver(Answer(r, q.op), ~q.lost)
  /\ End(r)
  /\ UNCHANGED <<own, room, text, online, mounted, chatView, chatLoad, putOut, crossed>>

(* The socket joins or leaves the channel, then the answer is sent. One    *)
(* that has been closed joins nothing, and only itself leaves.             *)
AnnounceMember(r) ==
  LET q == chatRequest[r]
      joins == ~q.lost /\ (q.op = "join" \/ (q.op = "list" /\ q.result = TRUE))
      stays == joined /\ q.lost /\ q.op = "leave" IN
  /\ At(r, "served") /\ q.op \in MemberOps
  /\ joined' = (joins \/ (joined /\ (q.op # "leave" \/ q.lost)))
  /\ strayed' = (strayed \/ ((joins \/ stays) /\ ~room.member))
  /\ Deliver(Answer(r, q.op), ~q.lost)
  /\ End(r)
  /\ UNCHANGED <<own, room, text, online, mounted, chatView, chatLoad, putOut, crossed>>

(* The service refuses, or cannot be reached: ok is false.                 *)
Refuse(r) ==
  /\ At(r, "asked")
  /\ Deliver(Answer(r, IF chatRequest[r].op = "send" THEN "notSent" ELSE "refused"),
             Mine(chatRequest[r].op, chatRequest[r].m) /\ ~chatRequest[r].lost)
  /\ End(r)
  /\ UNCHANGED <<own, room, text, joined, online, mounted, chatView, chatLoad, putOut,
                 strayed, crossed>>

-----------------------------------------------------------------------------
(* The browser                                                             *)

(* The connection is lost: the channel loses the socket, what was on its   *)
(* way is lost, the promises of emit never settle.                         *)
Drop ==
  /\ online
  /\ online' = FALSE
  /\ joined' = FALSE
  /\ inbox' = <<>>
  /\ chatRequest' = [r \in ChatRequests |->
       IF chatRequest[r] # None /\ Mine(chatRequest[r].op, chatRequest[r].m)
         THEN [chatRequest[r] EXCEPT !.lost = TRUE] ELSE chatRequest[r]]
  /\ crossed' = (crossed \/ chatView.active \/ inbox # <<>> \/ chatRequest' # chatRequest)
  /\ UNCHANGED <<own, room, text, mounted, chatView, chatLoad, putOut, strayed>>

(* socket.io connects again. Nothing joins a channel or loads a message.   *)
Reconnect ==
  /\ ~online
  /\ online' = TRUE
  /\ UNCHANGED <<own, room, text, joined, chatRequest, inbox, mounted, chatView, chatLoad,
                 putOut, strayed, crossed>>

(* onMounted subscribes and loads the rooms; what the store had, it keeps. *)
Mount(r) ==
  /\ ~mounted /\ online
  /\ mounted' = TRUE
  /\ Ask(r, "list", None)
  /\ UNCHANGED <<own, room, text, joined, online, inbox, chatView, chatLoad, putOut, strayed,
                 crossed>>

(* The next view starts with a ref isSending of its own.                   *)
Unmount ==
  /\ mounted
  /\ mounted' = FALSE
  /\ chatView' = [chatView EXCEPT !.sending = None]
  /\ UNCHANGED <<own, room, text, joined, online, chatRequest, inbox, chatLoad, putOut,
                 strayed, crossed>>

(* Something older is on its way and will be shown over this.              *)
OlderLoad(loads, m, value) ==
  \E l \in loads :
    chatLoad[l] # None /\ chatLoad[l].step = "read" /\ chatLoad[l].snapshot[m] # value

(* setActiveRoomUid: if the room changed, the watcher loads the messages.  *)
(* It is stopped with the view and does not run when the next one begins.  *)
Activate(active) ==
  LET opens == active /\ ~chatView.active IN
  /\ crossed' = (crossed \/ (opens /\ ~mounted))
  /\ IF opens /\ mounted
       THEN \E l \in ChatLoads :
              /\ chatLoad[l] = None /\ \A k \in ChatLoads : k < l => chatLoad[k] # None
              /\ chatLoad' = [chatLoad EXCEPT ![l] = [step |-> "asked", snapshot |-> Blank]]
       ELSE UNCHANGED chatLoad

IsEvent(x) == x.kind = "close" \/ (x.kind \in ServiceOps /\ x.m \notin own)

(* addMessage keeps what is there, updateMessage changes and deleteMessage *)
(* removes only what is there.                                             *)
ShownAfter(x) ==
  CASE x.kind = "send" /\ chatView.shown[x.m] = "none" -> "new"
    [] x.kind = "edit" /\ chatView.shown[x.m] # "none" -> "edited"
    [] x.kind = "delete" -> "none"
    [] OTHER -> chatView.shown[x.m]

(* Sent by the view before this one, it is not what this one waits for.    *)
SendingAfter(x) == IF x.m = chatView.sending THEN None ELSE chatView.sending

ReceiveMessage ==
  LET x == Head(inbox) IN
  /\ inbox # <<>> /\ x.kind \in ServiceOps
  /\ mounted \/ ~IsEvent(x)
  /\ inbox' = Tail(inbox)
  /\ chatView' = [chatView EXCEPT !.shown[x.m] = ShownAfter(x),
                          !.sending = IF x.kind = "send" THEN SendingAfter(x) ELSE @]
  /\ crossed' = (crossed \/ OlderLoad(ChatLoads, x.m, ShownAfter(x)))
  /\ UNCHANGED <<own, room, text, joined, online, chatRequest, mounted, chatLoad, putOut,
                 strayed>>

(* The handlers of the view are not there: the event is lost.              *)
MissEvent ==
  /\ inbox # <<>> /\ IsEvent(Head(inbox)) /\ ~mounted
  /\ inbox' = Tail(inbox)
  /\ crossed' = TRUE
  /\ UNCHANGED <<own, room, text, joined, online, chatRequest, mounted, chatView, chatLoad,
                 putOut, strayed>>

ReceiveError ==
  /\ inbox # <<>> /\ Head(inbox).kind \in {"refused", "notSent"}
  /\ inbox' = Tail(inbox)
  /\ chatView' = [chatView EXCEPT
       !.sending = IF Head(inbox).kind = "notSent" THEN SendingAfter(Head(inbox)) ELSE @]
  /\ UNCHANGED <<own, room, text, joined, online, chatRequest, mounted, chatLoad,
                 putOut, strayed, crossed>>

(* removeRoom: the public room becomes the active one.                     *)
ReceiveRemoval ==
  LET x == Head(inbox) IN
  /\ inbox # <<>> /\ x.kind \in {"close", "leave"}
  /\ mounted \/ x.kind = "leave"
  /\ inbox' = Tail(inbox)
  /\ chatView' = [chatView EXCEPT !.listed = FALSE, !.active = FALSE, !.shown = Blank,
                          !.saved = @ /\ ~chatView.active]
  /\ UNCHANGED <<own, room, text, joined, online, chatRequest, mounted, chatLoad,
                 putOut, strayed, crossed>>

(* setRooms and the room opened last, if it is listed, or the public one.  *)
ReceiveList ==
  LET x == Head(inbox)
      active == chatView.saved /\ x.value = TRUE IN
  /\ inbox # <<>> /\ x.kind = "list"
  /\ inbox' = Tail(inbox)
  /\ chatView' = [chatView EXCEPT !.listed = x.value, !.active = active, !.saved = active]
  /\ Activate(active)
  /\ UNCHANGED <<own, room, text, joined, online, chatRequest, mounted, putOut, strayed>>

ReceiveJoin ==
  /\ inbox # <<>> /\ Head(inbox).kind = "join"
  /\ inbox' = Tail(inbox)
  /\ chatView' = [chatView EXCEPT !.active = TRUE, !.saved = TRUE]
  /\ Activate(TRUE)
  /\ UNCHANGED <<own, room, text, joined, online, chatRequest, mounted, putOut, strayed>>

(* GET /chat/messages: access, the rows, the answer.                       *)
ReadMessages(l) ==
  /\ chatLoad[l] # None /\ chatLoad[l].step = "asked"
  /\ room.open /\ room.member
  /\ chatLoad' = [chatLoad EXCEPT ![l] = [step |-> "read", snapshot |-> Snapshot]]
  /\ UNCHANGED <<own, room, text, joined, online, chatRequest, inbox, mounted, chatView,
                 putOut, strayed, crossed>>

(* Defect: the first page is merged into what was shown, like the others.  *)
ShowMessagesMerges(l) ==
  LET new == chatLoad[l].snapshot
      merged == [m \in Messages |-> IF new[m] = "none" THEN chatView.shown[m] ELSE new[m]] IN
  /\ chatLoad[l] # None /\ chatLoad[l].step = "read"
  /\ chatLoad' = [chatLoad EXCEPT ![l] = None]
  /\ chatView' = [chatView EXCEPT !.shown = merged]
  /\ crossed' = (crossed \/ \E m \in Messages : OlderLoad(ChatLoads \ {l}, m, merged[m]))
  /\ UNCHANGED <<own, room, text, joined, online, chatRequest, inbox, mounted, putOut,
                 strayed>>

(* setMessages of the first page replaces what was shown.                  *)
ShowMessages(l) ==
  /\ chatLoad[l] # None /\ chatLoad[l].step = "read"
  /\ chatLoad' = [chatLoad EXCEPT ![l] = None]
  /\ chatView' = [chatView EXCEPT !.shown = chatLoad[l].snapshot]
  /\ crossed' = (crossed \/ \E m \in Messages :
                   OlderLoad(ChatLoads \ {l}, m, chatLoad[l].snapshot[m]))
  /\ UNCHANGED <<own, room, text, joined, online, chatRequest, inbox, mounted, putOut,
                 strayed>>

LoadFails(l) ==
  /\ chatLoad[l] # None
  /\ chatLoad' = [chatLoad EXCEPT ![l] = None]
  /\ crossed' = TRUE
  /\ UNCHANGED <<own, room, text, joined, online, chatRequest, inbox, mounted, chatView,
                 putOut, strayed>>

-----------------------------------------------------------------------------

ChatNext ==
  \/ SelectOther \/ Drop \/ Reconnect \/ Unmount
  \/ ReceiveMessage \/ MissEvent \/ ReceiveError \/ ReceiveRemoval
  \/ ReceiveList \/ ReceiveJoin
  \/ \E l \in ChatLoads : ReadMessages(l) \/ ShowMessages(l) \/ LoadFails(l)
  \/ \E r \in ChatRequests :
       \/ Mount(r)
       \/ \E op \in OwnerOps : OwnerAsks(r, op, None)
       \/ \E op \in ServiceOps, m \in Messages : OwnerAsks(r, op, m) \/ ChangeMessage(r, op, m)
       \/ \E m \in Messages : SendMessage(r, m)
       \/ \E op \in MemberOps : PanelAsks(r, op)
       \/ ServeMessage(r) \/ ServeOwner(r) \/ ServeMember(r)
       \/ AnnounceMessage(r) \/ AnnounceOwner(r) \/ AnnounceMember(r) \/ Refuse(r)

ChatSpec == ChatInit /\ [][ChatNext]_chatVars

-----------------------------------------------------------------------------
(* Properties                                                              *)

(* The kinds of requests, letters and loads there are.                     *)
ChatTypeOK ==
  /\ own \subseteq Messages
  /\ room \in [member : BOOLEAN, open : BOOLEAN]
  /\ text \in [Messages -> {"none", "new", "edited", "deleted"}]
  /\ joined \in BOOLEAN /\ online \in BOOLEAN /\ mounted \in BOOLEAN
  /\ putOut \in BOOLEAN /\ strayed \in BOOLEAN /\ crossed \in BOOLEAN
  /\ chatView \in [listed : BOOLEAN, active : BOOLEAN, sending : Messages \cup {None},
                   saved : BOOLEAN, shown : MessageRows]
  /\ chatRequest \in [ChatRequests -> RunningRequests \cup {None}]
  /\ \A r \in ChatRequests :
       At(r, "served") /\ chatRequest[r].op = "list" => chatRequest[r].result \in BOOLEAN
  /\ inbox \in Seq(Letters)
  /\ chatLoad \in [ChatLoads -> RunningChatLoads \cup {None}]

Quiet ==
  /\ inbox = <<>>
  /\ \A r \in ChatRequests : chatRequest[r] = None
  /\ \A l \in ChatLoads : chatLoad[l] = None

(* When nothing is under way, an open room the socket is joined to shows   *)
(* exactly the messages of the database and lets the member write, and a   *)
(* room that was deleted has gone. crossed names all that can spoil it: a  *)
(* lost connection, events while the view was away or the room opened by   *)
(* an answer then (its messages are never loaded), a failed load or one    *)
(* read before a change and shown after it, overlapping requests on a      *)
(* message or on the room.                                                 *)
ViewCatchesUp ==
  Quiet /\ joined /\ ~crossed =>
    /\ chatView.active /\ room.member => chatView.shown = Snapshot
    /\ ~room.open => ~chatView.listed \/ ~mounted
    /\ chatView.sending = None

(* When nothing is under way, a socket in the channel is that of a member, *)
(* unless the owner put the member out, a join was overtaken by a leave,   *)
(* or the member left by a connection that was lost and had joined again.  *)
ChannelIsMembers == Quiet /\ joined => room.member \/ putOut \/ strayed

=============================================================================
