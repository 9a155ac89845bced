---------------------------- MODULE ClientsProofs ----------------------------
(***************************************************************************)
(* Theorems about the modules that MCClients checks: ChatClient, for all   *)
(* sets of messages, requests and lists being loaded, and any numbers of   *)
(* broadcasts on their way; DocumentEditor, for all sets of documents,     *)
(* loads and saves; and FileViews, for all sets of folders, files and      *)
(* documents, lists being loaded, requests and workers.                    *)
(***************************************************************************)
EXTENDS ChatClient, DocumentEditor, FileViews, FiniteSetTheorems, SequenceTheorems, TLAPS

-----------------------------------------------------------------------------
(* A room in the chat                                                      *)

(* A socket in the channel whose user is no member has a leave to come.    *)
ChannelFollows ==
  joined /\ ~room.member /\ ~putOut /\ ~strayed =>
    \E r \in ChatRequests : At(r, "served") /\ chatRequest[r].op = "leave"

(* What is still to reach the browser of a message.                        *)
InBox(kind, m) == \E i \in DOMAIN inbox : inbox[i].kind = kind /\ inbox[i].m = m

Served(kind, m) ==
  \E r \in ChatRequests : At(r, "served") /\ chatRequest[r].op = kind /\ chatRequest[r].m = m

Coming(kind, m) == InBox(kind, m) \/ Served(kind, m)

(* Nothing comes of a message that has not happened to it.                 *)
LettersTrue ==
  \A m \in Messages :
    /\ text[m] = "none" => ~Coming("send", m)
    /\ text[m] \in {"none", "new"} => ~Coming("edit", m)
    /\ text[m] # "deleted" => ~Coming("delete", m)

(* What comes of a message comes in the order in which it happened.        *)
Service(i) == inbox[i].kind \in ServiceOps

InTurn ==
  /\ \A i, j \in DOMAIN inbox :
       i < j /\ Service(i) /\ Service(j) /\ inbox[i].m = inbox[j].m =>
         inbox[i].kind # "delete" /\ inbox[j].kind # "send"
  /\ \A i \in DOMAIN inbox, r \in ChatRequests :
       Service(i) /\ At(r, "served") /\ chatRequest[r].op \in ServiceOps
       /\ inbox[i].m = chatRequest[r].m =>
         inbox[i].kind # "delete" /\ chatRequest[r].op # "send"
  /\ \A r, s \in ChatRequests :
       At(r, "served") /\ At(s, "served") /\ chatRequest[r].op \in ServiceOps
       /\ chatRequest[s].op \in ServiceOps /\ chatRequest[r].m = chatRequest[s].m => r = s

(* From this, what is still to come leads to what is kept.                 *)
LeadsOn(now, m) ==
  /\ text[m] = "none" => now = "none"
  /\ text[m] = "new" => now = "new" \/ (now = "none" /\ Coming("send", m))
  /\ text[m] = "edited" =>
       \/ now = "edited"
       \/ now = "new" /\ Coming("edit", m)
       \/ now = "none" /\ Coming("send", m) /\ Coming("edit", m)
  /\ text[m] = "deleted" =>
       \/ Coming("delete", m)
       \/ now = "none" /\ \A kind \in ServiceOps : ~Coming(kind, m)

Right(rows) == \A m \in Messages : LeadsOn(rows[m], m)

LoadHas(l, step) == chatLoad[l] # None /\ chatLoad[l].step = step

(* What the view shows is right, or will be overwritten by what is.        *)
Follows ==
  \/ \E l \in ChatLoads : LoadHas(l, "asked")
  \/ \E l \in ChatLoads : LoadHas(l, "read") /\ Right(chatLoad[l].snapshot)
  \/ Right(chatView.shown) /\ \A l \in ChatLoads : chatLoad[l] = None

InView == joined /\ chatView.active /\ \A i \in DOMAIN inbox : inbox[i].kind # "leave"

(* An active room outside the channel is about to go.                      *)
Enters(i) == inbox[i].kind = "join" \/ (inbox[i].kind = "list" /\ inbox[i].value = TRUE)

Later(i, kind) == \E j \in DOMAIN inbox : i < j /\ inbox[j].kind = kind

StaysJoined ==
  ~joined =>
    /\ chatView.active => \E j \in DOMAIN inbox : inbox[j].kind = "leave"
    /\ \A i \in DOMAIN inbox :
         Enters(i) \/ (Service(i) /\ inbox[i].m \notin own) => Later(i, "leave")

(* A deleted message that something is still to come of is about to go.    *)
Ended ==
  /\ \A i \in DOMAIN inbox :
       Service(i) /\ text[inbox[i].m] = "deleted" =>
         Coming("delete", inbox[i].m) \/ Later(i, "leave")
  /\ \A r \in ChatRequests :
       At(r, "served") /\ chatRequest[r].op \in ServiceOps
       /\ text[chatRequest[r].m] = "deleted" => chatRequest[r].op = "delete"

(* A closed room that is listed is about to go, too.                       *)
ClosingAt(r) == At(r, "served") /\ chatRequest[r].op = "close"

Closes ==
  ~room.open =>
    /\ \A r \in ChatRequests : At(r, "served") =>
         /\ chatRequest[r].op # "join"
         /\ chatRequest[r].op = "list" => chatRequest[r].result # TRUE
    /\ joined =>
        \/ \E r \in ChatRequests : ClosingAt(r)
        \/ /\ chatView.listed => \E j \in DOMAIN inbox : inbox[j].kind = "close"
           /\ \A i \in DOMAIN inbox : inbox[i].kind = "list" /\ inbox[i].value = TRUE =>
                Later(i, "close")

(* A message that is being sent will be answered.                          *)
Sending(r) ==
  /\ chatRequest[r] # None /\ chatRequest[r].op = "send"
  /\ chatRequest[r].m \in own /\ chatRequest[r].m = chatView.sending

Sent(i) == inbox[i].kind \in {"send", "notSent"} /\ inbox[i].m = chatView.sending

Sends ==
  chatView.sending # None =>
    (\E r \in ChatRequests : Sending(r)) \/ (\E i \in DOMAIN inbox : Sent(i))

NoneLost == \A r \in ChatRequests : chatRequest[r] # None => ~chatRequest[r].lost

Uncrossed ==
  /\ NoneLost /\ InTurn /\ StaysJoined /\ Ended /\ Closes /\ Sends
  /\ InView => Follows

ChatInv == ChatTypeOK /\ ChannelFollows /\ LettersTrue /\ (~crossed => Uncrossed)

(* A letter is added to the inbox, or the first one taken out.             *)
LEMMA Posted ==
  ASSUME inbox \in Seq(Letters), NEW x \in Letters, inbox' = Append(inbox, x)
  PROVE  \E n \in Nat :
           /\ DOMAIN inbox = 1..n /\ DOMAIN inbox' = 1..(n + 1)
           /\ inbox' \in Seq(Letters) /\ inbox'[n + 1] = x
           /\ \A i \in 1..n : inbox'[i] = inbox[i]
<1>1. Len(inbox) \in Nat /\ DOMAIN inbox = 1..Len(inbox)
  OBVIOUS
<1>2. /\ inbox' \in Seq(Letters) /\ Len(inbox') = Len(inbox) + 1
      /\ inbox'[Len(inbox) + 1] = x /\ \A i \in 1..Len(inbox) : inbox'[i] = inbox[i]
  OBVIOUS
<1>3. DOMAIN inbox' = 1..Len(inbox')
  BY <1>2
<1> QED
  BY <1>1, <1>2, <1>3

LEMMA Received ==
  ASSUME inbox \in Seq(Letters), inbox # <<>>, inbox' = Tail(inbox)
  PROVE  \E n \in Nat :
           /\ DOMAIN inbox = 1..(n + 1) /\ DOMAIN inbox' = 1..n
           /\ inbox' \in Seq(Letters) /\ Head(inbox) = inbox[1] /\ inbox[1] \in Letters
           /\ \A i \in 1..n : inbox'[i] = inbox[i + 1]
<1>1. PICK n \in Nat : Len(inbox) = n + 1
  <2>1. Len(inbox) \in Nat /\ Len(inbox) # 0
    BY EmptySeq
  <2> QED
    BY <2>1
<1>2. DOMAIN inbox = 1..(n + 1) /\ Head(inbox) = inbox[1] /\ inbox[1] \in Letters
  BY <1>1
<1>3. /\ inbox' \in Seq(Letters) /\ Len(inbox') = n /\ \A i \in 1..n : inbox'[i] = inbox[i + 1]
  BY <1>1, HeadTailProperties
<1>4. DOMAIN inbox' = 1..n
  BY <1>3
<1> QED
  BY <1>2, <1>3, <1>4

(* The requests that have been served and not announced stay as they are.  *)
SameServed ==
  \A r \in ChatRequests :
    /\ At(r, "served")' <=> At(r, "served")
    /\ At(r, "served") => chatRequest'[r] = chatRequest[r]

LEMMA SameComing ==
  ASSUME SameServed, inbox' = inbox
  PROVE  \A kind, m : Coming(kind, m)' <=> Coming(kind, m)
<1>1. \A kind, m : InBox(kind, m)' <=> InBox(kind, m)
  BY DEF InBox
<1>2. \A kind, m : Served(kind, m)' <=> Served(kind, m)
  BY DEF SameServed, Served
<1> QED
  BY <1>1, <1>2 DEF Coming

LEMMA SameRight ==
  ASSUME \A kind \in ServiceOps, m \in Messages : Coming(kind, m)' <=> Coming(kind, m),
         text' = text, NEW rows
  PROVE  Right(rows)' <=> Right(rows)
<1>1. {"send", "edit", "delete"} = ServiceOps
  BY DEF ServiceOps
<1>2. ASSUME NEW m \in Messages
      PROVE  LeadsOn(rows[m], m)' <=> LeadsOn(rows[m], m)
  BY <1>1, <1>2 DEF LeadsOn
<1> QED
  BY <1>2 DEF Right

LEMMA NothingMoves ==
  ASSUME ChatInv, ChatTypeOK', SameServed,
         UNCHANGED <<inbox, text, room, joined, own, putOut, strayed>>,
         chatView'.active => chatView.active, chatView'.listed => chatView.listed,
         ~crossed' => ~crossed /\ NoneLost' /\ Sends' /\ (InView' => Follows')
  PROVE  ChatInv'
<1>1. ChannelFollows'
  BY DEF ChatInv, ChannelFollows, SameServed
<1>2. LettersTrue'
  BY SameComing DEF ChatInv, LettersTrue
<1>3. ASSUME ~crossed'
      PROVE  Uncrossed'
  <2>1. Uncrossed
    BY <1>3 DEF ChatInv
  <2>2. InTurn'
    BY <2>1 DEF Uncrossed, InTurn, Service, SameServed
  <2>3. StaysJoined'
    BY <2>1 DEF Uncrossed, StaysJoined, Enters, Later, Service
  <2>5. Ended'
    BY <2>1, SameComing DEF Uncrossed, Ended, Later, Service, SameServed
  <2>4. Closes'
    BY <2>1 DEF Uncrossed, Closes, ClosingAt, Later, SameServed
  <2> QED
    BY <1>3, <2>2, <2>3, <2>4, <2>5 DEF Uncrossed
<1> QED
  BY <1>1, <1>2, <1>3 DEF ChatInv

(* A request begins.                                                       *)
LEMMA Asked ==
  ASSUME ChatTypeOK, NEW r \in ChatRequests, NEW op, NEW m, Ask(r, op, m),
         (op \in ServiceOps /\ m \in Messages) \/ (op \in OwnerOps \cup MemberOps /\ m = None)
  PROVE  /\ chatRequest' \in [ChatRequests -> RunningRequests \cup {None}]
         /\ chatRequest'[r] # None /\ ~chatRequest'[r].lost
         /\ chatRequest'[r].op = op /\ chatRequest'[r].m = m /\ ~At(r, "served")'
         /\ \A s \in ChatRequests : s # r => chatRequest'[s] = chatRequest[s]
         /\ SameServed /\ chatRequest[r] = None
<1>1. PICK q : q = [op |-> op, m |-> m, step |-> "asked", result |-> None, lost |-> FALSE]
  OBVIOUS
<1>2. q \in RunningRequests
  BY <1>1 DEF RunningRequests, Asking
<1>3. chatRequest' = [chatRequest EXCEPT ![r] = q] /\ chatRequest[r] = None
  BY <1>1 DEF Ask
<1>4. /\ chatRequest'[r] = q /\ q # None
      /\ \A s \in ChatRequests : s # r => chatRequest'[s] = chatRequest[s]
  BY <1>2, <1>3, ChatAssumption DEF ChatTypeOK
<1>5. ~q.lost /\ q.op = op /\ q.m = m /\ q.step = "asked"
  BY <1>1
<1>6. ~At(r, "served")'
  BY <1>4, <1>5 DEF At
<1>7. SameServed
  BY <1>3, <1>4, <1>6 DEF SameServed, At
<1> QED
  BY <1>2, <1>3, <1>4, <1>5, <1>6, <1>7 DEF ChatTypeOK

LEMMA AskKeeps ==
  ASSUME ChatInv, NEW r \in ChatRequests, NEW op, NEW m, Ask(r, op, m),
         (op \in ServiceOps /\ m \in Messages) \/ (op \in OwnerOps \cup MemberOps /\ m = None),
         UNCHANGED <<own, room, text, joined, online, inbox, chatLoad, putOut, strayed, crossed>>,
         mounted' \in BOOLEAN,
         \/ chatView' = chatView
         \/ chatView' = [chatView EXCEPT !.sending = m] /\ op = "send" /\ m \in own
  PROVE  ChatInv'
<1>1. /\ chatRequest' \in [ChatRequests -> RunningRequests \cup {None}]
      /\ chatRequest'[r] # None /\ ~chatRequest'[r].lost
      /\ chatRequest'[r].op = op /\ chatRequest'[r].m = m /\ ~At(r, "served")'
      /\ \A s \in ChatRequests : s # r => chatRequest'[s] = chatRequest[s]
      /\ SameServed /\ chatRequest[r] = None
  BY Asked DEF ChatInv
<1>2. /\ chatView' \in [listed : BOOLEAN, active : BOOLEAN, sending : Messages \cup {None},
                        saved : BOOLEAN, shown : MessageRows]
      /\ chatView'.active = chatView.active /\ chatView'.listed = chatView.listed
      /\ chatView'.shown = chatView.shown
      /\ chatView'.sending = chatView.sending \/ Sending(r)'
  BY <1>1 DEF ChatInv, ChatTypeOK, Sending
<1>3. ChatTypeOK'
  <2>1. \A s \in ChatRequests :
          At(s, "served")' /\ chatRequest'[s].op = "list" => chatRequest'[s].result \in BOOLEAN
    BY <1>1 DEF ChatInv, ChatTypeOK, SameServed
  <2> QED
    BY <1>1, <1>2, <2>1 DEF ChatInv, ChatTypeOK
<1>4. ASSUME ~crossed'
      PROVE  /\ ~crossed /\ NoneLost' /\ Sends'
             /\ InView' => Follows'
  <2>1. Uncrossed /\ ~crossed
    BY <1>4 DEF ChatInv
  <2>2. NoneLost'
    BY <1>1, <2>1 DEF Uncrossed, NoneLost
  <2>3. chatView'.sending = chatView.sending => \A s \in ChatRequests : Sending(s) => Sending(s)'
    BY <1>1 DEF Sending
  <2>4. Sends'
    BY <1>2, <2>1, <2>3 DEF Uncrossed, Sends, Sent
  <2>5. InView' => Follows'
    <3>1. InView' <=> InView
      BY <1>2 DEF InView
    <3>2. \A rows : Right(rows)' <=> Right(rows)
      BY <1>1, SameComing, SameRight
    <3> QED
      BY <1>2, <2>1, <3>1, <3>2 DEF Uncrossed, Follows, LoadHas
  <2> QED
    BY <2>1, <2>2, <2>4, <2>5
<1> QED
  BY <1>1, <1>2, <1>3, <1>4, NothingMoves

(* What the member does to the view, and the connection.                   *)
LEMMA ViewKeeps ==
  ASSUME ChatInv, SelectOther \/ Reconnect \/ Unmount
  PROVE  ChatInv'
<1>1. UNCHANGED <<own, room, text, joined, chatRequest, inbox, chatLoad, putOut, strayed, crossed>>
  BY DEF SelectOther, Reconnect, Unmount
<1>2. /\ chatView' \in [listed : BOOLEAN, active : BOOLEAN, sending : Messages \cup {None},
                        saved : BOOLEAN, shown : MessageRows]
      /\ chatView'.active => chatView.active
      /\ chatView'.listed = chatView.listed /\ chatView'.shown = chatView.shown
      /\ chatView'.sending \in {chatView.sending, None}
  BY DEF ChatInv, ChatTypeOK, SelectOther, Reconnect, Unmount
<1>3. ChatTypeOK'
  BY <1>1, <1>2 DEF ChatInv, ChatTypeOK, At, SelectOther, Reconnect, Unmount
<1>4. SameServed
  BY <1>1 DEF SameServed, At
<1>5. ASSUME ~crossed'
      PROVE  ~crossed /\ NoneLost' /\ Sends' /\ (InView' => Follows')
  <2>1. Uncrossed /\ ~crossed
    BY <1>1, <1>5 DEF ChatInv
  <2>2. \A rows : Right(rows)' <=> Right(rows)
    BY <1>1, <1>4, SameComing, SameRight
  <2>3. InView' => InView
    BY <1>1, <1>2 DEF InView
  <2>4. InView' => Follows'
    BY <1>1, <1>2, <2>1, <2>2, <2>3 DEF Uncrossed, Follows, LoadHas
  <2>5. NoneLost' /\ Sends'
    BY <1>1, <1>2, <2>1 DEF Uncrossed, NoneLost, Sends, Sending, Sent
  <2> QED
    BY <2>1, <2>4, <2>5
<1> QED
  BY <1>1, <1>2, <1>3, <1>4, <1>5, NothingMoves

(* A list of messages as it is now is right.                               *)
LEMMA SnapshotRight ==
  ASSUME ChatTypeOK, InView, Ended
  PROVE  Snapshot \in MessageRows /\ Right(Snapshot)
<1>1. Snapshot \in MessageRows
  BY DEF ChatTypeOK, Snapshot, MessageRows, Absent
<1>2. ASSUME NEW m \in Messages
      PROVE  LeadsOn(Snapshot[m], m)
  <2>1. CASE text[m] # "deleted"
    BY <2>1 DEF LeadsOn, ChatTypeOK, Snapshot, Absent
  <2>2. CASE text[m] = "deleted"
    <3>1. Snapshot[m] = "none"
      BY <2>2 DEF Snapshot, Absent
    <3>2. ASSUME NEW kind \in ServiceOps, Coming(kind, m)
          PROVE  Coming("delete", m)
      <4>1. CASE InBox(kind, m)
        BY <2>2, <4>1 DEF InBox, InView, Ended, Later, Service
      <4>2. CASE Served(kind, m)
        BY <2>2, <4>2 DEF Served, Coming, Ended
      <4> QED
        BY <3>2, <4>1, <4>2 DEF Coming
    <3> QED
      BY <2>2, <3>1, <3>2 DEF LeadsOn
  <2> QED
    BY <2>1, <2>2
<1> QED
  BY <1>1, <1>2 DEF Right

(* The messages are read.                                                  *)
LEMMA ReadKeeps ==
  ASSUME ChatInv, NEW l \in ChatLoads, ReadMessages(l)
  PROVE  ChatInv'
<1>1. PICK q : q = [step |-> "read", snapshot |-> Snapshot]
  OBVIOUS
<1>2. /\ chatLoad' = [chatLoad EXCEPT ![l] = q] /\ LoadHas(l, "asked")
      /\ UNCHANGED <<own, room, text, joined, online, chatRequest, inbox, mounted, chatView,
                     putOut, strayed, crossed>>
  BY <1>1 DEF ReadMessages, LoadHas
<1>3. q \in RunningChatLoads
  BY <1>1 DEF ChatInv, ChatTypeOK, RunningChatLoads, Snapshot, MessageRows, Absent
<1>4. ChatTypeOK'
  <2>1. chatLoad' \in [ChatLoads -> RunningChatLoads \cup {None}]
    BY <1>2, <1>3 DEF ChatInv, ChatTypeOK
  <2> QED
    BY <1>2, <2>1 DEF ChatInv, ChatTypeOK, At
<1>5. SameServed
  BY <1>2 DEF SameServed, At
<1>6. ASSUME ~crossed'
      PROVE  ~crossed /\ NoneLost' /\ Sends' /\ (InView' => Follows')
  <2>1. Uncrossed /\ ~crossed
    BY <1>2, <1>6 DEF ChatInv
  <2>2. NoneLost' /\ Sends'
    BY <1>2, <2>1 DEF Uncrossed, NoneLost, Sends, Sending, Sent
  <2>3. ASSUME InView'
        PROVE  Follows'
    <3>1. InView
      BY <1>2, <2>3 DEF InView
    <3>2. Right(Snapshot)
      BY <2>1, <3>1, SnapshotRight DEF ChatInv, Uncrossed
    <3>3. chatLoad'[l] = q /\ q # None
      BY <1>2, <1>3, ChatAssumption DEF ChatInv, ChatTypeOK
    <3>4. PICK rows : rows = Snapshot
      OBVIOUS
    <3>5. LoadHas(l, "read")' /\ chatLoad'[l].snapshot = rows
      BY <1>1, <3>3, <3>4 DEF LoadHas
    <3>6. Right(rows)'
      BY <1>2, <1>5, <3>2, <3>4, SameComing, SameRight
    <3> QED
      BY <3>5, <3>6 DEF Follows
  <2> QED
    BY <2>1, <2>2, <2>3
<1> QED
  BY <1>2, <1>4, <1>5, <1>6, NothingMoves

(* They are shown.                                                         *)
LEMMA ShowKeeps ==
  ASSUME ChatInv, NEW l \in ChatLoads, ShowMessages(l)
  PROVE  ChatInv'
<1>1. PICK rows : rows = chatLoad[l].snapshot
  OBVIOUS
<1>2. /\ chatLoad' = [chatLoad EXCEPT ![l] = None] /\ LoadHas(l, "read")
      /\ chatView' = [chatView EXCEPT !.shown = rows]
      /\ UNCHANGED <<own, room, text, joined, online, chatRequest, inbox, mounted, putOut,
                     strayed>>
      /\ crossed' = (crossed \/ \E m \in Messages : OlderLoad(ChatLoads \ {l}, m, rows[m]))
  BY <1>1 DEF ShowMessages, LoadHas
<1>3. rows \in MessageRows
  BY <1>1, <1>2 DEF LoadHas, ChatInv, ChatTypeOK, RunningChatLoads
<1>4. ChatTypeOK'
  <2>1. chatLoad' \in [ChatLoads -> RunningChatLoads \cup {None}]
    BY <1>2 DEF ChatInv, ChatTypeOK
  <2>2. chatView' \in [listed : BOOLEAN, active : BOOLEAN, sending : Messages \cup {None},
                       saved : BOOLEAN, shown : MessageRows]
    BY <1>2, <1>3 DEF ChatInv, ChatTypeOK
  <2>3. crossed' \in BOOLEAN
    BY <1>2 DEF ChatInv, ChatTypeOK
  <2> QED
    BY <1>2, <2>1, <2>2, <2>3 DEF ChatInv, ChatTypeOK, At
<1>5. /\ chatView'.shown = rows /\ chatView'.active = chatView.active
      /\ chatView'.listed = chatView.listed /\ chatView'.sending = chatView.sending
  BY <1>2 DEF ChatInv, ChatTypeOK
<1>6. SameServed
  BY <1>2 DEF SameServed, At
<1>7. ASSUME ~crossed'
      PROVE  ~crossed /\ NoneLost' /\ Sends' /\ (InView' => Follows')
  <2>1. Uncrossed /\ ~crossed
    BY <1>2, <1>7 DEF ChatInv
  <2>2. NoneLost' /\ Sends'
    BY <1>2, <1>5, <2>1 DEF Uncrossed, NoneLost, Sends, Sending, Sent
  <2>3. \A k \in ChatLoads \ {l} : LoadHas(k, "read") => chatLoad[k].snapshot = rows
    <3>1. ASSUME NEW k \in ChatLoads \ {l}, LoadHas(k, "read")
          PROVE  chatLoad[k].snapshot = rows
      <4>1. \A m \in Messages : chatLoad[k].snapshot[m] = rows[m]
        BY <1>2, <1>7, <3>1 DEF OlderLoad, LoadHas
      <4>2. chatLoad[k].snapshot \in MessageRows
        BY <3>1 DEF LoadHas, ChatInv, ChatTypeOK, RunningChatLoads
      <4> QED
        BY <1>3, <4>1, <4>2 DEF MessageRows
    <3> QED
      BY <3>1
  <2>4. ASSUME InView'
        PROVE  Follows'
    <3>1. Follows
      BY <1>2, <1>5, <2>1, <2>4 DEF InView, Uncrossed
    <3>2. \A some : Right(some)' <=> Right(some)
      BY <1>2, <1>6, SameComing, SameRight
    <3>3. /\ chatLoad'[l] = None
          /\ \A k \in ChatLoads : k # l => chatLoad'[k] = chatLoad[k]
      BY <1>2 DEF ChatInv, ChatTypeOK
    <3>4. CASE \E k \in ChatLoads : LoadHas(k, "asked")
      BY <1>2, <3>3, <3>4 DEF LoadHas, Follows
    <3>5. ASSUME ~(\E k \in ChatLoads : LoadHas(k, "asked"))
          PROVE  Right(rows)
      BY <1>1, <1>2, <2>3, <3>1, <3>5 DEF LoadHas, Follows
    <3>6. CASE \E k \in ChatLoads \ {l} : LoadHas(k, "read")
      BY <2>3, <3>2, <3>3, <3>4, <3>5, <3>6 DEF LoadHas, Follows
    <3>7. CASE /\ ~(\E k \in ChatLoads : LoadHas(k, "asked"))
               /\ ~(\E k \in ChatLoads \ {l} : LoadHas(k, "read"))
      <4>1. \A k \in ChatLoads : chatLoad'[k] = None
        BY <3>3, <3>7 DEF LoadHas, ChatInv, ChatTypeOK, RunningChatLoads
      <4> QED
        BY <1>5, <3>2, <3>5, <3>7, <4>1 DEF Follows
    <3> QED
      BY <3>4, <3>6, <3>7
  <2> QED
    BY <2>1, <2>2, <2>4
<1> QED
  BY <1>2, <1>4, <1>5, <1>6, <1>7, NothingMoves

(* What spoils the view ends what the invariant says of it.                *)
LEMMA SpoiledKeeps ==
  ASSUME ChatInv, (\E l \in ChatLoads : LoadFails(l)) \/ MissEvent
  PROVE  ChatInv'
<1>1. CASE \E l \in ChatLoads : LoadFails(l)
  <2>1. PICK l \in ChatLoads : LoadFails(l)
    BY <1>1
  <2>2. /\ UNCHANGED <<own, room, text, joined, online, chatRequest, inbox, mounted, chatView,
                       putOut, strayed>>
        /\ crossed'
    BY <2>1 DEF LoadFails
  <2>3. chatLoad' \in [ChatLoads -> RunningChatLoads \cup {None}]
    BY <2>1 DEF LoadFails, ChatInv, ChatTypeOK
  <2>4. ChatTypeOK'
    BY <2>1, <2>2, <2>3 DEF ChatInv, ChatTypeOK, At, LoadFails
  <2>5. SameServed
    BY <2>2 DEF SameServed, At
  <2> QED
    BY <2>2, <2>4, <2>5, NothingMoves
<1>2. CASE MissEvent
  <2>1. /\ UNCHANGED <<own, room, text, joined, online, chatRequest, mounted, chatView, chatLoad,
                       putOut, strayed>>
        /\ inbox # <<>> /\ inbox' = Tail(inbox) /\ crossed' /\ crossed' \in BOOLEAN
    BY <1>2 DEF MissEvent
  <2>2. PICK n \in Nat :
          /\ DOMAIN inbox = 1..(n + 1) /\ DOMAIN inbox' = 1..n
          /\ inbox' \in Seq(Letters)
          /\ \A i \in 1..n : inbox'[i] = inbox[i + 1]
    BY <2>1, Received DEF ChatInv, ChatTypeOK
  <2>3. \A kind, m : InBox(kind, m)' => InBox(kind, m)
    BY <2>2 DEF InBox
  <2>4. \A kind, m : Served(kind, m)' <=> Served(kind, m)
    BY <2>1 DEF Served, At
  <2>5. LettersTrue'
    BY <2>1, <2>3, <2>4 DEF ChatInv, LettersTrue, Coming
  <2>6. ChannelFollows'
    BY <2>1 DEF ChatInv, ChannelFollows, At
  <2>7. ChatTypeOK'
    BY <2>1, <2>2 DEF ChatInv, ChatTypeOK, At
  <2> QED
    BY <2>1, <2>5, <2>6, <2>7 DEF ChatInv
<1> QED
  BY <1>1, <1>2

(* A request is served, or has been answered.                              *)
LEMMA Serves ==
  ASSUME ChatTypeOK, NEW r \in ChatRequests, At(r, "asked"),
         NEW result \in BOOLEAN \cup {None}, Serve(r, result),
         chatRequest[r].op = "list" => result \in BOOLEAN
  PROVE  /\ chatRequest' \in [ChatRequests -> RunningRequests \cup {None}]
         /\ \A s \in ChatRequests : At(s, "served")' <=> s = r \/ At(s, "served")
         /\ \A s \in ChatRequests :
              At(s, "served")' /\ chatRequest'[s].op = "list" => chatRequest'[s].result \in BOOLEAN
         /\ chatRequest'[r] # None
         /\ chatRequest'[r].op = chatRequest[r].op /\ chatRequest'[r].m = chatRequest[r].m
         /\ chatRequest'[r].lost = chatRequest[r].lost /\ chatRequest'[r].result = result
         /\ \A s \in ChatRequests : s # r => chatRequest'[s] = chatRequest[s]
<1>1. chatRequest[r] \in RunningRequests /\ chatRequest[r].step = "asked"
  BY DEF At, ChatTypeOK
<1>2. PICK q : q = [chatRequest[r] EXCEPT !.step = "served", !.result = result]
  OBVIOUS
<1>3. /\ q \in RunningRequests /\ q.step = "served" /\ q.result = result
      /\ q.op = chatRequest[r].op /\ q.m = chatRequest[r].m /\ q.lost = chatRequest[r].lost
  BY <1>1, <1>2 DEF RunningRequests, Asking
<1>4. chatRequest' = [chatRequest EXCEPT ![r] = q]
  BY <1>2 DEF Serve, ChatTypeOK
<1>5. /\ chatRequest' \in [ChatRequests -> RunningRequests \cup {None}]
      /\ chatRequest'[r] = q /\ q # None
      /\ \A s \in ChatRequests : s # r => chatRequest'[s] = chatRequest[s]
  BY <1>3, <1>4, ChatAssumption DEF ChatTypeOK
<1>6. \A s \in ChatRequests : At(s, "served")' <=> s = r \/ At(s, "served")
  BY <1>3, <1>5 DEF At
<1>7. \A s \in ChatRequests :
        At(s, "served")' /\ chatRequest'[s].op = "list" => chatRequest'[s].result \in BOOLEAN
  BY <1>3, <1>5, <1>6 DEF ChatTypeOK
<1> QED
  BY <1>3, <1>5, <1>6, <1>7

LEMMA Ends ==
  ASSUME ChatTypeOK, NEW r \in ChatRequests, End(r)
  PROVE  /\ chatRequest' \in [ChatRequests -> RunningRequests \cup {None}]
         /\ \A s \in ChatRequests : At(s, "served")' <=> s # r /\ At(s, "served")
         /\ \A s \in ChatRequests :
              At(s, "served")' /\ chatRequest'[s].op = "list" => chatRequest'[s].result \in BOOLEAN
         /\ chatRequest'[r] = None
         /\ \A s \in ChatRequests : s # r => chatRequest'[s] = chatRequest[s]
<1>1. /\ chatRequest' \in [ChatRequests -> RunningRequests \cup {None}]
      /\ chatRequest'[r] = None
      /\ \A s \in ChatRequests : s # r => chatRequest'[s] = chatRequest[s]
  BY DEF End, ChatTypeOK
<1>2. \A s \in ChatRequests : At(s, "served")' <=> s # r /\ At(s, "served")
  BY <1>1 DEF At
<1>3. \A s \in ChatRequests :
        At(s, "served")' /\ chatRequest'[s].op = "list" => chatRequest'[s].result \in BOOLEAN
  BY <1>1, <1>2 DEF ChatTypeOK
<1> QED
  BY <1>1, <1>2, <1>3

(* The view goes on following when what was right is.                      *)
LEMMA StillFollows ==
  ASSUME Follows, UNCHANGED <<chatLoad, chatView>>, \A rows : Right(rows) => Right(rows)'
  PROVE  Follows'
  BY DEF Follows, LoadHas

(* A message is sent, changed or deleted.                                  *)
LEMMA MessageServed ==
  ASSUME ChatInv, NEW r \in ChatRequests, ServeMessage(r)
  PROVE  ChatInv'
<1>1. PICK op, m : op = chatRequest[r].op /\ m = chatRequest[r].m
  OBVIOUS
<1>2. /\ At(r, "asked") /\ op \in ServiceOps /\ Serve(r, None)
      /\ IF op = "send" THEN text[m] = "none" ELSE text[m] \in {"new", "edited"}
      /\ UNCHANGED <<own, room, joined, online, inbox, mounted, chatView, chatLoad, putOut,
                     strayed>>
      /\ m \in Messages
  <2>1. chatRequest[r] \in RunningRequests /\ op \in ServiceOps
    BY <1>1 DEF ServeMessage, At, ChatInv, ChatTypeOK
  <2>2. m \in Messages
    BY <1>1, <2>1 DEF RunningRequests, Asking, ServiceOps, OwnerOps, MemberOps
  <2>3. text[m] \in {"none", "new", "edited", "deleted"}
    BY <2>2 DEF ChatInv, ChatTypeOK
  <2> QED
    BY <1>1, <2>2, <2>3 DEF ServeMessage, Absent
<1>3. /\ text' = [text EXCEPT ![m] = Becomes[op]]
      /\ crossed' = (crossed \/ \E s \in ChatRequests :
                       At(s, "served") /\ chatRequest[s].m = m)
  BY <1>1 DEF ServeMessage
<1>4. /\ chatRequest' \in [ChatRequests -> RunningRequests \cup {None}]
      /\ \A s \in ChatRequests : At(s, "served")' <=> s = r \/ At(s, "served")
      /\ \A s \in ChatRequests :
           At(s, "served")' /\ chatRequest'[s].op = "list" => chatRequest'[s].result \in BOOLEAN
      /\ chatRequest'[r] # None /\ chatRequest'[r].op = op /\ chatRequest'[r].m = m
      /\ chatRequest'[r].lost = chatRequest[r].lost
      /\ \A s \in ChatRequests : s # r => chatRequest'[s] = chatRequest[s]
  BY <1>1, <1>2, Serves DEF ChatInv, ServiceOps
<1>5. /\ text' \in [Messages -> {"none", "new", "edited", "deleted"}]
      /\ \A k \in Messages : k # m => text'[k] = text[k]
      /\ op = "send" => text[m] = "none" /\ text'[m] = "new"
      /\ op = "edit" => text[m] \in {"new", "edited"} /\ text'[m] = "edited"
      /\ op = "delete" => text[m] \in {"new", "edited"} /\ text'[m] = "deleted"
      /\ op \in {"send", "edit", "delete"}
  BY <1>2, <1>3 DEF ChatInv, ChatTypeOK, Becomes, ServiceOps
<1>6. ChatTypeOK'
  <2>1. crossed' \in BOOLEAN
    BY <1>3 DEF ChatInv, ChatTypeOK
  <2> QED
    BY <1>2, <1>4, <1>5, <2>1 DEF ChatInv, ChatTypeOK
<1>7. \A kind, k : Coming(kind, k)' <=> Coming(kind, k) \/ (kind = op /\ k = m)
  <2>1. \A kind, k : InBox(kind, k)' <=> InBox(kind, k)
    BY <1>2 DEF InBox
  <2>2. \A kind, k : Served(kind, k)' <=> Served(kind, k) \/ (kind = op /\ k = m)
    <3>1. ASSUME NEW kind, NEW k, Served(kind, k)'
          PROVE  Served(kind, k) \/ (kind = op /\ k = m)
      <4>1. PICK s \in ChatRequests :
              At(s, "served")' /\ chatRequest'[s].op = kind /\ chatRequest'[s].m = k
        BY <3>1 DEF Served
      <4> QED
        BY <1>4, <4>1 DEF Served
    <3>2. ASSUME NEW kind, NEW k, Served(kind, k)
          PROVE  Served(kind, k)'
      <4>1. PICK s \in ChatRequests :
              At(s, "served") /\ chatRequest[s].op = kind /\ chatRequest[s].m = k
        BY <3>2 DEF Served
      <4>2. At(s, "served")' /\ chatRequest'[s].op = kind /\ chatRequest'[s].m = k
        BY <1>1, <1>4, <4>1
      <4> QED
        BY <4>2 DEF Served
    <3>3. Served(op, m)'
      BY <1>4 DEF Served
    <3> QED
      BY <3>1, <3>2, <3>3
  <2> QED
    BY <2>1, <2>2 DEF Coming
<1>8. ChannelFollows'
  BY <1>2, <1>4 DEF ChatInv, ChannelFollows, At
<1>9. LettersTrue'
  <2>1. SUFFICES ASSUME NEW k \in Messages
                 PROVE  /\ text'[k] = "none" => ~Coming("send", k)'
                        /\ text'[k] \in {"none", "new"} => ~Coming("edit", k)'
                        /\ text'[k] # "deleted" => ~Coming("delete", k)'
    BY DEF LettersTrue
  <2>2. /\ text[k] = "none" => ~Coming("send", k)
        /\ text[k] \in {"none", "new"} => ~Coming("edit", k)
        /\ text[k] # "deleted" => ~Coming("delete", k)
    BY DEF ChatInv, LettersTrue
  <2>3. CASE k = m
    BY <1>5, <1>7, <2>2, <2>3
  <2>4. CASE k # m
    BY <1>5, <1>7, <2>2, <2>4
  <2> QED
    BY <2>3, <2>4
<1>10. ASSUME ~crossed'
       PROVE  Uncrossed'
  <2>1. Uncrossed /\ ~crossed
    BY <1>3, <1>10 DEF ChatInv
  <2>2. \A s \in ChatRequests : At(s, "served") => chatRequest[s].m # m
    BY <1>3, <1>10
  <2>3. NoneLost'
    BY <1>2, <1>4, <2>1 DEF Uncrossed, NoneLost, At
  <2>4. InTurn'
    <3>1. \A i \in DOMAIN inbox :
            Service(i) /\ inbox[i].m = m => inbox[i].kind # "delete" /\ op # "send"
      <4>1. SUFFICES ASSUME NEW i \in DOMAIN inbox, Service(i), inbox[i].m = m
                     PROVE  inbox[i].kind # "delete" /\ op # "send"
        OBVIOUS
      <4>2. Coming(inbox[i].kind, m) /\ inbox[i].kind \in {"send", "edit", "delete"}
        BY <4>1 DEF Coming, InBox, Service, ServiceOps
      <4> QED
        BY <1>2, <1>5, <4>2 DEF ChatInv, LettersTrue
    <3>2. \A i \in DOMAIN inbox, s \in ChatRequests :
            Service(i)' /\ At(s, "served")' /\ chatRequest'[s].op \in ServiceOps
            /\ inbox'[i].m = chatRequest'[s].m =>
              inbox'[i].kind # "delete" /\ chatRequest'[s].op # "send"
      <4>1. SUFFICES ASSUME NEW i \in DOMAIN inbox, NEW s \in ChatRequests,
                            Service(i)', At(s, "served")', chatRequest'[s].op \in ServiceOps,
                            inbox'[i].m = chatRequest'[s].m
                     PROVE  inbox'[i].kind # "delete" /\ chatRequest'[s].op # "send"
        OBVIOUS
      <4>2. CASE s = r
        BY <1>2, <1>4, <3>1, <4>1, <4>2 DEF Service
      <4>3. CASE s # r
        BY <1>2, <1>4, <2>1, <4>1, <4>3 DEF Service, Uncrossed, InTurn
      <4> QED
        BY <4>2, <4>3
    <3>3. \A s, t \in ChatRequests :
            At(s, "served")' /\ At(t, "served")' /\ chatRequest'[s].op \in ServiceOps
            /\ chatRequest'[t].op \in ServiceOps /\ chatRequest'[s].m = chatRequest'[t].m => s = t
      BY <1>4, <2>1, <2>2 DEF Uncrossed, InTurn
    <3> QED
      BY <1>2, <2>1, <3>2, <3>3 DEF Uncrossed, InTurn, Service
  <2>5. StaysJoined'
    BY <1>2, <2>1 DEF Uncrossed, StaysJoined, Enters, Later, Service
  <2>6. Ended'
    <3>1. \A i \in DOMAIN inbox : Later(i, "leave")' <=> Later(i, "leave")
      BY <1>2 DEF Later
    <3>2. \A i \in DOMAIN inbox :
            Service(i)' /\ text'[inbox'[i].m] = "deleted" =>
              Coming("delete", inbox[i].m)' \/ Later(i, "leave")'
      <4>1. SUFFICES ASSUME NEW i \in DOMAIN inbox, Service(i)',
                            text'[inbox'[i].m] = "deleted"
                     PROVE  Coming("delete", inbox[i].m)' \/ Later(i, "leave")
        BY <3>1
      <4>2. inbox[i] \in Letters /\ inbox[i].kind \in ServiceOps /\ Service(i)
        BY <1>2, <4>1 DEF ChatInv, ChatTypeOK, Service
      <4>3. inbox[i].m \in Messages
        BY <4>2 DEF Letters, ServiceOps
      <4>4. CASE inbox[i].m = m
        BY <1>2, <1>5, <1>7, <4>1, <4>4
      <4>5. CASE inbox[i].m # m
        BY <1>2, <1>5, <1>7, <2>1, <4>1, <4>2, <4>3, <4>5 DEF Uncrossed, Ended
      <4> QED
        BY <4>4, <4>5
    <3>3. \A s \in ChatRequests :
            At(s, "served")' /\ chatRequest'[s].op \in ServiceOps
            /\ text'[chatRequest'[s].m] = "deleted" => chatRequest'[s].op = "delete"
      <4>1. SUFFICES ASSUME NEW s \in ChatRequests,
                            At(s, "served")', chatRequest'[s].op \in ServiceOps,
                            text'[chatRequest'[s].m] = "deleted"
                     PROVE  chatRequest'[s].op = "delete"
        OBVIOUS
      <4>2. CASE s = r
        BY <1>4, <1>5, <4>1, <4>2
      <4>3. CASE s # r
        <5>1. At(s, "served") /\ chatRequest'[s] = chatRequest[s] /\ chatRequest[s].m # m
          BY <1>4, <2>2, <4>1, <4>3
        <5>2. chatRequest[s] \in RunningRequests
          BY <5>1 DEF At, ChatInv, ChatTypeOK
        <5>3. chatRequest[s].m \in Messages
          BY <4>1, <5>1, <5>2 DEF RunningRequests, Asking, ServiceOps, OwnerOps, MemberOps
        <5> QED
          BY <1>5, <2>1, <4>1, <5>1, <5>3 DEF Uncrossed, Ended
      <4> QED
        BY <4>2, <4>3
    <3> QED
      BY <1>2, <3>2, <3>3 DEF Ended
  <2>7. Closes'
    <3>1. \A s \in ChatRequests : ClosingAt(s) => ClosingAt(s)'
      BY <1>2, <1>4 DEF ClosingAt, At
    <3>2. op \notin {"join", "list"}
      BY <1>2 DEF ServiceOps
    <3> QED
      BY <1>2, <1>4, <2>1, <3>1, <3>2 DEF Uncrossed, Closes, Later
  <2>8. Sends'
    <3>1. \A s \in ChatRequests : Sending(s) => Sending(s)'
      BY <1>1, <1>2, <1>4 DEF Sending
    <3> QED
      BY <1>2, <2>1, <3>1 DEF Uncrossed, Sends, Sent
  <2>9. ASSUME InView'
        PROVE  Follows'
    <3>1. Follows
      BY <1>2, <2>1, <2>9 DEF Uncrossed, InView
    <3>2. ASSUME NEW rows, Right(rows)
          PROVE  Right(rows)'
      <4>1. SUFFICES ASSUME NEW k \in Messages
                     PROVE  LeadsOn(rows[k], k)'
        BY DEF Right
      <4>2. LeadsOn(rows[k], k)
        BY <3>2 DEF Right
      <4>3. CASE k # m
        BY <1>5, <1>7, <4>2, <4>3 DEF LeadsOn
      <4>4. CASE k = m
        <5>1. Coming(op, m)' /\ \A kind : Coming(kind, m) => Coming(kind, m)'
          BY <1>7
        <5>2. CASE op = "send"
          BY <1>5, <4>2, <4>4, <5>1, <5>2 DEF LeadsOn
        <5>3. CASE op = "edit"
          BY <1>5, <4>2, <4>4, <5>1, <5>3 DEF LeadsOn
        <5>4. CASE op = "delete"
          BY <1>5, <4>2, <4>4, <5>1, <5>4 DEF LeadsOn
        <5> QED
          BY <1>5, <5>2, <5>3, <5>4
      <4> QED
        BY <4>3, <4>4
    <3> QED
      BY <1>2, <3>1, <3>2, StillFollows
  <2> QED
    BY <2>3, <2>4, <2>5, <2>6, <2>7, <2>8, <2>9 DEF Uncrossed
<1> QED
  BY <1>6, <1>8, <1>9, <1>10 DEF ChatInv

(* The requests about messages that have been served stay as they are.     *)
SameOps ==
  \A r \in ChatRequests :
    /\ At(r, "served")' /\ chatRequest'[r].op \in ServiceOps
       <=> At(r, "served") /\ chatRequest[r].op \in ServiceOps
    /\ At(r, "served") /\ chatRequest[r].op \in ServiceOps => chatRequest'[r] = chatRequest[r]

(* An answer or an event that is not about a message.                      *)
LEMMA OtherLetter ==
  ASSUME ChatInv, SameOps, text' = text,
         \/ inbox' = inbox
         \/ \E x \in Letters : x.kind \notin ServiceOps /\ inbox' = Append(inbox, x)
  PROVE  /\ inbox' \in Seq(Letters)
         /\ \A i \in DOMAIN inbox : i \in DOMAIN inbox' /\ inbox'[i] = inbox[i]
         /\ \A i \in DOMAIN inbox : \A kind : Later(i, kind) => Later(i, kind)'
         /\ \A i \in DOMAIN inbox' : Service(i)' => i \in DOMAIN inbox
         /\ LettersTrue' /\ (InTurn => InTurn') /\ (Ended => Ended')
         /\ \A rows : Right(rows)' <=> Right(rows)
<1>1. /\ inbox' \in Seq(Letters)
      /\ \A i \in DOMAIN inbox : i \in DOMAIN inbox' /\ inbox'[i] = inbox[i]
      /\ \A i \in DOMAIN inbox' : Service(i)' => i \in DOMAIN inbox
  <2>1. CASE inbox' = inbox
    BY <2>1 DEF ChatInv, ChatTypeOK
  <2>2. CASE inbox' # inbox
    <3>1. PICK x \in Letters : x.kind \notin ServiceOps /\ inbox' = Append(inbox, x)
      BY <2>2
    <3>2. PICK n \in Nat :
            /\ DOMAIN inbox = 1..n /\ DOMAIN inbox' = 1..(n + 1)
            /\ inbox' \in Seq(Letters) /\ inbox'[n + 1] = x
            /\ \A i \in 1..n : inbox'[i] = inbox[i]
      BY <3>1, Posted DEF ChatInv, ChatTypeOK
    <3> QED
      BY <3>1, <3>2 DEF Service
  <2> QED
    BY <2>1, <2>2
<1>2. \A i \in DOMAIN inbox : \A kind : Later(i, kind) => Later(i, kind)'
  BY <1>1 DEF Later
<1>3. \A kind \in ServiceOps : \A m : Coming(kind, m)' <=> Coming(kind, m)
  <2>1. \A kind \in ServiceOps : \A m : InBox(kind, m)' <=> InBox(kind, m)
    BY <1>1 DEF InBox, Service
  <2>2. \A kind \in ServiceOps : \A m : Served(kind, m)' <=> Served(kind, m)
    BY DEF SameOps, Served
  <2> QED
    BY <2>1, <2>2 DEF Coming
<1>4. LettersTrue'
  BY <1>3 DEF ChatInv, LettersTrue, ServiceOps
<1>5. \A rows : Right(rows)' <=> Right(rows)
  BY <1>3, SameRight
<1>6. InTurn => InTurn'
  BY <1>1 DEF InTurn, Service, SameOps
<1>7. Ended => Ended'
  <2>1. SUFFICES ASSUME Ended
                 PROVE  Ended'
    OBVIOUS
  <2>2. ASSUME NEW i \in DOMAIN inbox', Service(i)', NEW m, m = inbox'[i].m,
               text'[m] = "deleted"
        PROVE  Coming("delete", m)' \/ Later(i, "leave")'
    <3>1. i \in DOMAIN inbox /\ inbox'[i] = inbox[i] /\ Service(i)
      BY <1>1, <2>2 DEF Service
    <3>2. Coming("delete", m) \/ Later(i, "leave")
      BY <2>1, <2>2, <3>1 DEF Ended
    <3>3. Coming("delete", m) => Coming("delete", m)'
      BY <1>3 DEF ServiceOps
    <3> QED
      BY <1>2, <3>1, <3>2, <3>3
  <2>3. ASSUME NEW r \in ChatRequests, At(r, "served")', chatRequest'[r].op \in ServiceOps,
               text'[chatRequest'[r].m] = "deleted"
        PROVE  chatRequest'[r].op = "delete"
    BY <2>1, <2>3 DEF Ended, SameOps
  <2> QED
    BY <2>2, <2>3 DEF Ended
<1> QED
  BY <1>1, <1>2, <1>4, <1>5, <1>6, <1>7

(* The room changes, or the member leaves, joins or lists.                 *)
LEMMA RoomServed ==
  ASSUME ChatInv, NEW r \in ChatRequests, ServeOwner(r) \/ ServeMember(r)
  PROVE  ChatInv'
<1>1. PICK op : op = chatRequest[r].op
  OBVIOUS
<1>2. PICK result \in BOOLEAN \cup {None} :
        /\ Serve(r, result) /\ (op = "list" => result = (room.open /\ room.member))
  <2>1. CASE ServeOwner(r)
    BY <1>1, <2>1 DEF ServeOwner, OwnerOps
  <2>2. CASE ServeMember(r)
    BY <1>1, <2>2 DEF ServeMember, ChatInv, ChatTypeOK
  <2> QED
    BY <2>1, <2>2
<1>3. /\ At(r, "asked") /\ op \in OwnerOps \cup MemberOps /\ op \notin ServiceOps
      /\ UNCHANGED <<own, text, joined, online, inbox, mounted, chatView, chatLoad, strayed>>
  BY <1>1 DEF ServeOwner, ServeMember, ServiceOps, OwnerOps, MemberOps
<1>4. /\ chatRequest' \in [ChatRequests -> RunningRequests \cup {None}]
      /\ \A s \in ChatRequests : At(s, "served")' <=> s = r \/ At(s, "served")
      /\ \A s \in ChatRequests :
           At(s, "served")' /\ chatRequest'[s].op = "list" => chatRequest'[s].result \in BOOLEAN
      /\ chatRequest'[r] # None /\ chatRequest'[r].op = op
      /\ chatRequest'[r].m = chatRequest[r].m
      /\ chatRequest'[r].lost = chatRequest[r].lost /\ chatRequest'[r].result = result
      /\ \A s \in ChatRequests : s # r => chatRequest'[s] = chatRequest[s]
  <2>1. op = "list" => result \in BOOLEAN
    BY <1>2 DEF ChatInv, ChatTypeOK
  <2> QED
    BY <1>1, <1>2, <1>3, <2>1, Serves DEF ChatInv
<1>5. room' \in [member : BOOLEAN, open : BOOLEAN] /\ putOut' \in BOOLEAN /\ crossed' \in BOOLEAN
  <2>1. CASE ServeOwner(r)
    BY <2>1 DEF ServeOwner, ChatInv, ChatTypeOK
  <2>2. CASE ServeMember(r)
    BY <2>2 DEF ServeMember, ChatInv, ChatTypeOK
  <2> QED
    BY <2>1, <2>2
<1>6. ChatTypeOK'
  BY <1>3, <1>4, <1>5 DEF ChatInv, ChatTypeOK
<1>7. SameOps
  <2>1. ~At(r, "served")
    BY <1>3 DEF At
  <2> QED
    BY <1>3, <1>4, <2>1 DEF SameOps
<1>8. /\ LettersTrue' /\ (InTurn => InTurn') /\ (Ended => Ended')
      /\ \A rows : Right(rows)' <=> Right(rows)
  BY <1>3, <1>7, OtherLetter
<1>9. ChannelFollows'
  <2>1. CASE ServeOwner(r)
    <3>1. putOut' = (putOut \/ (room.member /\ ~room'.member))
      BY <2>1 DEF ServeOwner
    <3> QED
      BY <1>3, <1>4, <3>1 DEF ChatInv, ChannelFollows, At
  <2>2. CASE ServeMember(r)
    <3>1. CASE op = "leave"
      BY <1>4, <3>1 DEF ChannelFollows
    <3>2. CASE op # "leave"
      <4>1. room' = room /\ putOut' = putOut
        BY <1>1, <2>2, <3>2 DEF ServeMember
      <4> QED
        BY <1>3, <1>4, <4>1 DEF ChatInv, ChannelFollows, At
    <3> QED
      BY <3>1, <3>2
  <2> QED
    BY <2>1, <2>2
<1>10. ASSUME ~crossed'
       PROVE  Uncrossed'
  <2>1. Uncrossed /\ ~crossed
    <3>1. crossed => crossed'
      BY DEF ServeOwner, ServeMember
    <3> QED
      BY <1>10, <3>1 DEF ChatInv
  <2>2. NoneLost'
    BY <1>3, <1>4, <2>1 DEF Uncrossed, NoneLost, At
  <2>3. StaysJoined'
    BY <1>3, <2>1 DEF Uncrossed, StaysJoined, Enters, Later, Service
  <2>4. Closes'
    <3>1. CASE ServeOwner(r)
      <4>1. /\ room' = [member |-> op = "put", open |-> op # "close"]
            /\ crossed' = (crossed \/ \E s \in ChatRequests \ {r} :
                   chatRequest[s] # None /\ chatRequest[s].op \in MemberOps \cup OwnerOps)
        BY <1>1, <3>1 DEF ServeOwner
      <4>2. CASE op # "close"
        BY <4>1, <4>2 DEF Closes
      <4>3. CASE op = "close"
        <5>1. ClosingAt(r)'
          BY <1>4, <4>3 DEF ClosingAt
        <5>2. ASSUME NEW s \in ChatRequests, At(s, "served")'
              PROVE  chatRequest'[s].op \notin {"join", "list"}
          <6>1. CASE s = r
            BY <1>4, <4>3, <6>1
          <6>2. CASE s # r
            <7>1. chatRequest[s] # None /\ chatRequest'[s] = chatRequest[s]
              BY <1>4, <5>2, <6>2 DEF At
            <7> QED
              BY <1>10, <4>1, <6>2, <7>1 DEF MemberOps
          <6> QED
            BY <6>1, <6>2
        <5> QED
          BY <5>1, <5>2 DEF Closes
      <4> QED
        BY <4>2, <4>3
    <3>2. CASE ServeMember(r)
      <4>1. room'.open = room.open /\ (op # "list" => room.open)
        BY <1>1, <3>2 DEF ServeMember, HasAccess, ChatInv, ChatTypeOK
      <4>2. SUFFICES ASSUME ~room.open
                     PROVE  Closes'
        BY <4>1 DEF Closes
      <4>3. op = "list" /\ result # TRUE
        BY <1>2, <4>1, <4>2
      <4>4. \A s \in ChatRequests : ClosingAt(s) => ClosingAt(s)'
        BY <1>3, <1>4 DEF ClosingAt, At
      <4>5. \A s \in ChatRequests : At(s, "served")' =>
              /\ chatRequest'[s].op # "join"
              /\ chatRequest'[s].op = "list" => chatRequest'[s].result # TRUE
        BY <1>4, <2>1, <4>2, <4>3 DEF Uncrossed, Closes
      <4> QED
        BY <1>3, <2>1, <4>2, <4>4, <4>5 DEF Uncrossed, Closes, Later
    <3> QED
      BY <3>1, <3>2
  <2>5. Sends'
    <3>1. \A s \in ChatRequests : Sending(s) => Sending(s)'
      BY <1>1, <1>3, <1>4 DEF Sending
    <3> QED
      BY <1>3, <2>1, <3>1 DEF Uncrossed, Sends, Sent
  <2>6. InView' => Follows'
    <3>1. InView' => InView
      BY <1>3 DEF InView
    <3> QED
      BY <1>3, <1>8, <2>1, <3>1, StillFollows DEF Uncrossed
  <2> QED
    BY <1>8, <2>1, <2>2, <2>3, <2>4, <2>5, <2>6 DEF Uncrossed
<1> QED
  BY <1>6, <1>8, <1>9, <1>10 DEF ChatInv

LEMMA Grown ==
  ASSUME inbox \in Seq(Letters), NEW x \in Letters, inbox' = inbox \/ inbox' = Append(inbox, x)
  PROVE  /\ inbox' \in Seq(Letters)
         /\ \A i \in DOMAIN inbox : i \in DOMAIN inbox' /\ inbox'[i] = inbox[i]
         /\ \A i \in DOMAIN inbox' : i \in DOMAIN inbox \/ inbox'[i] = x
         /\ inbox' = Append(inbox, x) =>
              \E i \in DOMAIN inbox' : inbox'[i] = x /\ \A j \in DOMAIN inbox : j < i
         /\ \A i \in DOMAIN inbox : \A kind : Later(i, kind) => Later(i, kind)'
<1>1. CASE inbox' = Append(inbox, x)
  <2>1. PICK n \in Nat :
          /\ DOMAIN inbox = 1..n /\ DOMAIN inbox' = 1..(n + 1)
          /\ inbox' \in Seq(Letters) /\ inbox'[n + 1] = x
          /\ \A i \in 1..n : inbox'[i] = inbox[i]
    BY <1>1, Posted
  <2>2. n + 1 \in DOMAIN inbox' /\ \A j \in DOMAIN inbox : j < n + 1
    BY <2>1
  <2> QED
    BY <2>1, <2>2 DEF Later
<1>2. CASE inbox' # Append(inbox, x)
  BY <1>2 DEF Later
<1> QED
  BY <1>1, <1>2

(* A request that is not about a message is answered.                      *)
LEMMA Announced ==
  ASSUME ChatInv, NEW r \in ChatRequests, chatRequest[r] # None, End(r),
         At(r, "served") => chatRequest[r].op \notin ServiceOps,
         NEW x \in Letters, x.kind \notin ServiceOps, inbox' = inbox \/ inbox' = Append(inbox, x),
         UNCHANGED <<own, room, text, online, mounted, chatView, chatLoad, putOut, crossed>>,
         joined' \in BOOLEAN, strayed' \in BOOLEAN, ChannelFollows',
         ~crossed /\ Uncrossed => StaysJoined' /\ Closes' /\ Sends'
  PROVE  ChatInv'
<1>1. /\ chatRequest' \in [ChatRequests -> RunningRequests \cup {None}]
      /\ \A s \in ChatRequests : At(s, "served")' <=> s # r /\ At(s, "served")
      /\ \A s \in ChatRequests :
           At(s, "served")' /\ chatRequest'[s].op = "list" => chatRequest'[s].result \in BOOLEAN
      /\ chatRequest'[r] = None
      /\ \A s \in ChatRequests : s # r => chatRequest'[s] = chatRequest[s]
  BY Ends DEF ChatInv
<1>2. SameOps
  BY <1>1 DEF SameOps
<1>3. /\ inbox' \in Seq(Letters)
      /\ \A i \in DOMAIN inbox : i \in DOMAIN inbox' /\ inbox'[i] = inbox[i]
      /\ LettersTrue' /\ (InTurn => InTurn') /\ (Ended => Ended')
      /\ \A rows : Right(rows)' <=> Right(rows)
  BY <1>2, OtherLetter
<1>4. ChatTypeOK'
  BY <1>1, <1>3 DEF ChatInv, ChatTypeOK
<1>5. ASSUME ~crossed'
      PROVE  Uncrossed'
  <2>1. Uncrossed /\ ~crossed
    BY <1>5 DEF ChatInv
  <2>2. NoneLost'
    BY <1>1, <2>1 DEF Uncrossed, NoneLost
  <2>3. InView' => InView
    BY <1>3, <2>1 DEF InView, Uncrossed, StaysJoined
  <2>4. InView' => Follows'
    BY <1>3, <2>1, <2>3, StillFollows DEF Uncrossed
  <2> QED
    BY <1>3, <2>1, <2>2, <2>4 DEF Uncrossed
<1> QED
  BY <1>3, <1>4, <1>5 DEF ChatInv

LEMMA OwnerAnnounced ==
  ASSUME ChatInv, NEW r \in ChatRequests, AnnounceOwner(r)
  PROVE  ChatInv'
<1>1. PICK x : x = Answer(r, "close")
  OBVIOUS
<1>2. /\ At(r, "served") /\ chatRequest[r] # None /\ chatRequest[r].op \in OwnerOps
      /\ chatRequest[r].op \notin ServiceOps \cup MemberOps /\ End(r)
      /\ UNCHANGED <<own, room, text, joined, online, mounted, chatView, chatLoad, putOut,
                     strayed, crossed>>
      /\ inbox' = IF chatRequest[r].op = "close" /\ joined THEN Append(inbox, x) ELSE inbox
  BY <1>1 DEF AnnounceOwner, Deliver, At, ServiceOps, MemberOps, OwnerOps
<1>3. x \in Letters /\ x.kind = "close"
  <2>1. chatRequest[r] \in RunningRequests
    BY <1>2 DEF ChatInv, ChatTypeOK
  <2>2. chatRequest[r].m = None /\ chatRequest[r].result \in BOOLEAN \cup {None}
    BY <1>2, <2>1 DEF RunningRequests, Asking
  <2> QED
    BY <1>1, <2>2 DEF Answer, Letters
<1>4. /\ \A s \in ChatRequests : At(s, "served")' <=> s # r /\ At(s, "served")
      /\ \A s \in ChatRequests : s # r => chatRequest'[s] = chatRequest[s]
  BY <1>2, Ends DEF ChatInv
<1>5. /\ \A i \in DOMAIN inbox : i \in DOMAIN inbox' /\ inbox'[i] = inbox[i]
      /\ \A i \in DOMAIN inbox' : i \in DOMAIN inbox \/ inbox'[i] = x
      /\ inbox' = Append(inbox, x) =>
           \E i \in DOMAIN inbox' : inbox'[i] = x /\ \A j \in DOMAIN inbox : j < i
      /\ \A i \in DOMAIN inbox : \A kind : Later(i, kind) => Later(i, kind)'
  BY <1>2, <1>3, Grown DEF ChatInv, ChatTypeOK
<1>6. ChannelFollows'
  BY <1>2, <1>4 DEF ChatInv, ChannelFollows, MemberOps
<1>7. ASSUME Uncrossed, ~crossed
      PROVE  StaysJoined' /\ Closes' /\ Sends'
  <2>1. StaysJoined'
    BY <1>2, <1>3, <1>5, <1>7 DEF Uncrossed, StaysJoined, Enters, Service, ServiceOps
  <2>2. Closes'
    <3>1. SUFFICES ASSUME ~room.open
                   PROVE  Closes'
      BY <1>2 DEF Closes
    <3>2. \A s \in ChatRequests : At(s, "served")' =>
            /\ chatRequest'[s].op # "join"
            /\ chatRequest'[s].op = "list" => chatRequest'[s].result # TRUE
      BY <1>4, <1>7, <3>1 DEF Uncrossed, Closes
    <3>3. CASE ~joined
      BY <1>2, <3>2, <3>3 DEF Closes
    <3>4. CASE \E s \in ChatRequests \ {r} : ClosingAt(s)
      <4>1. \A s \in ChatRequests \ {r} : ClosingAt(s) => ClosingAt(s)'
        BY <1>4 DEF ClosingAt
      <4> QED
        BY <3>2, <3>4, <4>1 DEF Closes
    <3>5. CASE joined /\ ClosingAt(r)
      <4>1. PICK j \in DOMAIN inbox' : inbox'[j] = x /\ \A i \in DOMAIN inbox : i < j
        BY <1>2, <1>5, <3>5 DEF ClosingAt
      <4>2. \A i \in DOMAIN inbox : Later(i, "close")'
        BY <1>3, <4>1 DEF Later
      <4> QED
        BY <1>3, <1>5, <3>2, <4>1, <4>2 DEF Closes
    <3>6. CASE joined /\ ~(\E s \in ChatRequests : ClosingAt(s))
      BY <1>2, <1>3, <1>5, <1>7, <3>1, <3>2, <3>6 DEF Uncrossed, Closes
    <3> QED
      BY <3>3, <3>4, <3>5, <3>6
  <2>3. Sends'
    <3>1. \A s \in ChatRequests : Sending(s) => Sending(s)'
      BY <1>2, <1>4 DEF Sending, ServiceOps
    <3>2. \A i \in DOMAIN inbox : Sent(i) => Sent(i)'
      BY <1>2, <1>5 DEF Sent
    <3> QED
      BY <1>2, <1>5, <1>7, <3>1, <3>2 DEF Uncrossed, Sends
  <2> QED
    BY <2>1, <2>2, <2>3
<1>8. joined' \in BOOLEAN /\ strayed' \in BOOLEAN /\ x.kind \notin ServiceOps
  BY <1>2, <1>3 DEF ChatInv, ChatTypeOK, ServiceOps
<1> QED
  BY <1>2, <1>3, <1>6, <1>7, <1>8, Announced

LEMMA MemberAnnounced ==
  ASSUME ChatInv, NEW r \in ChatRequests, AnnounceMember(r)
  PROVE  ChatInv'
<1>1. PICK x, op, result, lost :
        /\ x = Answer(r, chatRequest[r].op) /\ op = chatRequest[r].op
        /\ result = chatRequest[r].result /\ lost = chatRequest[r].lost
  OBVIOUS
<1>2. PICK joins : joins = (~lost /\ (op = "join" \/ (op = "list" /\ result = TRUE)))
  OBVIOUS
<1>3. /\ At(r, "served") /\ chatRequest[r] # None /\ op \in MemberOps
      /\ op \notin ServiceOps \cup OwnerOps /\ End(r)
      /\ UNCHANGED <<own, room, text, online, mounted, chatView, chatLoad, putOut, crossed>>
      /\ inbox' = IF ~lost THEN Append(inbox, x) ELSE inbox
      /\ joined' = (joins \/ (joined /\ (op # "leave" \/ lost)))
      /\ strayed' = (strayed \/ ((joins \/ (joined /\ lost /\ op = "leave")) /\ ~room.member))
  BY <1>1, <1>2 DEF AnnounceMember, Deliver, At, ServiceOps, MemberOps, OwnerOps
<1>4. x \in Letters /\ x.kind = op /\ x.value = result /\ lost \in BOOLEAN
  <2>1. chatRequest[r] \in RunningRequests
    BY <1>3 DEF ChatInv, ChatTypeOK
  <2>2. chatRequest[r].m = None /\ result \in BOOLEAN \cup {None} /\ lost \in BOOLEAN
    BY <1>1, <1>3, <2>1 DEF RunningRequests, Asking
  <2>3. op = "list" => result \in BOOLEAN
    BY <1>1, <1>3 DEF ChatInv, ChatTypeOK
  <2>4. x = [kind |-> op, m |-> None, value |-> result]
    BY <1>1, <2>2 DEF Answer
  <2> QED
    BY <1>3, <2>2, <2>3, <2>4 DEF Letters, MemberOps
<1>5. /\ \A s \in ChatRequests : At(s, "served")' <=> s # r /\ At(s, "served")
      /\ \A s \in ChatRequests : s # r => chatRequest'[s] = chatRequest[s]
  BY <1>3, Ends DEF ChatInv
<1>6. /\ \A i \in DOMAIN inbox : i \in DOMAIN inbox' /\ inbox'[i] = inbox[i]
      /\ \A i \in DOMAIN inbox' : i \in DOMAIN inbox \/ inbox'[i] = x
      /\ inbox' = Append(inbox, x) =>
           \E i \in DOMAIN inbox' : inbox'[i] = x /\ \A j \in DOMAIN inbox : j < i
      /\ \A i \in DOMAIN inbox : \A kind : Later(i, kind) => Later(i, kind)'
  BY <1>3, <1>4, Grown DEF ChatInv, ChatTypeOK
<1>7. joined' \in BOOLEAN /\ strayed' \in BOOLEAN
  BY <1>3 DEF ChatInv, ChatTypeOK
<1>8. ChannelFollows'
  <2>1. SUFFICES ASSUME joined', ~room.member, ~putOut, ~strayed'
                 PROVE  \E s \in ChatRequests :
                          At(s, "served")' /\ chatRequest'[s].op = "leave"
    BY <1>3 DEF ChannelFollows
  <2>2. ~strayed /\ ~joins /\ joined /\ op # "leave"
    BY <1>3, <1>4, <2>1
  <2>3. PICK s \in ChatRequests : At(s, "served") /\ chatRequest[s].op = "leave"
    BY <2>1, <2>2 DEF ChatInv, ChannelFollows
  <2> QED
    BY <1>1, <1>5, <2>2, <2>3
<1>9. ASSUME Uncrossed, ~crossed
      PROVE  StaysJoined' /\ Closes' /\ Sends'
  <2>1. lost = FALSE
    BY <1>1, <1>3, <1>4, <1>9 DEF Uncrossed, NoneLost
  <2>2. PICK last \in DOMAIN inbox' : inbox'[last] = x /\ \A j \in DOMAIN inbox : j < last
    BY <1>3, <1>6, <2>1
  <2>3. StaysJoined'
    <3>1. SUFFICES ASSUME ~joined'
                   PROVE  StaysJoined'
      BY DEF StaysJoined
    <3>2. CASE op = "leave"
      <4>1. \A i \in DOMAIN inbox : Later(i, "leave")'
        BY <1>4, <2>2, <3>2 DEF Later
      <4>2. \A i \in DOMAIN inbox' : Enters(i)' \/ Service(i)' => i \in DOMAIN inbox
        BY <1>4, <1>6, <3>2 DEF Enters, Service, ServiceOps
      <4> QED
        BY <1>4, <2>2, <3>2, <4>1, <4>2 DEF StaysJoined
    <3>3. CASE op # "leave"
      <4>1. ~joined /\ ~joins /\ op = "list" /\ result # TRUE
        BY <1>2, <1>3, <2>1, <3>1, <3>3 DEF MemberOps
      <4>2. \A i \in DOMAIN inbox' : Enters(i)' \/ Service(i)' => i \in DOMAIN inbox
        BY <1>4, <1>6, <4>1 DEF Enters, Service, ServiceOps
      <4>3. \A i \in DOMAIN inbox : (Enters(i)' <=> Enters(i)) /\ (Service(i)' <=> Service(i))
        BY <1>6 DEF Enters, Service
      <4> QED
        BY <1>3, <1>6, <1>9, <4>1, <4>2, <4>3 DEF Uncrossed, StaysJoined
    <3> QED
      BY <3>2, <3>3
  <2>4. Closes'
    <3>1. SUFFICES ASSUME ~room.open
                   PROVE  Closes'
      BY <1>3 DEF Closes
    <3>2. \A s \in ChatRequests : At(s, "served")' =>
            /\ chatRequest'[s].op # "join"
            /\ chatRequest'[s].op = "list" => chatRequest'[s].result # TRUE
      BY <1>5, <1>9, <3>1 DEF Uncrossed, Closes
    <3>3. op # "join" /\ (op = "list" => result # TRUE)
      BY <1>1, <1>3, <1>9, <3>1 DEF Uncrossed, Closes
    <3>4. joined' => joined
      BY <1>2, <1>3, <3>3
    <3>5. \A s \in ChatRequests : ClosingAt(s) => ClosingAt(s)'
      BY <1>1, <1>3, <1>5 DEF ClosingAt, OwnerOps
    <3>6. \A i \in DOMAIN inbox' : inbox'[i].kind = "list" /\ inbox'[i].value = TRUE =>
            i \in DOMAIN inbox
      BY <1>4, <1>6, <3>3
    <3>7. SUFFICES ASSUME joined'
                   PROVE  \/ \E s \in ChatRequests : ClosingAt(s)'
                          \/ /\ chatView.listed => \E j \in DOMAIN inbox' : inbox'[j].kind = "close"
                             /\ \A i \in DOMAIN inbox' :
                                  inbox'[i].kind = "list" /\ inbox'[i].value = TRUE =>
                                    Later(i, "close")'
      BY <1>3, <3>2 DEF Closes
    <3> QED
      BY <1>6, <1>9, <3>1, <3>4, <3>5, <3>6, <3>7 DEF Uncrossed, Closes
  <2>5. Sends'
    <3>1. \A s \in ChatRequests : Sending(s) => Sending(s)'
      BY <1>1, <1>3, <1>5 DEF Sending, ServiceOps
    <3>2. \A i \in DOMAIN inbox : Sent(i) => Sent(i)'
      BY <1>3, <1>6 DEF Sent
    <3> QED
      BY <1>3, <1>6, <1>9, <3>1, <3>2 DEF Uncrossed, Sends
  <2> QED
    BY <2>3, <2>4, <2>5
<1>10. x.kind \notin ServiceOps /\ (At(r, "served") => chatRequest[r].op \notin ServiceOps)
       /\ (inbox' = inbox \/ inbox' = Append(inbox, x))
  BY <1>1, <1>3, <1>4
<1> QED
  BY <1>3, <1>4, <1>7, <1>8, <1>9, <1>10, Announced

(* A request is refused.                                                   *)
LEMMA RefuseKeeps ==
  ASSUME ChatInv, NEW r \in ChatRequests, Refuse(r)
  PROVE  ChatInv'
<1>1. PICK x, op, m, lost :
        /\ x = Answer(r, IF chatRequest[r].op = "send" THEN "notSent" ELSE "refused")
        /\ op = chatRequest[r].op /\ m = chatRequest[r].m /\ lost = chatRequest[r].lost
  OBVIOUS
<1>2. /\ At(r, "asked") /\ chatRequest[r] # None /\ ~At(r, "served") /\ End(r)
      /\ UNCHANGED <<own, room, text, joined, online, mounted, chatView, chatLoad, putOut,
                     strayed, crossed>>
      /\ inbox' = IF Mine(op, m) /\ ~lost THEN Append(inbox, x) ELSE inbox
  BY <1>1 DEF Refuse, Deliver, At
<1>3. x \in Letters /\ x.m = m /\ x.kind = IF op = "send" THEN "notSent" ELSE "refused"
  <2>1. chatRequest[r] \in RunningRequests
    BY <1>2 DEF ChatInv, ChatTypeOK
  <2>2. m \in Messages \cup {None} /\ chatRequest[r].result \in BOOLEAN \cup {None}
    BY <1>1, <2>1 DEF RunningRequests, Asking
  <2> QED
    BY <1>1, <2>2 DEF Answer, Letters
<1>4. /\ \A s \in ChatRequests : At(s, "served")' <=> s # r /\ At(s, "served")
      /\ \A s \in ChatRequests : s # r => chatRequest'[s] = chatRequest[s]
  BY <1>2, Ends DEF ChatInv
<1>5. /\ \A i \in DOMAIN inbox : i \in DOMAIN inbox' /\ inbox'[i] = inbox[i]
      /\ \A i \in DOMAIN inbox' : i \in DOMAIN inbox \/ inbox'[i] = x
      /\ inbox' = Append(inbox, x) =>
           \E i \in DOMAIN inbox' : inbox'[i] = x /\ \A j \in DOMAIN inbox : j < i
      /\ \A i \in DOMAIN inbox : \A kind : Later(i, kind) => Later(i, kind)'
  BY <1>2, <1>3, Grown DEF ChatInv, ChatTypeOK
<1>6. ChannelFollows'
  BY <1>2, <1>4 DEF ChatInv, ChannelFollows
<1>7. ASSUME Uncrossed, ~crossed
      PROVE  StaysJoined' /\ Closes' /\ Sends'
  <2>1. \A i \in DOMAIN inbox' : inbox'[i].kind \notin {"refused", "notSent"} => i \in DOMAIN inbox
    BY <1>3, <1>5
  <2>2. StaysJoined'
    BY <1>2, <1>5, <1>7, <2>1 DEF Uncrossed, StaysJoined, Enters, Service, ServiceOps
  <2>3. Closes'
    <3>1. \A s \in ChatRequests : ClosingAt(s) => ClosingAt(s)'
      BY <1>2, <1>4 DEF ClosingAt
    <3> QED
      BY <1>2, <1>4, <1>5, <1>7, <2>1, <3>1 DEF Uncrossed, Closes
  <2>4. Sends'
    <3>1. \A s \in ChatRequests \ {r} : Sending(s) => Sending(s)'
      BY <1>2, <1>4 DEF Sending
    <3>2. \A i \in DOMAIN inbox : Sent(i) => Sent(i)'
      BY <1>2, <1>5 DEF Sent
    <3>3. Sending(r) => \E i \in DOMAIN inbox' : Sent(i)'
      <4>1. SUFFICES ASSUME Sending(r)
                     PROVE  \E i \in DOMAIN inbox' : Sent(i)'
        OBVIOUS
      <4>2. op = "send" /\ Mine(op, m) /\ ~lost /\ m = chatView'.sending
        BY <1>1, <1>2, <1>7, <4>1 DEF Sending, Mine, Uncrossed, NoneLost, ServiceOps
      <4> QED
        BY <1>1, <1>2, <1>3, <1>5, <4>1, <4>2 DEF Sending, Sent
    <3> QED
      BY <1>2, <1>5, <1>7, <3>1, <3>2, <3>3 DEF Uncrossed, Sends
  <2> QED
    BY <2>2, <2>3, <2>4
<1>8. /\ joined' \in BOOLEAN /\ strayed' \in BOOLEAN /\ x.kind \notin ServiceOps
      /\ inbox' = inbox \/ inbox' = Append(inbox, x)
  BY <1>2, <1>3 DEF ChatInv, ChatTypeOK, ServiceOps
<1> QED
  BY <1>2, <1>3, <1>6, <1>7, <1>8, Announced

(* A message is announced.                                                 *)
LEMMA MessageAnnounced ==
  ASSUME ChatInv, NEW r \in ChatRequests, AnnounceMessage(r)
  PROVE  ChatInv'
<1>1. PICK x, op, m, lost :
        /\ x = Answer(r, op) /\ op = chatRequest[r].op /\ m = chatRequest[r].m
        /\ lost = chatRequest[r].lost
  OBVIOUS
<1>2. PICK delivered : delivered = (IF m \in own THEN ~lost ELSE joined)
  OBVIOUS
<1>3. /\ At(r, "served") /\ chatRequest[r] # None /\ op \in ServiceOps
      /\ op \notin MemberOps \cup OwnerOps /\ End(r)
      /\ UNCHANGED <<own, room, text, joined, online, mounted, chatView, chatLoad, putOut,
                     strayed, crossed>>
      /\ inbox' = IF delivered THEN Append(inbox, x) ELSE inbox
  BY <1>1, <1>2 DEF AnnounceMessage, Deliver, At, Mine, ServiceOps, MemberOps, OwnerOps
<1>4. x \in Letters /\ x.kind = op /\ x.m = m /\ m \in Messages /\ lost \in BOOLEAN
  <2>1. chatRequest[r] \in RunningRequests
    BY <1>3 DEF ChatInv, ChatTypeOK
  <2>2. m \in Messages /\ chatRequest[r].result \in BOOLEAN \cup {None} /\ lost \in BOOLEAN
    BY <1>1, <1>3, <2>1 DEF RunningRequests, Asking
  <2> QED
    BY <1>1, <1>3, <2>2 DEF Answer, Letters
<1>5. /\ chatRequest' \in [ChatRequests -> RunningRequests \cup {None}]
      /\ \A s \in ChatRequests : At(s, "served")' <=> s # r /\ At(s, "served")
      /\ \A s \in ChatRequests :
           At(s, "served")' /\ chatRequest'[s].op = "list" => chatRequest'[s].result \in BOOLEAN
      /\ chatRequest'[r] = None
      /\ \A s \in ChatRequests : s # r => chatRequest'[s] = chatRequest[s]
  BY <1>3, Ends DEF ChatInv
<1>6. /\ inbox' \in Seq(Letters)
      /\ \A i \in DOMAIN inbox : i \in DOMAIN inbox' /\ inbox'[i] = inbox[i]
      /\ \A i \in DOMAIN inbox' : i \in DOMAIN inbox \/ inbox'[i] = x
      /\ inbox' = Append(inbox, x) =>
           \E i \in DOMAIN inbox' : inbox'[i] = x /\ \A j \in DOMAIN inbox : j < i
      /\ \A i \in DOMAIN inbox : \A kind : Later(i, kind) => Later(i, kind)'
  BY <1>3, <1>4, Grown DEF ChatInv, ChatTypeOK
<1>7. ChatTypeOK'
  BY <1>3, <1>5, <1>6 DEF ChatInv, ChatTypeOK
<1>8. ChannelFollows'
  BY <1>1, <1>3, <1>5 DEF ChatInv, ChannelFollows, MemberOps
<1>9. \A kind, k :
        /\ Served(kind, k)' => Served(kind, k)
        /\ Served(kind, k) => Served(kind, k)' \/ (kind = op /\ k = m)
        /\ InBox(kind, k) => InBox(kind, k)'
        /\ InBox(kind, k)' => InBox(kind, k) \/ (kind = op /\ k = m)
  <2>1. ASSUME NEW kind, NEW k
        PROVE  /\ Served(kind, k)' => Served(kind, k)
               /\ Served(kind, k) => Served(kind, k)' \/ (kind = op /\ k = m)
    BY <1>1, <1>5 DEF Served
  <2>2. ASSUME NEW kind, NEW k
        PROVE  /\ InBox(kind, k) => InBox(kind, k)'
               /\ InBox(kind, k)' => InBox(kind, k) \/ (kind = op /\ k = m)
    BY <1>4, <1>6 DEF InBox
  <2> QED
    BY <2>1, <2>2
<1>10. Served(op, m)
  BY <1>1, <1>3 DEF Served
<1>11. LettersTrue'
  <2>1. \A kind, k : Coming(kind, k)' => Coming(kind, k)
    BY <1>9, <1>10 DEF Coming
  <2> QED
    BY <1>3, <2>1 DEF ChatInv, LettersTrue
<1>12. delivered => InBox(op, m)'
  BY <1>3, <1>4, <1>6 DEF InBox
<1>13. ASSUME ~crossed'
       PROVE  Uncrossed'
  <2>1. Uncrossed /\ ~crossed
    BY <1>3, <1>13 DEF ChatInv
  <2>2. lost = FALSE
    BY <1>1, <1>3, <1>4, <2>1 DEF Uncrossed, NoneLost
  <2>3. NoneLost'
    BY <1>5, <2>1 DEF Uncrossed, NoneLost
  <2>4. \A i \in DOMAIN inbox : (Service(i)' <=> Service(i)) /\ (Enters(i)' <=> Enters(i))
    BY <1>6 DEF Service, Enters
  <2>5. InTurn'
    <3>1. \A i \in DOMAIN inbox : Service(i) /\ inbox[i].m = m =>
            inbox[i].kind # "delete" /\ op # "send"
      BY <1>1, <1>3, <2>1 DEF Uncrossed, InTurn
    <3>2. \A s \in ChatRequests :
            At(s, "served")' /\ chatRequest'[s].op \in ServiceOps => chatRequest'[s].m # m
      BY <1>1, <1>3, <1>5, <2>1 DEF Uncrossed, InTurn
    <3>3. ASSUME NEW i \in DOMAIN inbox', NEW j \in DOMAIN inbox', i < j,
                 Service(i)', Service(j)', inbox'[i].m = inbox'[j].m
          PROVE  inbox'[i].kind # "delete" /\ inbox'[j].kind # "send"
      <4>1. CASE j \in DOMAIN inbox /\ i \in DOMAIN inbox
        BY <1>6, <2>1, <2>4, <3>3, <4>1 DEF Uncrossed, InTurn
      <4>2. CASE j \notin DOMAIN inbox /\ i \in DOMAIN inbox
        BY <1>4, <1>6, <2>4, <3>1, <3>3, <4>2
      <4>3. CASE i \notin DOMAIN inbox
        <5>1. inbox' = Append(inbox, x)
          BY <1>3, <4>3, <3>3
        <5>2. PICK n \in Nat : DOMAIN inbox = 1..n /\ DOMAIN inbox' = 1..(n + 1)
          BY <1>4, <5>1, Posted DEF ChatInv, ChatTypeOK
        <5> QED
          BY <3>3, <4>3, <5>2
      <4> QED
        BY <4>1, <4>2, <4>3
    <3>4. ASSUME NEW i \in DOMAIN inbox', NEW s \in ChatRequests,
                 Service(i)', At(s, "served")', chatRequest'[s].op \in ServiceOps,
                 inbox'[i].m = chatRequest'[s].m
          PROVE  inbox'[i].kind # "delete" /\ chatRequest'[s].op # "send"
      <4>1. i \in DOMAIN inbox /\ inbox'[i] = inbox[i] /\ Service(i)
        BY <1>4, <1>6, <2>4, <3>2, <3>4
      <4> QED
        BY <1>5, <2>1, <3>4, <4>1 DEF Uncrossed, InTurn
    <3>5. \A s, t \in ChatRequests :
            At(s, "served")' /\ At(t, "served")' /\ chatRequest'[s].op \in ServiceOps
            /\ chatRequest'[t].op \in ServiceOps /\ chatRequest'[s].m = chatRequest'[t].m => s = t
      BY <1>5, <2>1 DEF Uncrossed, InTurn
    <3> QED
      BY <3>3, <3>4, <3>5 DEF InTurn
  <2>6. StaysJoined'
    <3>1. SUFFICES ASSUME ~joined
                   PROVE  StaysJoined'
      BY <1>3 DEF StaysJoined
    <3>2. \A i \in DOMAIN inbox' : Enters(i)' \/ (Service(i)' /\ inbox'[i].m \notin own) =>
            i \in DOMAIN inbox
      BY <1>2, <1>3, <1>4, <1>6, <3>1 DEF Enters, ServiceOps
    <3> QED
      BY <1>3, <1>6, <2>1, <2>4, <3>1, <3>2 DEF Uncrossed, StaysJoined
  <2>7. Ended'
    <3>1. ASSUME NEW i \in DOMAIN inbox', Service(i)', NEW k, k = inbox'[i].m,
                 text'[k] = "deleted"
          PROVE  Coming("delete", k)' \/ Later(i, "leave")'
      <4>1. CASE i \notin DOMAIN inbox
        <5>1. k = m /\ op = "delete" /\ delivered
          BY <1>1, <1>3, <1>4, <1>6, <2>1, <3>1, <4>1 DEF Uncrossed, Ended
        <5> QED
          BY <1>12, <5>1 DEF Coming
      <4>2. CASE i \in DOMAIN inbox
        <5>1. inbox'[i] = inbox[i] /\ Service(i)
          BY <1>6, <2>4, <3>1, <4>2
        <5>2. Coming("delete", k) \/ Later(i, "leave")
          BY <1>3, <2>1, <3>1, <4>2, <5>1 DEF Uncrossed, Ended
        <5>3. CASE Later(i, "leave") \/ InBox("delete", k) \/ Served("delete", k)'
          BY <1>6, <1>9, <4>2, <5>3 DEF Coming
        <5>4. CASE op = "delete" /\ k = m /\ delivered
          BY <1>12, <5>4 DEF Coming
        <5>5. CASE op = "delete" /\ k = m /\ ~delivered
          <6>1. ~joined /\ m \notin own
            BY <1>2, <2>2, <5>5
          <6>2. Later(i, "leave")
            BY <2>1, <3>1, <4>2, <5>1, <5>5, <6>1 DEF Uncrossed, StaysJoined
          <6> QED
            BY <1>6, <4>2, <6>2
        <5> QED
          BY <1>9, <5>2, <5>3, <5>4, <5>5 DEF Coming
      <4> QED
        BY <4>1, <4>2
    <3>2. \A s \in ChatRequests :
            At(s, "served")' /\ chatRequest'[s].op \in ServiceOps
            /\ text'[chatRequest'[s].m] = "deleted" => chatRequest'[s].op = "delete"
      BY <1>3, <1>5, <2>1 DEF Uncrossed, Ended
    <3> QED
      BY <3>1, <3>2 DEF Ended
  <2>8. Closes'
    <3>1. \A s \in ChatRequests : ClosingAt(s) => ClosingAt(s)'
      BY <1>1, <1>3, <1>5 DEF ClosingAt, OwnerOps
    <3>2. \A i \in DOMAIN inbox' : inbox'[i].kind = "list" => i \in DOMAIN inbox
      BY <1>3, <1>4, <1>6 DEF MemberOps
    <3> QED
      BY <1>3, <1>5, <1>6, <2>1, <3>1, <3>2 DEF Uncrossed, Closes
  <2>9. Sends'
    <3>1. \A s \in ChatRequests \ {r} : Sending(s) => Sending(s)'
      BY <1>3, <1>5 DEF Sending
    <3>2. \A i \in DOMAIN inbox : Sent(i) => Sent(i)'
      BY <1>3, <1>6 DEF Sent
    <3>3. Sending(r) => \E i \in DOMAIN inbox' : Sent(i)'
      BY <1>1, <1>2, <1>3, <1>4, <1>6, <2>2 DEF Sending, Sent
    <3> QED
      BY <1>3, <1>6, <2>1, <3>1, <3>2, <3>3 DEF Uncrossed, Sends
  <2>10. ASSUME InView'
         PROVE  Follows'
    <3>1. joined /\ delivered
      BY <1>2, <1>3, <2>2, <2>10 DEF InView
    <3>2. Follows
      BY <1>3, <1>6, <2>1, <2>10 DEF Uncrossed, InView
    <3>3. \A kind, k : Coming(kind, k)' <=> Coming(kind, k)
      BY <1>9, <1>10, <1>12, <3>1 DEF Coming
    <3>4. \A rows : Right(rows)' <=> Right(rows)
      BY <1>3, <3>3, SameRight
    <3> QED
      BY <1>3, <3>2, <3>4, StillFollows
  <2> QED
    BY <2>1, <2>3, <2>5, <2>6, <2>7, <2>8, <2>9, <2>10 DEF Uncrossed
<1> QED
  BY <1>7, <1>8, <1>11, <1>13 DEF ChatInv

(* The connection is lost.                                                 *)
LEMMA DropKeeps ==
  ASSUME ChatInv, Drop
  PROVE  ChatInv'
<1>1. /\ joined' = FALSE /\ inbox' = <<>> /\ online' = FALSE
      /\ crossed' = (crossed \/ chatView.active \/ inbox # <<>> \/ chatRequest' # chatRequest)
      /\ UNCHANGED <<own, room, text, mounted, chatView, chatLoad, putOut, strayed>>
  BY DEF Drop
<1>2. ASSUME NEW s \in ChatRequests
      PROVE  /\ chatRequest'[s] \in RunningRequests \cup {None}
             /\ chatRequest'[s] = None <=> chatRequest[s] = None
             /\ chatRequest[s] # None =>
                  /\ chatRequest'[s].step = chatRequest[s].step
                  /\ chatRequest'[s].op = chatRequest[s].op
                  /\ chatRequest'[s].m = chatRequest[s].m
                  /\ chatRequest'[s].result = chatRequest[s].result
  <2>1. PICK q : q = [chatRequest[s] EXCEPT !.lost = TRUE]
    OBVIOUS
  <2>2. chatRequest'[s] = IF chatRequest[s] # None /\ Mine(chatRequest[s].op, chatRequest[s].m)
                            THEN q ELSE chatRequest[s]
    BY <2>1 DEF Drop
  <2>3. CASE chatRequest[s] = None
    BY <2>2, <2>3
  <2>4. CASE chatRequest[s] # None
    <3>1. chatRequest[s] \in RunningRequests
      BY <2>4 DEF ChatInv, ChatTypeOK
    <3>2. /\ q \in RunningRequests /\ q.step = chatRequest[s].step /\ q.op = chatRequest[s].op
          /\ q.m = chatRequest[s].m /\ q.result = chatRequest[s].result
      BY <2>1, <3>1 DEF RunningRequests, Asking
    <3> QED
      BY <2>2, <2>4, <3>1, <3>2, ChatAssumption
  <2> QED
    BY <2>3, <2>4
<1>3. \A s \in ChatRequests : At(s, "served")' <=> At(s, "served")
  BY <1>2 DEF At
<1>4. ChatTypeOK'
  <2>1. chatRequest' = [s \in ChatRequests |-> chatRequest'[s]]
    BY DEF Drop
  <2>2. chatRequest' \in [ChatRequests -> RunningRequests \cup {None}]
    BY <1>2, <2>1
  <2>3. \A s \in ChatRequests :
          At(s, "served")' /\ chatRequest'[s].op = "list" => chatRequest'[s].result \in BOOLEAN
    BY <1>2, <1>3 DEF ChatInv, ChatTypeOK, At
  <2>4. inbox' \in Seq(Letters) /\ crossed' \in BOOLEAN
    BY <1>1 DEF ChatInv, ChatTypeOK
  <2> QED
    BY <1>1, <2>2, <2>3, <2>4 DEF ChatInv, ChatTypeOK
<1>5. ChannelFollows'
  BY <1>1 DEF ChannelFollows
<1>6. LettersTrue'
  <2>1. \A kind, m : Coming(kind, m)' => Coming(kind, m)
    BY <1>1, <1>2, <1>3 DEF Coming, InBox, Served, At
  <2> QED
    BY <1>1, <2>1 DEF ChatInv, LettersTrue
<1>7. ASSUME ~crossed'
      PROVE  Uncrossed'
  <2>1. /\ Uncrossed /\ ~crossed /\ ~chatView.active /\ inbox = <<>>
        /\ UNCHANGED <<inbox, chatRequest>>
    BY <1>1, <1>7 DEF ChatInv
  <2>2. SameServed
    BY <2>1 DEF SameServed, At
  <2>3. NoneLost' /\ InTurn' /\ Sends'
    BY <1>1, <2>1 DEF Uncrossed, NoneLost, InTurn, Service, Sends, Sending, Sent, At
  <2>4. StaysJoined' /\ Closes'
    <3>1. DOMAIN inbox' = {}
      BY <1>1
    <3>2. StaysJoined'
      BY <1>1, <2>1, <3>1 DEF StaysJoined
    <3>3. Closes'
      BY <1>1, <2>1, <2>2 DEF Uncrossed, Closes, SameServed
    <3> QED
      BY <3>2, <3>3
  <2>5. Ended'
    BY <1>1, <2>1, <2>2, SameComing DEF Uncrossed, Ended, Later, Service, SameServed
  <2>6. ~InView'
    BY <1>1 DEF InView
  <2> QED
    BY <2>3, <2>4, <2>5, <2>6 DEF Uncrossed
<1> QED
  BY <1>4, <1>5, <1>6, <1>7 DEF ChatInv

(* A letter is received: what the others say stays true.                   *)
LEMMA Taken ==
  ASSUME ChatInv, inbox # <<>>, inbox' = Tail(inbox),
         UNCHANGED <<own, room, text, joined, online, chatRequest, mounted, putOut, strayed>>
  PROVE  /\ inbox' \in Seq(Letters) /\ Head(inbox) \in Letters
         /\ Head(inbox) = inbox[1] /\ 1 \in DOMAIN inbox
         /\ \A i \in DOMAIN inbox : i # 1 => \E j \in DOMAIN inbox' : inbox'[j] = inbox[i]
         /\ \A i \in DOMAIN inbox' : \E j \in DOMAIN inbox : j # 1 /\ inbox'[i] = inbox[j]
         /\ \A kind : Later(1, kind) => \E j \in DOMAIN inbox' : inbox'[j].kind = kind
         /\ \A s \in ChatRequests : At(s, "served")' <=> At(s, "served")
         /\ \A kind, m : Coming(kind, m)' => Coming(kind, m)
         /\ \A kind, m : Coming(kind, m) =>
              Coming(kind, m)' \/ (kind = Head(inbox).kind /\ m = Head(inbox).m)
         /\ Coming(Head(inbox).kind, Head(inbox).m)
         /\ ChannelFollows' /\ LettersTrue'
         /\ Uncrossed =>
              /\ NoneLost' /\ InTurn' /\ Ended'
              /\ (~joined /\ chatView'.active =>
                    \E j \in DOMAIN inbox' : inbox'[j].kind = "leave") => StaysJoined'
              /\ (~room.open /\ joined /\ ~(\E r \in ChatRequests : ClosingAt(r))
                  /\ chatView'.listed =>
                    \E j \in DOMAIN inbox' : inbox'[j].kind = "close") => Closes'
<1>1. PICK n \in Nat :
        /\ DOMAIN inbox = 1..(n + 1) /\ DOMAIN inbox' = 1..n
        /\ inbox' \in Seq(Letters) /\ Head(inbox) = inbox[1] /\ inbox[1] \in Letters
        /\ \A i \in 1..n : inbox'[i] = inbox[i + 1]
  BY Received DEF ChatInv, ChatTypeOK
<1>2. /\ 1 \in DOMAIN inbox
      /\ \A i \in DOMAIN inbox : i # 1 => i - 1 \in DOMAIN inbox' /\ inbox'[i - 1] = inbox[i]
      /\ \A i \in DOMAIN inbox' : i + 1 \in DOMAIN inbox /\ i + 1 # 1 /\ inbox'[i] = inbox[i + 1]
  BY <1>1
<1>3. \A i \in DOMAIN inbox' : \A kind : Later(i + 1, kind) => Later(i, kind)'
  <2>1. ASSUME NEW i \in DOMAIN inbox', NEW kind, Later(i + 1, kind)
        PROVE  Later(i, kind)'
    <3>1. PICK j \in DOMAIN inbox : i + 1 < j /\ inbox[j].kind = kind
      BY <2>1 DEF Later
    <3>2. j - 1 \in DOMAIN inbox' /\ inbox'[j - 1].kind = kind /\ i < j - 1
      BY <1>1, <1>2, <2>1, <3>1
    <3> QED
      BY <3>2 DEF Later
  <2> QED
    BY <2>1
<1>4. \A kind : Later(1, kind) => \E j \in DOMAIN inbox' : inbox'[j].kind = kind
  <2>1. ASSUME NEW kind, Later(1, kind)
        PROVE  \E j \in DOMAIN inbox' : inbox'[j].kind = kind
    <3>1. PICK j \in DOMAIN inbox : 1 < j /\ inbox[j].kind = kind
      BY <2>1 DEF Later
    <3>2. j # 1
      BY <1>1, <3>1
    <3> QED
      BY <1>2, <3>1, <3>2
  <2> QED
    BY <2>1
<1>5. \A s \in ChatRequests : At(s, "served")' <=> At(s, "served")
  BY DEF At
<1>6. \A kind, m : Served(kind, m)' <=> Served(kind, m)
  BY <1>5 DEF Served
<1>7. ASSUME NEW kind, NEW m
      PROVE  /\ InBox(kind, m)' => InBox(kind, m)
             /\ InBox(kind, m) =>
                  InBox(kind, m)' \/ (kind = Head(inbox).kind /\ m = Head(inbox).m)
  <2>1. InBox(kind, m)' => InBox(kind, m)
    BY <1>2 DEF InBox
  <2>2. ASSUME InBox(kind, m)
        PROVE  InBox(kind, m)' \/ (kind = Head(inbox).kind /\ m = Head(inbox).m)
    <3>1. PICK i \in DOMAIN inbox : inbox[i].kind = kind /\ inbox[i].m = m
      BY <2>2 DEF InBox
    <3>2. CASE i = 1
      BY <1>1, <3>1, <3>2
    <3>3. CASE i # 1
      BY <1>2, <3>1, <3>3 DEF InBox
    <3> QED
      BY <3>2, <3>3
  <2> QED
    BY <2>1, <2>2
<1>8. /\ \A kind, m : Coming(kind, m)' => Coming(kind, m)
      /\ \A kind, m : Coming(kind, m) =>
           Coming(kind, m)' \/ (kind = Head(inbox).kind /\ m = Head(inbox).m)
  BY <1>6, <1>7 DEF Coming
<1>9. Coming(Head(inbox).kind, Head(inbox).m)
  BY <1>1, <1>2 DEF Coming, InBox
<1>10. ChannelFollows'
  BY <1>5 DEF ChatInv, ChannelFollows
<1>11. LettersTrue'
  BY <1>8 DEF ChatInv, LettersTrue
<1>12. ASSUME Uncrossed
       PROVE  NoneLost' /\ InTurn'
  <2>1. NoneLost'
    BY <1>12 DEF Uncrossed, NoneLost
  <2>2. \A i, j \in DOMAIN inbox' :
          i < j /\ Service(i)' /\ Service(j)' /\ inbox'[i].m = inbox'[j].m =>
            inbox'[i].kind # "delete" /\ inbox'[j].kind # "send"
    <3>1. SUFFICES ASSUME NEW i \in DOMAIN inbox', NEW j \in DOMAIN inbox', i < j,
                          Service(i)', Service(j)', inbox'[i].m = inbox'[j].m
                   PROVE  inbox'[i].kind # "delete" /\ inbox'[j].kind # "send"
      OBVIOUS
    <3>2. i + 1 < j + 1
      BY <1>1, <3>1
    <3>3. Service(i + 1) /\ Service(j + 1)
      BY <1>2, <3>1 DEF Service
    <3> QED
      BY <1>2, <1>12, <3>1, <3>2, <3>3 DEF Uncrossed, InTurn
  <2>3. \A i \in DOMAIN inbox', s \in ChatRequests :
          Service(i)' /\ At(s, "served")' /\ chatRequest'[s].op \in ServiceOps
          /\ inbox'[i].m = chatRequest'[s].m =>
            inbox'[i].kind # "delete" /\ chatRequest'[s].op # "send"
    BY <1>2, <1>5, <1>12 DEF Uncrossed, InTurn, Service
  <2>4. \A s, t \in ChatRequests :
          At(s, "served")' /\ At(t, "served")' /\ chatRequest'[s].op \in ServiceOps
          /\ chatRequest'[t].op \in ServiceOps /\ chatRequest'[s].m = chatRequest'[t].m => s = t
    BY <1>5, <1>12 DEF Uncrossed, InTurn
  <2> QED
    BY <2>1, <2>2, <2>3, <2>4 DEF InTurn
<1>13. ASSUME Uncrossed
       PROVE  Ended'
  <2>1. ASSUME NEW i \in DOMAIN inbox', Service(i)', NEW m, m = inbox'[i].m, text'[m] = "deleted"
        PROVE  Coming("delete", m)' \/ Later(i, "leave")'
    <3>1. Service(i + 1) /\ inbox[i + 1].m = m /\ i + 1 \in DOMAIN inbox
      BY <1>2, <2>1 DEF Service
    <3>2. Coming("delete", m) \/ Later(i + 1, "leave")
      BY <1>13, <2>1, <3>1 DEF Uncrossed, Ended
    <3>3. ~(Head(inbox).kind = "delete" /\ Head(inbox).m = m)
      <4>1. 1 < i + 1
        BY <1>1, <2>1
      <4>2. Head(inbox).kind = "delete" => Service(1)
        BY <1>1 DEF Service, ServiceOps
      <4> QED
        BY <1>1, <1>2, <1>13, <3>1, <4>1, <4>2 DEF Uncrossed, InTurn
    <3> QED
      BY <1>3, <1>8, <2>1, <3>2, <3>3
  <2>2. \A s \in ChatRequests :
          At(s, "served")' /\ chatRequest'[s].op \in ServiceOps
          /\ text'[chatRequest'[s].m] = "deleted" => chatRequest'[s].op = "delete"
    BY <1>5, <1>13 DEF Uncrossed, Ended
  <2> QED
    BY <2>1, <2>2 DEF Ended
<1>14. ASSUME Uncrossed,
              ~joined /\ chatView'.active => \E j \in DOMAIN inbox' : inbox'[j].kind = "leave"
       PROVE  StaysJoined'
  <2>1. \A i \in DOMAIN inbox' : (Enters(i)' => Enters(i + 1)) /\ (Service(i)' => Service(i + 1))
    BY <1>2 DEF Enters, Service
  <2> QED
    BY <1>2, <1>3, <1>14, <2>1 DEF Uncrossed, StaysJoined
<1>15. ASSUME Uncrossed,
              ~room.open /\ joined /\ ~(\E r \in ChatRequests : ClosingAt(r))
              /\ chatView'.listed => \E j \in DOMAIN inbox' : inbox'[j].kind = "close"
       PROVE  Closes'
  <2>1. \A s \in ChatRequests : ClosingAt(s)' <=> ClosingAt(s)
    BY <1>5 DEF ClosingAt
  <2> QED
    BY <1>2, <1>3, <1>5, <1>15, <2>1 DEF Uncrossed, Closes
<1> QED
  BY <1>1, <1>2, <1>4, <1>5, <1>8, <1>9, <1>10, <1>11, <1>12, <1>13, <1>14, <1>15

(* An answer that only ends a request, and a room that has gone.           *)
LEMMA AnswerKeeps ==
  ASSUME ChatInv, ReceiveError \/ ReceiveRemoval
  PROVE  ChatInv'
<1>1. PICK x : x = Head(inbox)
  OBVIOUS
<1>2. /\ inbox # <<>> /\ inbox' = Tail(inbox) /\ x.kind \in {"refused", "notSent", "close", "leave"}
      /\ UNCHANGED <<own, room, text, joined, online, chatRequest, mounted, chatLoad, putOut,
                     strayed, crossed>>
  BY <1>1 DEF ReceiveError, ReceiveRemoval
<1>3. /\ chatView' \in [listed : BOOLEAN, active : BOOLEAN, sending : Messages \cup {None},
                        saved : BOOLEAN, shown : MessageRows]
      /\ \/ chatView'.sending = None
         \/ chatView'.sending = chatView.sending /\ ~(x.kind = "notSent" /\ x.m = chatView.sending)
      /\ \/ ~chatView'.active /\ ~chatView'.listed
         \/ /\ chatView'.active = chatView.active /\ chatView'.listed = chatView.listed
            /\ chatView'.shown = chatView.shown /\ x.kind \notin {"close", "leave"}
  <2>1. CASE ReceiveError
    BY <1>1, <2>1 DEF ReceiveError, SendingAfter, ChatInv, ChatTypeOK
  <2>2. CASE ReceiveRemoval
    BY <1>1, <2>2 DEF ReceiveRemoval, ChatInv, ChatTypeOK, Blank, MessageRows
  <2> QED
    BY <2>1, <2>2
<1>4. /\ inbox' \in Seq(Letters) /\ x \in Letters
      /\ x = inbox[1] /\ 1 \in DOMAIN inbox
      /\ \A i \in DOMAIN inbox : i # 1 => \E j \in DOMAIN inbox' : inbox'[j] = inbox[i]
      /\ \A i \in DOMAIN inbox' : \E j \in DOMAIN inbox : j # 1 /\ inbox'[i] = inbox[j]
      /\ \A s \in ChatRequests : At(s, "served")' <=> At(s, "served")
      /\ \A kind, m : Coming(kind, m)' => Coming(kind, m)
      /\ \A kind, m : Coming(kind, m) => Coming(kind, m)' \/ (kind = x.kind /\ m = x.m)
      /\ ChannelFollows' /\ LettersTrue'
      /\ Uncrossed =>
           /\ NoneLost' /\ InTurn' /\ Ended'
           /\ (~joined /\ chatView'.active =>
                 \E j \in DOMAIN inbox' : inbox'[j].kind = "leave") => StaysJoined'
           /\ (~room.open /\ joined /\ ~(\E r \in ChatRequests : ClosingAt(r))
               /\ chatView'.listed =>
                 \E j \in DOMAIN inbox' : inbox'[j].kind = "close") => Closes'
  BY <1>1, <1>2, Taken
<1>5. ChatTypeOK'
  BY <1>2, <1>3, <1>4 DEF ChatInv, ChatTypeOK
<1>6. ASSUME ~crossed'
      PROVE  Uncrossed'
  <2>1. Uncrossed /\ ~crossed
    BY <1>2, <1>6 DEF ChatInv
  <2>2. StaysJoined'
    <3>1. ASSUME ~joined, chatView'.active
          PROVE  \E j \in DOMAIN inbox' : inbox'[j].kind = "leave"
      <4>1. PICK j \in DOMAIN inbox : inbox[j].kind = "leave"
        BY <1>3, <2>1, <3>1 DEF Uncrossed, StaysJoined
      <4> QED
        BY <1>3, <1>4, <3>1, <4>1
    <3> QED
      BY <1>4, <2>1, <3>1
  <2>3. Closes'
    <3>1. ASSUME ~room.open, joined, ~(\E r \in ChatRequests : ClosingAt(r)), chatView'.listed
          PROVE  \E j \in DOMAIN inbox' : inbox'[j].kind = "close"
      <4>1. PICK j \in DOMAIN inbox : inbox[j].kind = "close"
        BY <1>3, <2>1, <3>1 DEF Uncrossed, Closes
      <4> QED
        BY <1>3, <1>4, <3>1, <4>1
    <3> QED
      BY <1>4, <2>1, <3>1
  <2>4. Sends'
    <3>1. SUFFICES ASSUME chatView'.sending # None
                   PROVE  (\E r \in ChatRequests : Sending(r)') \/ (\E i \in DOMAIN inbox' : Sent(i)')
      BY DEF Sends
    <3>2. \A r \in ChatRequests : Sending(r) => Sending(r)'
      BY <1>2, <1>3, <3>1 DEF Sending
    <3>3. \A i \in DOMAIN inbox : Sent(i) => \E j \in DOMAIN inbox' : Sent(j)'
      <4>1. ~Sent(1) /\ chatView'.sending = chatView.sending
        BY <1>2, <1>3, <1>4, <3>1 DEF Sent
      <4>2. \A i \in DOMAIN inbox : i # 1 => \E j \in DOMAIN inbox' : inbox'[j] = inbox[i]
        BY <1>4
      <4> QED
        BY <4>1, <4>2 DEF Sent
    <3> QED
      BY <1>3, <2>1, <3>1, <3>2, <3>3 DEF Uncrossed, Sends
  <2>5. ASSUME InView'
        PROVE  Follows'
    <3>1. /\ chatView'.active = chatView.active /\ chatView'.shown = chatView.shown
          /\ x.kind \notin {"close", "leave"}
      BY <1>3, <2>5 DEF InView
    <3>2. InView
      BY <1>2, <1>4, <2>5, <3>1 DEF InView
    <3>3. \A kind \in ServiceOps : \A m : Coming(kind, m)' <=> Coming(kind, m)
      BY <1>2, <1>4 DEF ServiceOps
    <3>4. \A rows : Right(rows)' <=> Right(rows)
      BY <1>2, <3>3, SameRight
    <3> QED
      BY <1>2, <2>1, <3>1, <3>2, <3>4 DEF Uncrossed, Follows, LoadHas
  <2> QED
    BY <1>4, <2>1, <2>2, <2>3, <2>4, <2>5 DEF Uncrossed
<1> QED
  BY <1>4, <1>5, <1>6 DEF ChatInv

(* A room is opened, or the list of the rooms received.                    *)
LEMMA OpenKeeps ==
  ASSUME ChatInv, ReceiveList \/ ReceiveJoin
  PROVE  ChatInv'
<1>1. PICK x, active :
        x = Head(inbox) /\ active = (x.kind = "join" \/ (chatView.saved /\ x.value = TRUE))
  OBVIOUS
<1>2. /\ inbox # <<>> /\ inbox' = Tail(inbox) /\ x.kind \in {"list", "join"} /\ Activate(active)
      /\ UNCHANGED <<own, room, text, joined, online, chatRequest, mounted, putOut, strayed>>
      /\ crossed' = (crossed \/ (active /\ ~chatView.active /\ ~mounted))
  <2>1. CASE ReceiveList
    BY <1>1, <2>1 DEF ReceiveList, Activate
  <2>2. CASE ReceiveJoin
    BY <1>1, <2>2 DEF ReceiveJoin, Activate
  <2> QED
    BY <2>1, <2>2
<1>3. /\ inbox' \in Seq(Letters) /\ x \in Letters
      /\ x = inbox[1] /\ 1 \in DOMAIN inbox
      /\ \A i \in DOMAIN inbox : i # 1 => \E j \in DOMAIN inbox' : inbox'[j] = inbox[i]
      /\ \A i \in DOMAIN inbox' : \E j \in DOMAIN inbox : j # 1 /\ inbox'[i] = inbox[j]
      /\ \A kind : Later(1, kind) => \E j \in DOMAIN inbox' : inbox'[j].kind = kind
      /\ \A s \in ChatRequests : At(s, "served")' <=> At(s, "served")
      /\ \A kind, m : Coming(kind, m)' => Coming(kind, m)
      /\ \A kind, m : Coming(kind, m) => Coming(kind, m)' \/ (kind = x.kind /\ m = x.m)
      /\ ChannelFollows' /\ LettersTrue'
      /\ Uncrossed =>
           /\ NoneLost' /\ InTurn' /\ Ended'
           /\ (~joined /\ chatView'.active =>
                 \E j \in DOMAIN inbox' : inbox'[j].kind = "leave") => StaysJoined'
           /\ (~room.open /\ joined /\ ~(\E r \in ChatRequests : ClosingAt(r))
               /\ chatView'.listed =>
                 \E j \in DOMAIN inbox' : inbox'[j].kind = "close") => Closes'
  BY <1>1, <1>2, Taken
<1>4. /\ chatView' \in [listed : BOOLEAN, active : BOOLEAN, sending : Messages \cup {None},
                        saved : BOOLEAN, shown : MessageRows]
      /\ chatView'.sending = chatView.sending /\ chatView'.shown = chatView.shown
      /\ chatView'.active = active /\ active \in BOOLEAN
      /\ chatView'.listed = IF x.kind = "list" THEN x.value ELSE chatView.listed
  <2>1. CASE ReceiveList
    <3>1. x.value \in BOOLEAN /\ x.kind = "list"
      BY <1>1, <1>3, <2>1 DEF ReceiveList, Letters, ServiceOps
    <3>2. chatView' = [chatView EXCEPT !.listed = x.value, !.active = active, !.saved = active]
      BY <1>1, <2>1, <3>1 DEF ReceiveList
    <3>3. active \in BOOLEAN
      BY <1>1, <3>1 DEF ChatInv, ChatTypeOK
    <3> QED
      BY <3>1, <3>2, <3>3 DEF ChatInv, ChatTypeOK
  <2>2. CASE ReceiveJoin
    <3>1. x.kind = "join" /\ active = TRUE
      BY <1>1, <2>2 DEF ReceiveJoin
    <3>2. chatView' = [chatView EXCEPT !.active = TRUE, !.saved = TRUE]
      BY <2>2 DEF ReceiveJoin
    <3> QED
      BY <3>1, <3>2 DEF ChatInv, ChatTypeOK
  <2> QED
    BY <2>1, <2>2
<1>5. /\ chatLoad' \in [ChatLoads -> RunningChatLoads \cup {None}]
      /\ active /\ ~chatView.active /\ mounted => \E l \in ChatLoads : LoadHas(l, "asked")'
      /\ ~(active /\ ~chatView.active /\ mounted) => chatLoad' = chatLoad
  <2>1. CASE active /\ ~chatView.active /\ mounted
    <3>1. PICK q : q = [step |-> "asked", snapshot |-> Blank]
      OBVIOUS
    <3>2. q \in RunningChatLoads /\ q.step = "asked"
      BY <3>1 DEF RunningChatLoads, Blank, MessageRows
    <3>3. PICK l \in ChatLoads : chatLoad' = [chatLoad EXCEPT ![l] = q]
      BY <1>2, <2>1, <3>1 DEF Activate
    <3>4. chatLoad'[l] = q /\ chatLoad' \in [ChatLoads -> RunningChatLoads \cup {None}]
      BY <3>2, <3>3 DEF ChatInv, ChatTypeOK
    <3>5. LoadHas(l, "asked")'
      BY <3>2, <3>4, ChatAssumption DEF LoadHas
    <3> QED
      BY <2>1, <3>4, <3>5
  <2>2. CASE ~(active /\ ~chatView.active /\ mounted)
    BY <1>2, <2>2 DEF Activate, ChatInv, ChatTypeOK
  <2> QED
    BY <2>1, <2>2
<1>6. ChatTypeOK'
  BY <1>2, <1>3, <1>4, <1>5 DEF ChatInv, ChatTypeOK
<1>7. /\ \A i \in DOMAIN inbox : i # 1 => \E j \in DOMAIN inbox' : inbox'[j] = inbox[i]
      /\ inbox[1].kind \in {"list", "join"} /\ joined' = joined /\ own' = own
  BY <1>2, <1>3
<1>8. ASSUME ~crossed'
      PROVE  Uncrossed'
  <2>1. Uncrossed /\ ~crossed
    BY <1>2, <1>8 DEF ChatInv
  <2>2. StaysJoined'
    <3>1. ASSUME ~joined, chatView'.active
          PROVE  \E j \in DOMAIN inbox' : inbox'[j].kind = "leave"
      <4>1. Enters(1)
        BY <1>1, <1>2, <1>3, <1>4, <3>1 DEF Enters
      <4>2. Later(1, "leave")
        BY <1>3, <2>1, <3>1, <4>1 DEF Uncrossed, StaysJoined
      <4> QED
        BY <1>3, <4>2
    <3> QED
      BY <1>3, <2>1, <3>1
  <2>3. Closes'
    <3>1. ASSUME ~room.open, joined, ~(\E r \in ChatRequests : ClosingAt(r)), chatView'.listed
          PROVE  \E j \in DOMAIN inbox' : inbox'[j].kind = "close"
      <4>1. CASE x.kind = "list"
        <5>1. Later(1, "close")
          BY <1>3, <1>4, <2>1, <3>1, <4>1 DEF Uncrossed, Closes
        <5> QED
          BY <1>3, <5>1
      <4>2. CASE x.kind = "join"
        <5>1. PICK j \in DOMAIN inbox : inbox[j].kind = "close"
          BY <1>4, <2>1, <3>1, <4>2 DEF Uncrossed, Closes
        <5> QED
          BY <1>3, <4>2, <5>1
      <4> QED
        BY <1>2, <4>1, <4>2
    <3> QED
      BY <1>3, <2>1, <3>1
  <2>4. Sends'
    <3>1. \A r \in ChatRequests : Sending(r) => Sending(r)'
      BY <1>2, <1>4 DEF Sending
    <3>2. \A i \in DOMAIN inbox : Sent(i) => \E j \in DOMAIN inbox' : Sent(j)'
      <4>1. ~Sent(1)
        BY <1>7 DEF Sent
      <4> QED
        BY <1>4, <1>7, <4>1 DEF Sent
    <3> QED
      BY <1>4, <2>1, <3>1, <3>2 DEF Uncrossed, Sends
  <2>5. ASSUME InView'
        PROVE  Follows'
    <3>1. CASE ~chatView.active
      BY <1>2, <1>4, <1>5, <1>8, <2>5, <3>1 DEF InView, Follows
    <3>2. CASE chatView.active
      <4>1. InView
        BY <1>7, <2>5, <3>2 DEF InView
      <4>2. \A kind \in ServiceOps : \A m : Coming(kind, m)' <=> Coming(kind, m)
        BY <1>2, <1>3 DEF ServiceOps
      <4>3. \A rows : Right(rows)' <=> Right(rows)
        BY <1>2, <4>2, SameRight
      <4> QED
        BY <1>4, <1>5, <2>1, <3>2, <4>1, <4>3 DEF Uncrossed, Follows, LoadHas
    <3> QED
      BY <3>1, <3>2
  <2> QED
    BY <1>3, <2>1, <2>2, <2>3, <2>4, <2>5 DEF Uncrossed
<1> QED
  BY <1>3, <1>6, <1>8 DEF ChatInv

(* What a letter about a message makes of what was there.                  *)
After(now, kind) ==
  CASE kind = "send" /\ now = "none" -> "new"
    [] kind = "edit" /\ now # "none" -> "edited"
    [] kind = "delete" -> "none"
    [] OTHER -> now

LEMMA Arrives ==
  ASSUME ChatTypeOK, LettersTrue, text' = text, NEW m \in Messages, NEW kind \in ServiceOps,
         Coming(kind, m),
         \A k \in ServiceOps : k # kind /\ Coming(k, m) => Coming(k, m)',
         kind = "delete" => \A k \in ServiceOps : ~Coming(k, m)',
         kind # "send" => ~Coming("send", m),
         NEW now \in {"none", "new", "edited"}
  PROVE  /\ LeadsOn(now, m) => LeadsOn(After(now, kind), m)'
         /\ LeadsOn(After(now, kind), m) => LeadsOn(After(now, kind), m)'
<1>1. /\ text[m] \in {"none", "new", "edited", "deleted"}
      /\ text[m] = "none" => ~Coming("send", m)
      /\ text[m] \in {"none", "new"} => ~Coming("edit", m)
      /\ text[m] # "deleted" => ~Coming("delete", m)
  BY DEF ChatTypeOK, LettersTrue
<1>2. ServiceOps = {"send", "edit", "delete"}
  BY DEF ServiceOps
<1>3. CASE kind = "send"
  <2>1. /\ now = "none" => After(now, kind) = "new"
        /\ now # "none" => After(now, kind) = now
    BY <1>3 DEF After
  <2> QED
    BY <1>1, <1>2, <1>3, <2>1 DEF LeadsOn
<1>4. CASE kind = "edit"
  <2>1. /\ now = "none" => After(now, kind) = "none"
        /\ now # "none" => After(now, kind) = "edited"
    BY <1>4 DEF After
  <2> QED
    BY <1>1, <1>2, <1>4, <2>1 DEF LeadsOn
<1>5. CASE kind = "delete"
  <2>1. After(now, kind) = "none"
    BY <1>5 DEF After
  <2> QED
    BY <1>1, <1>2, <1>5, <2>1 DEF LeadsOn
<1> QED
  BY <1>2, <1>3, <1>4, <1>5

(* A letter about a message is received.                                   *)
LEMMA ReceiveKeeps ==
  ASSUME ChatInv, ReceiveMessage
  PROVE  ChatInv'
<1>1. PICK x, m, kind : x = Head(inbox) /\ m = x.m /\ kind = x.kind
  OBVIOUS
<1>2. PICK value : value = After(chatView.shown[m], kind)
  OBVIOUS
<1>3. /\ inbox # <<>> /\ inbox' = Tail(inbox) /\ kind \in ServiceOps
      /\ UNCHANGED <<own, room, text, joined, online, chatRequest, mounted, chatLoad, putOut,
                     strayed>>
      /\ chatView' = [chatView EXCEPT !.shown[m] = value,
                              !.sending = IF kind = "send" THEN SendingAfter(x) ELSE @]
      /\ crossed' = (crossed \/ OlderLoad(ChatLoads, m, value))
  <2>1. ShownAfter(x) = value
    BY <1>1, <1>2 DEF ShownAfter, After
  <2> QED
    BY <1>1, <2>1 DEF ReceiveMessage
<1>4. /\ inbox' \in Seq(Letters) /\ x \in Letters
      /\ x = inbox[1] /\ 1 \in DOMAIN inbox
      /\ \A i \in DOMAIN inbox : i # 1 => \E j \in DOMAIN inbox' : inbox'[j] = inbox[i]
      /\ \A i \in DOMAIN inbox' : \E j \in DOMAIN inbox : j # 1 /\ inbox'[i] = inbox[j]
      /\ \A s \in ChatRequests : At(s, "served")' <=> At(s, "served")
      /\ \A op, k : Coming(op, k)' => Coming(op, k)
      /\ \A op, k : Coming(op, k) => Coming(op, k)' \/ (op = kind /\ k = m)
      /\ Coming(kind, m)
      /\ ChannelFollows' /\ LettersTrue'
      /\ Uncrossed =>
           /\ NoneLost' /\ InTurn' /\ Ended'
           /\ (~joined /\ chatView'.active =>
                 \E j \in DOMAIN inbox' : inbox'[j].kind = "leave") => StaysJoined'
           /\ (~room.open /\ joined /\ ~(\E r \in ChatRequests : ClosingAt(r))
               /\ chatView'.listed =>
                 \E j \in DOMAIN inbox' : inbox'[j].kind = "close") => Closes'
  BY <1>1, <1>3, Taken
<1>5. m \in Messages /\ chatView.shown \in MessageRows
  BY <1>1, <1>3, <1>4 DEF Letters, ServiceOps, ChatInv, ChatTypeOK
<1>6. value \in {"none", "new", "edited"}
  BY <1>2, <1>5 DEF After, MessageRows
<1>7. /\ chatView' \in [listed : BOOLEAN, active : BOOLEAN, sending : Messages \cup {None},
                        saved : BOOLEAN, shown : MessageRows]
      /\ chatView'.active = chatView.active /\ chatView'.listed = chatView.listed
      /\ chatView'.shown[m] = value
      /\ \A k \in Messages : k # m => chatView'.shown[k] = chatView.shown[k]
      /\ \/ chatView'.sending = None
         \/ chatView'.sending = chatView.sending /\ ~(kind = "send" /\ m = chatView.sending)
  <2>1. PICK rows, sending : /\ rows = [chatView.shown EXCEPT ![m] = value]
                             /\ sending = IF kind = "send" THEN SendingAfter(x)
                                                           ELSE chatView.sending
    OBVIOUS
  <2>2. /\ rows \in MessageRows /\ rows[m] = value
        /\ \A k \in Messages : k # m => rows[k] = chatView.shown[k]
    BY <1>5, <1>6, <2>1 DEF MessageRows
  <2>3. /\ sending \in Messages \cup {None}
        /\ \/ sending = None
           \/ sending = chatView.sending /\ ~(kind = "send" /\ m = chatView.sending)
    BY <1>1, <2>1 DEF ChatInv, ChatTypeOK, SendingAfter
  <2>4. chatView' = [chatView EXCEPT !.shown = rows, !.sending = sending]
    BY <1>3, <2>1 DEF ChatInv, ChatTypeOK
  <2> QED
    BY <2>2, <2>3, <2>4 DEF ChatInv, ChatTypeOK
<1>8. ChatTypeOK'
  <2>1. crossed' \in BOOLEAN
    BY <1>3 DEF ChatInv, ChatTypeOK, OlderLoad
  <2> QED
    BY <1>3, <1>4, <1>7, <2>1 DEF ChatInv, ChatTypeOK
<1>9. /\ \A i \in DOMAIN inbox : i # 1 => \E j \in DOMAIN inbox' : inbox'[j] = inbox[i]
      /\ inbox[1].kind = kind /\ inbox[1].m = m
      /\ kind \in {"send", "edit", "delete"} /\ joined' = joined /\ own' = own
  BY <1>1, <1>3, <1>4 DEF ServiceOps
<1>10. ASSUME ~crossed'
       PROVE  Uncrossed'
  <2>1. Uncrossed /\ ~crossed /\ ~OlderLoad(ChatLoads, m, value)
    BY <1>3, <1>10 DEF ChatInv
  <2>2. StaysJoined'
    <3>1. ASSUME ~joined, chatView'.active
          PROVE  \E j \in DOMAIN inbox' : inbox'[j].kind = "leave"
      <4>1. PICK j \in DOMAIN inbox : inbox[j].kind = "leave"
        BY <1>7, <2>1, <3>1 DEF Uncrossed, StaysJoined
      <4> QED
        BY <1>9, <4>1
    <3> QED
      BY <1>4, <2>1, <3>1
  <2>3. Closes'
    <3>1. ASSUME ~room.open, joined, ~(\E r \in ChatRequests : ClosingAt(r)), chatView'.listed
          PROVE  \E j \in DOMAIN inbox' : inbox'[j].kind = "close"
      <4>1. PICK j \in DOMAIN inbox : inbox[j].kind = "close"
        BY <1>7, <2>1, <3>1 DEF Uncrossed, Closes
      <4> QED
        BY <1>9, <4>1
    <3> QED
      BY <1>4, <2>1, <3>1
  <2>4. Sends'
    <3>1. SUFFICES ASSUME chatView'.sending # None
                   PROVE  (\E r \in ChatRequests : Sending(r)') \/ (\E i \in DOMAIN inbox' : Sent(i)')
      BY DEF Sends
    <3>2. \A r \in ChatRequests : Sending(r) => Sending(r)'
      BY <1>3, <1>7, <3>1 DEF Sending
    <3>3. \A i \in DOMAIN inbox : Sent(i) => \E j \in DOMAIN inbox' : Sent(j)'
      <4>1. ~Sent(1)
        BY <1>7, <1>9, <3>1 DEF Sent
      <4> QED
        BY <1>7, <1>9, <3>1, <4>1 DEF Sent
    <3> QED
      BY <1>7, <2>1, <3>1, <3>2, <3>3 DEF Uncrossed, Sends
  <2>5. ASSUME InView'
        PROVE  Follows'
    <3>1. Follows
      <4>1. InView
        BY <1>7, <1>9, <2>5 DEF InView
      <4> QED
        BY <2>1, <4>1 DEF Uncrossed
    <3>2. kind = "delete" => \A k \in ServiceOps : ~Coming(k, m)'
      <4>1. SUFFICES ASSUME kind = "delete", NEW k \in ServiceOps, Coming(k, m)'
                     PROVE  FALSE
        OBVIOUS
      <4>2. Service(1)
        BY <1>9, <4>1 DEF Service, ServiceOps
      <4>3. CASE InBox(k, m)'
        <5>1. PICK j \in DOMAIN inbox : j # 1 /\ inbox[j].kind = k /\ inbox[j].m = m
          BY <1>4, <4>3 DEF InBox
        <5>2. 1 < j /\ Service(j)
          BY <4>1, <5>1 DEF ChatInv, ChatTypeOK, Service
        <5> QED
          BY <1>4, <1>9, <2>1, <4>1, <4>2, <5>1, <5>2 DEF Uncrossed, InTurn
      <4>4. CASE Served(k, m)'
        BY <1>3, <1>4, <1>9, <2>1, <4>1, <4>2, <4>4 DEF Served, Uncrossed, InTurn
      <4> QED
        BY <4>1, <4>3, <4>4 DEF Coming
    <3>3. kind # "send" => ~Coming("send", m)
      <4>1. SUFFICES ASSUME kind # "send", Coming("send", m)
                     PROVE  FALSE
        OBVIOUS
      <4>2. Service(1)
        BY <1>9 DEF Service, ServiceOps
      <4>3. CASE InBox("send", m)
        <5>1. PICK j \in DOMAIN inbox : inbox[j].kind = "send" /\ inbox[j].m = m
          BY <4>3 DEF InBox
        <5>2. 1 < j /\ Service(j)
          BY <1>9, <4>1, <5>1 DEF ChatInv, ChatTypeOK, Service, ServiceOps
        <5> QED
          BY <1>4, <1>9, <2>1, <4>2, <5>1, <5>2 DEF Uncrossed, InTurn
      <4>4. CASE Served("send", m)
        BY <1>4, <1>9, <2>1, <4>2, <4>4 DEF Served, Uncrossed, InTurn, ServiceOps
      <4> QED
        BY <4>1, <4>3, <4>4 DEF Coming
    <3>4. ASSUME NEW now \in {"none", "new", "edited"}
          PROVE  /\ LeadsOn(now, m) => LeadsOn(After(now, kind), m)'
                 /\ LeadsOn(After(now, kind), m) => LeadsOn(After(now, kind), m)'
      <4>1. \A k \in ServiceOps : k # kind /\ Coming(k, m) => Coming(k, m)'
        BY <1>4
      <4> QED
        BY <1>3, <1>4, <1>5, <3>2, <3>3, <4>1, Arrives DEF ChatInv
    <3>5. ASSUME NEW now, NEW k \in Messages \ {m}, LeadsOn(now, k)
          PROVE  LeadsOn(now, k)'
      <4>1. \A op : Coming(op, k)' <=> Coming(op, k)
        BY <1>4
      <4>2. text'[k] = text[k]
        BY <1>3
      <4> QED
        BY <3>5, <4>1, <4>2 DEF LeadsOn
    <3>6. chatView.shown[m] \in {"none", "new", "edited"}
      BY <1>5 DEF MessageRows
    <3>7. CASE \E l \in ChatLoads : LoadHas(l, "asked")
      BY <1>3, <3>7 DEF LoadHas, Follows
    <3>8. CASE \E l \in ChatLoads : LoadHas(l, "read") /\ Right(chatLoad[l].snapshot)
      <4>0. PICK l \in ChatLoads : LoadHas(l, "read") /\ Right(chatLoad[l].snapshot)
        BY <3>8
      <4>1. PICK rows : LoadHas(l, "read") /\ rows = chatLoad[l].snapshot /\ Right(rows)
        BY <4>0
      <4>2. rows[m] = value
        BY <2>1, <4>1 DEF OlderLoad, LoadHas
      <4>3. LeadsOn(rows[m], m)'
        <5>1. LeadsOn(value, m)
          BY <1>5, <4>1, <4>2 DEF Right
        <5>2. LeadsOn(value, m)'
          BY <1>2, <3>4, <3>6, <5>1
        <5> QED
          BY <4>2, <5>2
      <4>4. Right(rows)'
        BY <3>5, <4>1, <4>3 DEF Right
      <4>5. LoadHas(l, "read")' /\ chatLoad'[l].snapshot = rows
        BY <1>3, <4>1 DEF LoadHas
      <4> QED
        BY <4>4, <4>5 DEF Follows
    <3>9. CASE Right(chatView.shown) /\ \A l \in ChatLoads : chatLoad[l] = None
      <4>1. PICK rows : rows = chatView'.shown
        OBVIOUS
      <4>2. rows[m] = value /\ \A k \in Messages : k # m => rows[k] = chatView.shown[k]
        BY <1>7, <4>1
      <4>3. LeadsOn(value, m)'
        BY <1>2, <1>5, <3>4, <3>6, <3>9 DEF Right
      <4>4. ASSUME NEW k \in Messages
            PROVE  LeadsOn(rows[k], k)'
        <5>1. CASE k = m
          BY <4>2, <4>3, <5>1
        <5>2. CASE k # m
          BY <3>5, <3>9, <4>2, <5>2 DEF Right
        <5> QED
          BY <5>1, <5>2
      <4>5. Right(rows)'
        BY <4>4 DEF Right
      <4> QED
        BY <1>3, <3>9, <4>1, <4>5 DEF Follows
    <3> QED
      BY <3>1, <3>7, <3>8, <3>9 DEF Follows
  <2> QED
    BY <1>4, <2>1, <2>2, <2>3, <2>4, <2>5 DEF Uncrossed
<1> QED
  BY <1>4, <1>8, <1>10 DEF ChatInv

LEMMA ChatStarts ==
  ASSUME ChatInit
  PROVE  ChatInv
<1>1. \A r \in ChatRequests : chatRequest[r] = None
  BY DEF ChatInit
<1>2. ChatTypeOK
  <2>1. chatView \in [listed : BOOLEAN, active : BOOLEAN, sending : Messages \cup {None},
                      saved : BOOLEAN, shown : MessageRows]
    BY DEF ChatInit, Blank, MessageRows
  <2>2. inbox \in Seq(Letters)
    BY DEF ChatInit
  <2> QED
    BY <1>1, <2>1, <2>2 DEF ChatInit, ChatTypeOK, At
<1>3. DOMAIN inbox = {}
  BY DEF ChatInit
<1>4. ChannelFollows /\ LettersTrue
  BY <1>1, <1>3 DEF ChatInit, ChannelFollows, LettersTrue, Coming, InBox, Served, At
<1>5. NoneLost /\ InTurn /\ Ended
  BY <1>1, <1>3 DEF NoneLost, InTurn, Ended, At
<1>6. StaysJoined /\ Closes /\ Sends /\ ~InView
  BY <1>3 DEF ChatInit, StaysJoined, Closes, Sends, InView
<1> QED
  BY <1>2, <1>4, <1>5, <1>6 DEF ChatInv, Uncrossed

LEMMA ChatKeeps ==
  ASSUME ChatInv, [ChatNext]_chatVars
  PROVE  ChatInv'
<1>1. CASE UNCHANGED chatVars
  <2>1. /\ UNCHANGED <<own, room, text, joined, online, chatRequest, inbox, mounted, chatView>>
        /\ UNCHANGED <<chatLoad, putOut, strayed, crossed>>
    BY <1>1 DEF chatVars
  <2>2. ChatTypeOK' /\ SameServed
    BY <2>1 DEF ChatInv, ChatTypeOK, SameServed, At
  <2>3. ASSUME ~crossed'
        PROVE  ~crossed /\ NoneLost' /\ Sends' /\ (InView' => Follows')
    <3>1. Uncrossed /\ ~crossed
      BY <2>1, <2>3 DEF ChatInv
    <3>2. \A rows : Right(rows)' <=> Right(rows)
      BY <2>1, <2>2, SameComing, SameRight
    <3>3. InView' => InView
      BY <2>1 DEF InView
    <3> QED
      BY <2>1, <3>1, <3>2, <3>3 DEF Uncrossed, NoneLost, Sends, Sending, Sent, Follows, LoadHas
  <2> QED
    BY <2>1, <2>2, <2>3, NothingMoves
<1>2. CASE SelectOther \/ Reconnect \/ Unmount
  BY <1>2, ViewKeeps
<1>3. CASE Drop
  BY <1>3, DropKeeps
<1>4. CASE ReceiveMessage
  BY <1>4, ReceiveKeeps
<1>5. CASE MissEvent \/ \E l \in ChatLoads : LoadFails(l)
  BY <1>5, SpoiledKeeps
<1>6. CASE ReceiveError \/ ReceiveRemoval
  BY <1>6, AnswerKeeps
<1>7. CASE ReceiveList \/ ReceiveJoin
  BY <1>7, OpenKeeps
<1>8. CASE \E l \in ChatLoads : ReadMessages(l) \/ ShowMessages(l)
  BY <1>8, ReadKeeps, ShowKeeps
<1>9. CASE \E r \in ChatRequests : ServeMessage(r) \/ ServeOwner(r) \/ ServeMember(r)
  BY <1>9, MessageServed, RoomServed
<1>10. CASE \E r \in ChatRequests :
              AnnounceMessage(r) \/ AnnounceOwner(r) \/ AnnounceMember(r) \/ Refuse(r)
  BY <1>10, MessageAnnounced, OwnerAnnounced, MemberAnnounced, RefuseKeeps
<1>11. ASSUME NEW r \in ChatRequests, NEW op \in OwnerOps, OwnerAsks(r, op, None)
       PROVE  ChatInv'
  <2>1. /\ Ask(r, op, None) /\ chatView' = chatView /\ mounted' \in BOOLEAN
        /\ UNCHANGED <<own, room, text, joined, online, inbox, chatLoad, putOut, strayed, crossed>>
    BY <1>11 DEF OwnerAsks, ChatInv, ChatTypeOK
  <2> QED
    BY <2>1, AskKeeps
<1>12. ASSUME NEW r \in ChatRequests, NEW op \in ServiceOps, NEW m \in Messages,
              OwnerAsks(r, op, m) \/ ChangeMessage(r, op, m)
       PROVE  ChatInv'
  <2>1. /\ Ask(r, op, m) /\ chatView' = chatView /\ mounted' \in BOOLEAN
        /\ UNCHANGED <<own, room, text, joined, online, inbox, chatLoad, putOut, strayed, crossed>>
    BY <1>12 DEF OwnerAsks, ChangeMessage, ChatInv, ChatTypeOK
  <2> QED
    BY <2>1, AskKeeps
<1>13. ASSUME NEW r \in ChatRequests, NEW m \in Messages, SendMessage(r, m)
       PROVE  ChatInv'
  <2>1. /\ Ask(r, "send", m) /\ m \in own /\ mounted' \in BOOLEAN /\ "send" \in ServiceOps
        /\ chatView' = [chatView EXCEPT !.sending = m]
        /\ UNCHANGED <<own, room, text, joined, online, inbox, chatLoad, putOut, strayed, crossed>>
    BY <1>13 DEF SendMessage, ChatInv, ChatTypeOK, ServiceOps
  <2> QED
    BY <2>1, AskKeeps
<1>14. ASSUME NEW r \in ChatRequests, NEW op \in MemberOps, PanelAsks(r, op)
       PROVE  ChatInv'
  <2>1. /\ Ask(r, op, None) /\ chatView' = chatView /\ mounted' \in BOOLEAN
        /\ UNCHANGED <<own, room, text, joined, online, inbox, chatLoad, putOut, strayed, crossed>>
    BY <1>14 DEF PanelAsks, ChatInv, ChatTypeOK
  <2> QED
    BY <2>1, AskKeeps
<1>15. ASSUME NEW r \in ChatRequests, Mount(r)
       PROVE  ChatInv'
  <2>1. /\ Ask(r, "list", None) /\ chatView' = chatView /\ mounted' \in BOOLEAN
        /\ "list" \in MemberOps
        /\ UNCHANGED <<own, room, text, joined, online, inbox, chatLoad, putOut, strayed, crossed>>
    BY <1>15 DEF Mount, MemberOps
  <2> QED
    BY <2>1, AskKeeps
<1> QED
  BY <1>1, <1>2, <1>3, <1>4, <1>5, <1>6, <1>7, <1>8, <1>9, <1>10, <1>11, <1>12, <1>13, <1>14,
     <1>15 DEF ChatNext

(* The invariant holds in every state of a room in the chat.               *)
THEOREM ChatInductive == ChatSpec => []ChatInv
<1>1. ChatInit => ChatInv
  BY ChatStarts
<1>2. ChatInv /\ [ChatNext]_chatVars => ChatInv'
  BY ChatKeeps
<1> QED
  BY <1>1, <1>2, PTL DEF ChatSpec

(* The requests, letters and loads of a room are of the kinds there are.   *)
THEOREM ChatTypeCorrect == ChatSpec => []ChatTypeOK
<1>1. ChatInv => ChatTypeOK
  BY DEF ChatInv
<1> QED
  BY <1>1, ChatInductive, PTL

(* A socket in the channel of a room is that of a member, unless the owner *)
(* put the member out or the leave and a join crossed.                     *)
THEOREM ChannelHeld == ChatSpec => []ChannelIsMembers
<1>1. ChatInv => ChannelIsMembers
  BY DEF ChatInv, ChannelFollows, ChannelIsMembers, Quiet, At
<1> QED
  BY <1>1, ChatInductive, PTL

(* A view that nothing has spoiled comes to show what the room holds, lets *)
(* the member write, and gives up a room that has gone.                    *)
THEOREM ChatCatchesUp == ChatSpec => []ViewCatchesUp
<1>1. ASSUME ChatInv
      PROVE  ViewCatchesUp
  <2>1. SUFFICES ASSUME Quiet, joined, ~crossed
                 PROVE  /\ chatView.active /\ room.member => chatView.shown = Snapshot
                        /\ ~room.open => ~chatView.listed \/ ~mounted
                        /\ chatView.sending = None
    BY DEF ViewCatchesUp
  <2>2. /\ Uncrossed /\ ChatTypeOK /\ DOMAIN inbox = {}
        /\ \A r \in ChatRequests : chatRequest[r] = None
        /\ \A l \in ChatLoads : chatLoad[l] = None
    BY <1>1, <2>1 DEF ChatInv, Quiet
  <2>3. chatView.sending = None
    BY <2>2 DEF Uncrossed, Sends, Sending
  <2>4. ~room.open => ~chatView.listed
    BY <2>1, <2>2 DEF Uncrossed, Closes, ClosingAt, At
  <2>5. ASSUME chatView.active
        PROVE  chatView.shown = Snapshot
    <3>1. Right(chatView.shown)
      BY <2>1, <2>2, <2>5 DEF Uncrossed, InView, Follows, LoadHas
    <3>2. \A kind, m : ~Coming(kind, m)
      BY <2>2 DEF Coming, InBox, Served, At
    <3>3. \A m \in Messages : chatView.shown[m] = Snapshot[m]
      BY <2>2, <3>1, <3>2 DEF Right, LeadsOn, Snapshot, Absent, ChatTypeOK
    <3>4. chatView.shown \in MessageRows /\ Snapshot \in MessageRows
      BY <2>2 DEF ChatTypeOK, Snapshot, MessageRows, Absent
    <3> QED
      BY <3>3, <3>4 DEF MessageRows
  <2> QED
    BY <2>3, <2>4, <2>5
<1> QED
  BY <1>1, ChatInductive, PTL

-----------------------------------------------------------------------------
(* A document in its editor                                                *)

(* A document has its date when it is final, and so has what a save has read. *)
Dated ==
  /\ \A d \in Docs : row[d].final <=> row[d].dated
  /\ \A s \in DocSaves : docSave[s] # None /\ docSave[s].step # "asked" =>
       docSave[s].old # None /\ (docSave[s].old.final <=> docSave[s].old.dated)
  /\ \A l \in DocLoads : LoadAt(l, "read") => docLoad[l].row # None

(* Where there is no view nothing is awaited, and what is edited is open.  *)
OnScreen ==
  /\ document = None <=> editor = None
  /\ route = None =>
       /\ document = None /\ ~saving
       /\ \A l \in DocLoads : docLoad[l] = None
  /\ dirty \/ timer \/ attaching => document # None
  /\ \A s \in DocSaves : docSave[s] # None /\ docSave[s].heard => document # None

(* The document of the address is open, or will be.                        *)
Opened ==
  \/ route = None
  \/ \E l \in DocLoads : docLoad[l] # None /\ docLoad[l].uid = route
  \/ Open /\ document.uid = route /\ editor.uid = route

(* The one save under way keeps what is shown, but for later changes, for  *)
(* which there is a timer.                                                 *)
SaveHolds(s) ==
  LET q == docSave[s] IN
  /\ q.heard /\ q.uid = route /\ q.title = document.title
  /\ ~timer => q.content = editor.content
  /\ q.step # "written" => row[route].final = document.final
  /\ q.step # "asked" => q.old = row[route]
  /\ q.step = "written" => row[route].content = q.content /\ row[route].title = q.title

Together ==
  /\ ~redated
  /\ Opened
  /\ DocLoading => ~dirty /\ ~timer /\ ~SavesRunning
  /\ \A l \in DocLoads : LoadAt(l, "read") => docLoad[l].row = row[docLoad[l].uid]
  /\ \A s, t \in DocSaves : docSave[s] # None /\ docSave[t] # None => s = t
  /\ \A s \in DocSaves : docSave[s] # None => SaveHolds(s)
  /\ saving => attaching \/ SavesRunning
  /\ dirty => timer \/ SavesRunning
  /\ Open /\ ~DocLoading /\ ~SavesRunning =>
       /\ row[route].title = document.title /\ row[route].final = document.final
       /\ ~timer => row[route].content = editor.content

EditorInv == EditorTypeOK /\ Dated /\ OnScreen /\ (~docCrossed => Together)

LEMMA BeginSaveKeeps ==
  ASSUME EditorInv, Open, NEW s \in DocSaves, NEW t \in Titles, NEW f \in BOOLEAN,
         BeginSave(s, t, f), timer' \in BOOLEAN, timer' => timer,
         document' \in ShownDocs, document'.uid = document.uid, document'.title = t,
         document'.final = document.final,
         UNCHANGED <<row, route, editor, dirty, attaching, docLoad, redated>>
  PROVE  EditorInv'
<1> DEFINE q == docSave'[s]
<1>1. /\ document \in ShownDocs /\ editor \in Editors /\ document # None
      /\ docSave \in [DocSaves -> RunningSaves \cup {None}]
  BY EditorAssumption DEF EditorInv, EditorTypeOK, Open, OnScreen
<1>2. /\ q \in RunningSaves /\ q # None /\ q.heard /\ q.step = "asked" /\ q.title = t
      /\ q.uid = document.uid /\ q.content = editor.content
      /\ docSave' = [docSave EXCEPT ![s] = q]
  <2>1. document.uid \in Docs /\ editor.content \in Contents
    BY <1>1 DEF ShownDocs, Editors
  <2>2. PICK r : r = [uid |-> document.uid, content |-> editor.content, title |-> t,
                      final |-> f, step |-> "asked", old |-> None, heard |-> TRUE]
    OBVIOUS
  <2>3. r \in RunningSaves
    BY <2>1, <2>2 DEF RunningSaves
  <2>4. docSave' = [docSave EXCEPT ![s] = r]
    BY <2>2 DEF BeginSave
  <2>5. q = r
    BY <1>1, <2>4
  <2>6. /\ r.heard /\ r.step = "asked" /\ r.title = t /\ r.uid = document.uid
        /\ r.content = editor.content
    BY <2>2
  <2>7. r # None
    BY <2>3, EditorAssumption
  <2> QED
    BY <2>3, <2>4, <2>5, <2>6, <2>7
<1>3. EditorTypeOK'
  BY <1>1, <1>2 DEF EditorInv, EditorTypeOK, BeginSave
<1>4. /\ document' # None /\ editor' # None /\ saving' /\ route # None
      /\ \A x \in DocSaves : x # s => docSave'[x] = docSave[x]
  BY <1>1, <1>2, EditorAssumption DEF BeginSave, EditorInv, OnScreen, Open
<1>5. Dated' /\ OnScreen'
  BY <1>1, <1>2, <1>4 DEF EditorInv, Dated, OnScreen, LoadAt
<1>6. ASSUME ~docCrossed'
      PROVE  Together'
  <2>1. Together /\ ~DocLoading /\ \A x \in DocSaves : docSave[x] = None
    BY <1>6 DEF BeginSave, EditorInv, SavesRunning
  <2>2. \A x \in DocSaves : docSave'[x] # None => x = s
    BY <1>4, <2>1
  <2>3. ~DocLoading' /\ SavesRunning'
    BY <1>2, <2>1 DEF DocLoading, SavesRunning
  <2>4. document.uid = route /\ editor.uid = route /\ row[route].final = document.final
    BY <1>4, <2>1 DEF Together, Opened, DocLoading, SavesRunning, Open
  <2>5. Opened'
    BY <1>4, <2>4 DEF Opened, Open
  <2>6. SaveHolds(s)'
    BY <1>2, <2>4 DEF SaveHolds
  <2> QED
    BY <2>1, <2>2, <2>3, <2>5, <2>6 DEF Together, DocLoading, LoadAt
<1> QED
  BY <1>3, <1>5, <1>6 DEF EditorInv

LEMMA AutosaveFiresKeeps ==
  ASSUME EditorInv, NEW s \in DocSaves, AutosaveFires(s)
  PROVE  EditorInv'
  BY BeginSaveKeeps, EditorAssumption
  DEF EditorInv, EditorTypeOK, AutosaveFires, Open, ShownDocs

LEMMA ButtonKeeps ==
  ASSUME EditorInv, NEW s \in DocSaves, SaveButton(s) \/ Finalize(s)
  PROVE  EditorInv'
<1>1. document \in ShownDocs /\ document.title \in Titles /\ timer \in BOOLEAN /\ Open
  BY EditorAssumption DEF EditorInv, EditorTypeOK, SaveButton, Finalize, Open, ShownDocs
<1>2. CASE SaveButton(s)
  BY <1>1, <1>2, BeginSaveKeeps DEF SaveButton
<1>3. CASE Finalize(s)
  BY <1>1, <1>3, BeginSaveKeeps DEF Finalize
<1> QED
  BY <1>2, <1>3

LEMMA RenameKeeps ==
  ASSUME EditorInv, NEW s \in DocSaves, NEW t \in Titles, Rename(s, t)
  PROVE  EditorInv'
<1>1. document \in ShownDocs
  BY EditorAssumption DEF EditorInv, EditorTypeOK, Rename, Open
<1>2. /\ document' \in ShownDocs /\ document'.uid = document.uid /\ document'.title = t
      /\ document'.final = document.final
  BY <1>1 DEF Rename, ShownDocs
<1> QED
  BY <1>2, BeginSaveKeeps DEF EditorInv, EditorTypeOK, Rename, Open

LEMMA LeaveKeeps ==
  ASSUME EditorInv, Leave
  PROVE  EditorInv'
<1>1. docSave' \in [DocSaves -> RunningSaves \cup {None}]
  <2>1. ASSUME NEW x \in DocSaves, docSave[x] # None
        PROVE  docSave'[x] \in RunningSaves
    <3>1. docSave[x] \in RunningSaves
      BY <2>1 DEF EditorInv, EditorTypeOK
    <3>2. PICK p : p = [docSave[x] EXCEPT !.heard = FALSE]
      OBVIOUS
    <3>3. p \in RunningSaves
      BY <3>1, <3>2 DEF RunningSaves
    <3> QED
      BY <2>1, <3>2, <3>3 DEF Leave
  <2> QED
    BY <2>1 DEF Leave
<1>2. EditorTypeOK'
  BY <1>1 DEF EditorInv, EditorTypeOK, Leave
<1>3. \A x \in DocSaves : docSave'[x] # None =>
        /\ docSave[x] # None /\ ~docSave'[x].heard /\ docSave'[x].step = docSave[x].step
        /\ docSave'[x].old = docSave[x].old
  <2>1. ASSUME NEW x \in DocSaves, docSave[x] # None
        PROVE  /\ ~docSave'[x].heard /\ docSave'[x].step = docSave[x].step
               /\ docSave'[x].old = docSave[x].old
    <3>1. docSave[x] \in RunningSaves
      BY <2>1 DEF EditorInv, EditorTypeOK
    <3>2. PICK p : p = [docSave[x] EXCEPT !.heard = FALSE]
      OBVIOUS
    <3>3. ~p.heard /\ p.step = docSave[x].step /\ p.old = docSave[x].old
      BY <3>1, <3>2 DEF RunningSaves
    <3> QED
      BY <2>1, <3>2, <3>3 DEF Leave
  <2> QED
    BY <2>1 DEF Leave
<1>4. Dated'
  BY <1>3 DEF EditorInv, Dated, LoadAt, Leave
<1>5. OnScreen'
  BY <1>3 DEF EditorInv, OnScreen, Leave
<1>6. ASSUME ~docCrossed'
      PROVE  Together'
  <2>1. Together /\ ~SavesRunning
    BY <1>6 DEF Leave, EditorInv, DocUnsaved
  <2>2. \A x \in DocSaves : docSave'[x] = None
    BY <1>3, <2>1 DEF SavesRunning
  <2> QED
    BY <2>1, <2>2 DEF Together, Opened, LoadAt, DocLoading, Open, Leave
<1> QED
  BY <1>2, <1>4, <1>5, <1>6 DEF EditorInv

LEMMA LoadReadKeeps ==
  ASSUME EditorInv, NEW l \in DocLoads, LoadRead(l)
  PROVE  EditorInv'
<1>1. /\ docLoad[l] \in RunningLoads /\ docLoad[l] # None /\ row[docLoad[l].uid] \in DocRows
      /\ docLoad \in [DocLoads -> RunningLoads \cup {None}] /\ docLoad[l].uid \in Docs
  BY DEF EditorInv, EditorTypeOK, LoadRead, LoadAt, RunningLoads
<1>2. PICK p : p = [docLoad[l] EXCEPT !.step = "read", !.row = row[docLoad[l].uid]]
  OBVIOUS
<1>3. /\ p \in RunningLoads /\ p.uid = docLoad[l].uid /\ p.step = "read"
      /\ p.row = row[docLoad[l].uid]
  BY <1>1, <1>2 DEF RunningLoads
<1>4. docLoad' = [docLoad EXCEPT ![l] = p]
  BY <1>1, <1>2 DEF LoadRead
<1>5. /\ docLoad'[l] = p /\ p # None /\ p.row # None
      /\ \A x \in DocLoads : x # l => docLoad'[x] = docLoad[x]
  BY <1>1, <1>3, <1>4, EditorAssumption
<1>6. EditorTypeOK'
  BY <1>3, <1>4 DEF EditorInv, EditorTypeOK, LoadRead
<1>7. Dated' /\ OnScreen'
  BY <1>1, <1>3, <1>5 DEF EditorInv, Dated, OnScreen, LoadAt, LoadRead
<1>8. ASSUME ~docCrossed'
      PROVE  Together'
  <2>1. Together /\ (DocLoading' <=> DocLoading) /\ DocLoading
    BY <1>1, <1>5, <1>8 DEF EditorInv, DocLoading, LoadRead
  <2>2. \A x \in DocLoads : docLoad[x] # None =>
          docLoad'[x] # None /\ docLoad'[x].uid = docLoad[x].uid
    BY <1>1, <1>3, <1>5
  <2>3. Opened'
    BY <2>1, <2>2 DEF Together, Opened, Open, LoadRead
  <2> QED
    BY <1>3, <1>5, <2>1, <2>3 DEF Together, SaveHolds, SavesRunning, LoadAt, LoadRead
<1> QED
  BY <1>6, <1>7, <1>8 DEF EditorInv

LEMMA LoadShownKeeps ==
  ASSUME EditorInv, NEW l \in DocLoads, LoadShown(l)
  PROVE  EditorInv'
<1> DEFINE x == docLoad[l]
<1>1. /\ x \in RunningLoads /\ x # None /\ x.uid \in Docs /\ x.row \in DocRows
      /\ docLoad \in [DocLoads -> RunningLoads \cup {None}] /\ route # None
  BY DEF EditorInv, EditorTypeOK, Dated, OnScreen, LoadShown, LoadAt, RunningLoads
<1>2. /\ document' \in ShownDocs /\ document'.uid = x.uid /\ document'.title = x.row.title
      /\ document'.final = x.row.final
  BY <1>1 DEF LoadShown, DocRows, ShownDocs
<1>3. /\ editor' \in Editors /\ editor'.uid = x.uid /\ editor'.content = x.row.content
  BY <1>1 DEF LoadShown, DocRows, Editors
<1>4. /\ document' # None /\ editor' # None /\ docLoad'[l] = None
      /\ \A k \in DocLoads : k # l => docLoad'[k] = docLoad[k]
  BY <1>1, <1>2, <1>3, EditorAssumption DEF LoadShown
<1>5. EditorTypeOK'
  BY <1>2, <1>3 DEF EditorInv, EditorTypeOK, LoadShown
<1>6. Dated' /\ OnScreen'
  BY <1>1, <1>4 DEF EditorInv, Dated, OnScreen, LoadAt, LoadShown
<1>7. ASSUME ~docCrossed'
      PROVE  Together'
  <2>1. Together /\ DocLoading
    BY <1>1, <1>7 DEF EditorInv, LoadShown, DocLoading
  <2>2. x.uid = route \/ \E k \in DocLoads \ {l} : docLoad[k] # None /\ docLoad[k].uid = route
    BY <1>7 DEF LoadShown
  <2>3. Opened' /\ (~DocLoading' => x.uid = route)
    BY <1>2, <1>3, <1>4, <2>2 DEF Opened, Open, DocLoading, LoadShown
  <2>4. x.row = row[x.uid]
    BY <2>1 DEF Together, LoadShown
  <2>5. \A s \in DocSaves : docSave[s] = None
    BY <2>1 DEF Together, SavesRunning
  <2> QED
    BY <1>2, <1>3, <1>4, <2>1, <2>3, <2>4, <2>5
    DEF Together, SavesRunning, LoadAt, LoadShown
<1> QED
  BY <1>5, <1>6, <1>7 DEF EditorInv

LEMMA SaveReadKeeps ==
  ASSUME EditorInv, NEW s \in DocSaves, SaveRead(s)
  PROVE  EditorInv'
<1> DEFINE q == docSave[s]
<1>1. /\ q \in RunningSaves /\ q # None /\ q.uid \in Docs /\ row[q.uid] \in DocRows
      /\ docSave \in [DocSaves -> RunningSaves \cup {None}]
  BY DEF EditorInv, EditorTypeOK, SaveRead, SaveAt, RunningSaves
<1>2. PICK p : p = [q EXCEPT !.step = "read", !.old = row[q.uid]]
  OBVIOUS
<1>3. /\ p \in RunningSaves /\ p.uid = q.uid /\ p.title = q.title /\ p.content = q.content
      /\ p.heard = q.heard /\ p.step = "read" /\ p.old = row[q.uid]
  BY <1>1, <1>2 DEF RunningSaves
<1>4. docSave' = [docSave EXCEPT ![s] = p]
  BY <1>1, <1>2 DEF SaveRead
<1>5. /\ docSave'[s] = p /\ p # None /\ p.old # None
      /\ \A x \in DocSaves : x # s => docSave'[x] = docSave[x]
  BY <1>1, <1>3, <1>4, EditorAssumption
<1>6. EditorTypeOK'
  BY <1>3, <1>4 DEF EditorInv, EditorTypeOK, SaveRead
<1>7. Dated' /\ OnScreen'
  BY <1>1, <1>3, <1>5 DEF EditorInv, Dated, OnScreen, LoadAt, SaveRead
<1>8. ASSUME ~docCrossed'
      PROVE  Together'
  <2>1. Together /\ (SavesRunning' <=> SavesRunning)
    BY <1>1, <1>5, <1>8 DEF EditorInv, SavesRunning, SaveRead
  <2>2. SaveAt(s, "asked") /\ SaveHolds(s)
    BY <1>1, <2>1 DEF Together, SaveRead
  <2>3. SaveHolds(s)'
    BY <1>3, <1>5, <2>2 DEF SaveHolds, SaveAt, SaveRead
  <2>4. \A x \in DocSaves : docSave'[x] # None => x = s
    BY <1>1, <1>5, <2>1 DEF Together
  <2> QED
    BY <2>1, <2>3, <2>4 DEF Together, Opened, Open, DocLoading, LoadAt, SaveRead
<1> QED
  BY <1>6, <1>7, <1>8 DEF EditorInv

(* What is written is the row read, patched.                               *)
LEMMA RowPatched ==
  ASSUME NEW q \in RunningSaves, NEW now \in DocRows, q.old \in DocRows,
         q.old.final <=> q.old.dated, now.final <=> now.dated,
         NEW new, new = DocPatched(q), NEW r,
         r = [c \in DOMAIN now |-> IF new[c] # q.old[c] THEN new[c] ELSE now[c]]
  PROVE  /\ new \in DocRows /\ (new.final <=> new.dated)
         /\ new.content = q.content /\ new.title = q.title
         /\ r \in DocRows /\ (r.final <=> r.dated)
         /\ q.old = now => r = new
<1>1. /\ new \in DocRows /\ new.content = q.content /\ new.title = q.title
      /\ new.final <=> q.final \/ q.old.final
      /\ new.dated <=> q.old.dated \/ (q.final /\ ~q.old.final)
  BY DEF DocPatched, DocRows, RunningSaves
<1>2. DOMAIN now = {"content", "title", "final", "dated"}
  BY DEF DocRows
<1>3. r = [content |-> r.content, title |-> r.title, final |-> r.final, dated |-> r.dated]
  BY <1>2
<1>4. /\ r.content = IF new.content # q.old.content THEN new.content ELSE now.content
      /\ r.title = IF new.title # q.old.title THEN new.title ELSE now.title
      /\ r.final = IF new.final # q.old.final THEN new.final ELSE now.final
      /\ r.dated = IF new.dated # q.old.dated THEN new.dated ELSE now.dated
  BY <1>2
<1>5. /\ r.content \in Contents /\ r.title \in Titles /\ r.final \in BOOLEAN
      /\ r.dated \in BOOLEAN
  BY <1>1, <1>4 DEF DocRows
<1>6. r \in DocRows
  BY <1>3, <1>5 DEF DocRows
<1>7. r.final <=> r.dated
  BY <1>1, <1>4 DEF DocRows
<1>8. ASSUME q.old = now
      PROVE  r = new
  BY <1>1, <1>4, <1>6, <1>8 DEF DocRows
<1> QED
  BY <1>1, <1>6, <1>7, <1>8

LEMMA SaveWriteKeeps ==
  ASSUME EditorInv, NEW s \in DocSaves, SaveWrite(s)
  PROVE  EditorInv'
<1> DEFINE q == docSave[s]
           new == DocPatched(q)
           now == row[q.uid]
<1>1. /\ q \in RunningSaves /\ q # None /\ q.uid \in Docs /\ now \in DocRows
      /\ q.old \in DocRows /\ (q.old.final <=> q.old.dated) /\ (now.final <=> now.dated)
      /\ docSave \in [DocSaves -> RunningSaves \cup {None}] /\ row \in [Docs -> DocRows]
      /\ q.step = "read"
  BY DEF EditorInv, EditorTypeOK, Dated, SaveWrite, SaveAt, RunningSaves
<1>2. PICK r : r = [c \in DOMAIN now |-> IF new[c] # q.old[c] THEN new[c] ELSE now[c]]
  OBVIOUS
<1>3. /\ new \in DocRows /\ (new.final <=> new.dated)
      /\ new.content = q.content /\ new.title = q.title
      /\ r \in DocRows /\ (r.final <=> r.dated)
      /\ q.old = now => r = new
  BY <1>1, <1>2, RowPatched
<1>4. PICK p : p = [q EXCEPT !.step = "written", !.old = new]
  OBVIOUS
<1>5. /\ p \in RunningSaves /\ p.uid = q.uid /\ p.title = q.title /\ p.content = q.content
      /\ p.heard = q.heard /\ p.step = "written" /\ p.old = new
  BY <1>1, <1>3, <1>4 DEF RunningSaves
<1>6. docSave' = [docSave EXCEPT ![s] = p] /\ row' = [row EXCEPT ![q.uid] = r]
  BY <1>1, <1>2, <1>4 DEF SaveWrite
<1>7. /\ docSave'[s] = p /\ p # None /\ p.old # None /\ row'[q.uid] = r
      /\ \A x \in DocSaves : x # s => docSave'[x] = docSave[x]
      /\ \A d \in Docs : d # q.uid => row'[d] = row[d]
  BY <1>1, <1>3, <1>5, <1>6, EditorAssumption
<1>8. EditorTypeOK'
  <2>1. redated' \in BOOLEAN
    BY DEF SaveWrite
  <2> QED
    BY <1>1, <1>3, <1>5, <1>6, <2>1 DEF EditorInv, EditorTypeOK, SaveWrite
<1>9. Dated' /\ OnScreen'
  BY <1>1, <1>3, <1>5, <1>7 DEF EditorInv, Dated, OnScreen, LoadAt, SaveWrite
<1>10. ASSUME ~docCrossed'
       PROVE  Together'
  <2>1. Together /\ SavesRunning /\ SavesRunning'
    BY <1>1, <1>7, <1>10 DEF EditorInv, SavesRunning, SaveWrite
  <2>2. SaveHolds(s) /\ ~DocLoading
    BY <1>1, <2>1 DEF Together
  <2>3. q.old = now /\ q.uid = route
    BY <1>1, <2>2 DEF SaveHolds
  <2>4. SaveHolds(s)'
    BY <1>3, <1>5, <1>7, <2>2, <2>3 DEF SaveHolds, SaveWrite
  <2>5. \A x \in DocSaves : docSave'[x] # None => x = s
    BY <1>1, <1>7, <2>1 DEF Together
  <2>6. ~redated'
    BY <1>1, <2>1, <2>3 DEF Together, SaveWrite
  <2>7. \A l \in DocLoads : docLoad'[l] = None
    BY <2>2 DEF DocLoading, SaveWrite
  <2> QED
    BY <2>1, <2>4, <2>5, <2>6, <2>7 DEF Together, Opened, Open, DocLoading, LoadAt, SaveWrite
<1> QED
  BY <1>8, <1>9, <1>10 DEF EditorInv

LEMMA SaveAnsweredKeeps ==
  ASSUME EditorInv, NEW s \in DocSaves, SaveAnswered(s)
  PROVE  EditorInv'
<1> DEFINE q == docSave[s]
<1>1. /\ q \in RunningSaves /\ q # None /\ q.uid \in Docs /\ q.old \in DocRows
      /\ docSave \in [DocSaves -> RunningSaves \cup {None}] /\ q.step = "written"
  BY DEF EditorInv, EditorTypeOK, Dated, SaveAnswered, SaveAt, RunningSaves
<1>2. /\ docSave'[s] = None
      /\ \A x \in DocSaves : x # s => docSave'[x] = docSave[x]
  BY <1>1 DEF SaveAnswered
<1>3. q.heard => /\ document' \in ShownDocs /\ document'.uid = q.uid
                 /\ document'.title = q.old.title /\ document'.final = q.old.final
                 /\ document' # None
  BY <1>1, EditorAssumption DEF SaveAnswered, ShownDocs, DocRows
<1>4. EditorTypeOK'
  BY <1>3 DEF EditorInv, EditorTypeOK, SaveAnswered
<1>5. Dated' /\ OnScreen'
  BY <1>1, <1>2, <1>3 DEF EditorInv, Dated, OnScreen, LoadAt, SaveAnswered
<1>6. ASSUME ~docCrossed'
      PROVE  Together'
  <2>1. Together /\ SavesRunning
    BY <1>1, <1>6 DEF EditorInv, SavesRunning, SaveAnswered
  <2>2. SaveHolds(s) /\ ~DocLoading /\ \A x \in DocSaves : docSave'[x] = None
    BY <1>1, <1>2, <2>1 DEF Together
  <2>3. q.heard /\ q.uid = route /\ q.old = row[route]
    BY <1>1, <2>2 DEF SaveHolds
  <2>4. Opened'
    BY <1>3, <2>1, <2>2, <2>3 DEF Together, Opened, Open, DocLoading, SaveAnswered
  <2> QED
    BY <1>1, <1>3, <2>1, <2>2, <2>3, <2>4
    DEF Together, SaveHolds, SavesRunning, Open, DocLoading, LoadAt, SaveAnswered
<1> QED
  BY <1>4, <1>5, <1>6 DEF EditorInv

LEMMA NavigateKeeps ==
  ASSUME EditorInv, NEW l \in DocLoads, NEW d \in Docs, Navigate(l, d)
  PROVE  EditorInv'
<1>1. EditorTypeOK'
  BY DEF EditorInv, EditorTypeOK, RunningLoads, Navigate
<1>2. /\ docLoad'[l] # None /\ docLoad'[l].uid = d /\ docLoad'[l].step = "asked"
      /\ \A x \in DocLoads : x # l => docLoad'[x] = docLoad[x]
  <2>1. [uid |-> d, step |-> "asked", row |-> None] \in RunningLoads
    BY DEF RunningLoads
  <2> QED
    BY <2>1, EditorAssumption DEF EditorInv, EditorTypeOK, Navigate
<1>3. d # None
  BY EditorAssumption
<1>4. Dated' /\ OnScreen'
  BY <1>2, <1>3 DEF EditorInv, Dated, OnScreen, LoadAt, Navigate
<1>5. ASSUME ~docCrossed'
      PROVE  Together'
  <2>1. Together /\ ~DocUnsaved
    BY <1>5 DEF EditorInv, Navigate
  <2>2. Opened' /\ DocLoading'
    BY <1>2 DEF Opened, DocLoading, Navigate
  <2> QED
    BY <1>2, <2>1, <2>2 DEF Together, DocUnsaved, SavesRunning, LoadAt, Navigate
<1> QED
  BY <1>1, <1>4, <1>5 DEF EditorInv

LEMMA FailureKeeps ==
  ASSUME EditorInv,
         (\E l \in DocLoads : DocLoadFails(l)) \/ \E s \in DocSaves : SaveFails(s)
  PROVE  EditorInv'
<1>1. ASSUME NEW l \in DocLoads, DocLoadFails(l)
      PROVE  EditorInv'
  BY <1>1 DEF DocLoadFails, EditorInv, EditorTypeOK, Dated, OnScreen, LoadAt
<1>2. ASSUME NEW s \in DocSaves, SaveFails(s)
      PROVE  EditorInv'
  BY <1>2 DEF SaveFails, EditorInv, EditorTypeOK, Dated, OnScreen, LoadAt
<1> QED
  BY <1>1, <1>2

(* The content changes, by the keyboard or with an attachment.             *)
LEMMA ChangeKeeps ==
  ASSUME EditorInv, NEW c \in Contents, Edit(c) \/ Attached(c)
  PROVE  EditorInv'
<1>1. /\ document # None /\ editor # None /\ editor \in Editors /\ Open /\ MarkChanged(c)
      /\ UNCHANGED <<row, route, document, docLoad, docSave, redated>>
      /\ saving' \in BOOLEAN /\ attaching' \in BOOLEAN
      /\ UNCHANGED <<saving, attaching>> \/ (~saving' /\ ~attaching')
  BY DEF EditorInv, EditorTypeOK, OnScreen, Open, Edit, Attached
<1>2. /\ editor' \in Editors /\ editor'.uid = editor.uid /\ editor' # None
  BY <1>1, EditorAssumption DEF MarkChanged, Editors
<1>3. EditorTypeOK'
  BY <1>1, <1>2 DEF EditorInv, EditorTypeOK, MarkChanged
<1>4. Dated' /\ OnScreen'
  BY <1>1, <1>2 DEF EditorInv, Dated, OnScreen, LoadAt, MarkChanged
<1>5. ASSUME ~docCrossed'
      PROVE  Together'
  <2>1. Together /\ ~DocLoading /\ timer' /\ ~DocLoading'
    BY <1>1, <1>5 DEF EditorInv, MarkChanged, DocLoading
  <2>2. Opened' /\ Open'
    BY <1>1, <1>2, <2>1 DEF Together, Opened, Open, DocLoading
  <2>3. \A s \in DocSaves : docSave'[s] # None => SaveHolds(s)'
    BY <1>1, <2>1 DEF Together, SaveHolds
  <2> QED
    BY <1>1, <2>1, <2>2, <2>3 DEF Together, Open, SavesRunning, DocLoading, LoadAt
<1> QED
  BY <1>3, <1>4, <1>5 DEF EditorInv

LEMMA AttachKeeps ==
  ASSUME EditorInv, Attach \/ AttachFails
  PROVE  EditorInv'
<1>1. EditorTypeOK' /\ Dated' /\ OnScreen'
  BY DEF EditorInv, EditorTypeOK, Dated, OnScreen, Open, LoadAt, Attach, AttachFails
<1>2. ASSUME ~docCrossed'
      PROVE  Together'
  BY <1>2 DEF EditorInv, Together, Opened, SaveHolds, Open, SavesRunning, DocLoading, LoadAt,
              Attach, AttachFails
<1> QED
  BY <1>1, <1>2 DEF EditorInv

(* What the view shows and what requests have read agree with the gateway, *)
(* until docCrossed: this holds for all documents, contents and titles,    *)
(* and however many loads and saves there may be.                          *)
THEOREM EditorInductive == EditorSpec => []EditorInv
<1>1. EditorInit => EditorInv
  <2>1. ASSUME EditorInit
        PROVE  EditorTypeOK /\ Dated /\ OnScreen /\ Together
    BY <2>1 DEF EditorInit, EditorTypeOK, Dated, OnScreen, Together, Opened, Open, DocLoading,
                SavesRunning, LoadAt
  <2> QED
    BY <2>1 DEF EditorInv
<1>2. EditorInv /\ [EditorNext]_editorVars => EditorInv'
  <2> SUFFICES ASSUME EditorInv, [EditorNext]_editorVars
               PROVE  EditorInv'
    OBVIOUS
  <2>1. CASE UNCHANGED editorVars
    BY <2>1 DEF editorVars, EditorInv, EditorTypeOK, Dated, OnScreen, Together, Opened,
                SaveHolds, Open, DocLoading, SavesRunning, LoadAt
  <2>2. CASE Leave \/ Attach \/ AttachFails
    BY <2>2, LeaveKeeps, AttachKeeps
  <2>3. CASE \E c \in Contents : Edit(c) \/ Attached(c)
    BY <2>3, ChangeKeeps
  <2>4. CASE \E l \in DocLoads :
               \/ \E d \in Docs : Navigate(l, d)
               \/ LoadRead(l) \/ LoadShown(l) \/ DocLoadFails(l)
    BY <2>4, NavigateKeeps, LoadReadKeeps, LoadShownKeeps, FailureKeeps
  <2>5. CASE \E s \in DocSaves :
               \/ AutosaveFires(s) \/ SaveButton(s) \/ Finalize(s)
               \/ \E t \in Titles : Rename(s, t)
    BY <2>5, AutosaveFiresKeeps, ButtonKeeps, RenameKeeps
  <2>6. CASE \E s \in DocSaves : SaveRead(s) \/ SaveWrite(s) \/ SaveAnswered(s) \/ SaveFails(s)
    BY <2>6, SaveReadKeeps, SaveWriteKeeps, SaveAnsweredKeeps, FailureKeeps
  <2> QED
    BY <2>1, <2>2, <2>3, <2>4, <2>5, <2>6 DEF EditorNext
<1> QED
  BY <1>1, <1>2, PTL DEF EditorSpec

(* Documents, the refs of the view and the requests keep their types.      *)
THEOREM EditorTypeCorrect == EditorSpec => []EditorTypeOK
<1>1. EditorInv => EditorTypeOK
  BY DEF EditorInv
<1> QED
  BY <1>1, EditorInductive, PTL

(* The gateway holds what the editor shows once all is quiet, unless one   *)
(* of the situations that docCrossed names has come up; finalizedAt stays. *)
THEOREM EditorSaved == EditorSpec => []SavedWhenQuiet
<1>1. EditorInv => SavedWhenQuiet
  BY DEF EditorInv, Dated, OnScreen, Together, Opened, SavedWhenQuiet, Open, DocLoading
<1> QED
  BY <1>1, EditorInductive, PTL

-----------------------------------------------------------------------------
(* The lists of files                                                      *)

(* A list that has only been asked for has nothing in it.                  *)
ListsTrue ==
  \A l \in FileLoads :
    ListAt(l, "asked") => lists[l].left = Tables /\ lists[l].rows = NoRows /\ ~lists[l].old

(* An answer that is not old says what is kept of its item, and is the     *)
(* only one that does; who may not manage the files asks for no change.    *)
Says(c, i) == CallAt(c, "done") /\ ~call[c].old /\ call[c].item = i

Pending(c) == call[c] # None /\ call[c].step # "done"

CallsTrue ==
  /\ \A c \in Calls : Pending(c) => ~call[c].old
  /\ \A c \in Calls, i \in Items : Says(c, i) => call[c].row = kept[i]
  /\ \A c, d \in Calls, i \in Items : Says(c, i) /\ Says(d, i) => c = d
  /\ (\E c \in Calls : call[c] # None) \/ bulk # None => CanManage

(* What has the list loaded again is of a view that is there.              *)
Here ==
  place = None =>
    /\ ~soon /\ ~field
    /\ bulk # None => ~bulk.heard
    /\ \A c \in Calls : call[c] # None /\ call[c].op = "create" => ~call[c].heard

(* runLimited has no more at work than it has workers.                     *)
Within == bulk # None => Cardinality(Busy) <= bulk.workers

(* A row listed is what is kept, or will be by an answer no event follows. *)
Expected(i) == IF Place[i] = place /\ MayList(i) THEN kept[i] ELSE None

Mends(c, i, entry) == Says(c, i) /\ ~call[c].told /\ (call[c].op = "update" => entry # None)

RightRow(entry, i) ==
  entry = Expected(i) \/ (Place[i] = place /\ \E c \in Calls : Mends(c, i, entry))

Unread(l, i) == \E table \in lists[l].left : i \in table

Reading(l) ==
  /\ lists[l] # None /\ lists[l].of = place /\ ~lists[l].old
  /\ \A i \in Items : IF Unread(l, i) THEN lists[l].rows[i] = None
                                      ELSE RightRow(lists[l].rows[i], i)

(* What is shown is right, or will be overwritten by what is.              *)
Followed ==
  \/ \E l \in FileLoads : Reading(l)
  \/ /\ shown.of = place /\ \A i \in Items : RightRow(shown.rows[i], i)
     /\ \A l \in FileLoads : lists[l] # None => lists[l].of # place

(* The list will be loaded again, could not be loaded, or an answer is old. *)
Excused ==
  \/ soon \/ events > 0 \/ missed
  \/ \E c \in Calls : call[c] # None /\ call[c].old
  \/ \E l \in FileLoads : lists[l] # None /\ lists[l].old

Looks == place \in Places /\ ~apart => Excused \/ Followed

FilesInv == FilesTypeOK /\ ListsTrue /\ CallsTrue /\ Here /\ Within /\ Looks

(* The answers that are not old stay as they are.                          *)
SameAnswers ==
  \A c \in Calls :
    /\ \A i : Says(c, i)' <=> Says(c, i)
    /\ \A i : Says(c, i) => /\ call'[c].told = call[c].told /\ call'[c].op = call[c].op
                            /\ call'[c].row = call[c].row

LEMMA SameRows ==
  ASSUME UNCHANGED <<viewer, kept, place>>, SameAnswers
  PROVE  \A entry, i : RightRow(entry, i)' <=> RightRow(entry, i)
<1>1. \A c \in Calls : \A i, entry : Mends(c, i, entry)' <=> Mends(c, i, entry)
  BY DEF Mends, SameAnswers
<1>2. \A i : Expected(i)' = Expected(i)
  BY DEF Expected, MayList, CanManage
<1> QED
  BY <1>1, <1>2 DEF RightRow

LEMMA SameReading ==
  ASSUME UNCHANGED <<viewer, kept, place>>, SameAnswers, NEW l, lists'[l] = lists[l]
  PROVE  Reading(l)' <=> Reading(l)
<1>1. \A i : Unread(l, i)' <=> Unread(l, i)
  BY DEF Unread
<1> QED
  BY <1>1, SameRows DEF Reading

LEMMA LooksStay ==
  ASSUME Looks, UNCHANGED <<viewer, kept, place, shown, lists>>, SameAnswers,
         apart => apart', place \in Places /\ Excused => Excused' \/ apart'
  PROVE  Looks'
<1>1. \A l \in FileLoads : Reading(l)' <=> Reading(l)
  BY SameReading
<1>2. Followed => Followed'
  BY <1>1, SameRows DEF Followed
<1> QED
  BY <1>2 DEF Looks

(* A list is asked for.                                                    *)
LEMMA ListAsked ==
  ASSUME FilesTypeOK, ListsTrue, NEW l \in FileLoads, NEW p \in Places \cup {Overview},
         AsksList(l, p)
  PROVE  /\ lists' \in [FileLoads -> RunningLists \cup {None}] /\ ListsTrue'
         /\ p = place' => Reading(l)'
         /\ \A k \in FileLoads : k # l => lists'[k] = lists[k]
<1>1. PICK x : x = [of |-> p, step |-> "asked", left |-> Tables, rows |-> NoRows, old |-> FALSE]
  OBVIOUS
<1>2. /\ x \in RunningLists /\ x.of = p /\ x.step = "asked" /\ x.left = Tables
      /\ x.rows = NoRows /\ ~x.old
  BY <1>1 DEF RunningLists, NoRows, Lists
<1>3. /\ lists'[l] = x /\ \A k \in FileLoads : k # l => lists'[k] = lists[k]
      /\ lists' \in [FileLoads -> RunningLists \cup {None}] /\ x # None
  <2>1. lists \in [FileLoads -> RunningLists \cup {None}] /\ lists' = [lists EXCEPT ![l] = x]
    BY <1>1 DEF AsksList, FilesTypeOK
  <2>2. None \notin RunningLists
    BY FilesAssumption
  <2> QED
    BY <1>2, <2>1, <2>2
<1>4. ListsTrue'
  BY <1>2, <1>3 DEF ListsTrue, ListAt
<1>5. \A i \in Items : Unread(l, i)' /\ lists'[l].rows[i] = None
  BY <1>2, <1>3 DEF Unread, Items, Tables, NoRows
<1>6. p = place' => Reading(l)'
  BY <1>2, <1>3, <1>5 DEF Reading
<1> QED
  BY <1>3, <1>4, <1>6

LEMMA ReadingFollows ==
  ASSUME NEW l \in FileLoads, place' \in Places => Reading(l)'
  PROVE  Looks'
  BY DEF Looks, Followed

(* A request that changes something begins.                                *)
LEMMA CallBegins ==
  ASSUME FilesTypeOK, CallsTrue, NEW c \in Calls, NEW op, NEW i \in Items, NEW entry,
         NEW many \in BOOLEAN, Begin(c, op, i, entry, many),
         \/ op = "create" /\ entry \in Rows
         \/ op = "update" /\ entry \in Patches
         \/ op = "delete" /\ entry = <<>>,
         CanManage, UNCHANGED <<viewer, kept>>
  PROVE  /\ call' \in [Calls -> RunningCalls \cup {None}] /\ CallsTrue' /\ SameAnswers
         /\ call[c] = None /\ call'[c] # None /\ call'[c].op = op /\ call'[c].many = many
         /\ ~call'[c].old
         /\ \A d \in Calls : d # c => call'[d] = call[d]
<1>1. PICK q : q = [op |-> op, item |-> i, row |-> entry, read |-> None, many |-> many,
                    step |-> "asked", heard |-> TRUE, told |-> FALSE, old |-> FALSE]
  OBVIOUS
<1>2. /\ q \in RunningCalls /\ q.op = op /\ q.many = many /\ q.step = "asked" /\ ~q.old
  BY <1>1 DEF RunningCalls, CallOf
<1>3. /\ call'[c] = q /\ \A d \in Calls : d # c => call'[d] = call[d]
      /\ call' \in [Calls -> RunningCalls \cup {None}] /\ q # None /\ call[c] = None
  <2>1. /\ call \in [Calls -> RunningCalls \cup {None}] /\ call' = [call EXCEPT ![c] = q]
        /\ call[c] = None
    BY <1>1 DEF Begin, FilesTypeOK
  <2>2. None \notin RunningCalls
    BY FilesAssumption
  <2> QED
    BY <1>2, <2>1, <2>2
<1>4. \A d \in Calls : \A k : Says(d, k)' <=> Says(d, k)
  BY <1>2, <1>3 DEF Says, CallAt
<1>5. SameAnswers
  BY <1>3, <1>4 DEF SameAnswers, Says, CallAt
<1>6. CallsTrue'
  <2>1. \A d \in Calls : Pending(d)' => ~call'[d].old
    BY <1>2, <1>3 DEF CallsTrue, Pending
  <2>2. \A d \in Calls, k \in Items : Says(d, k)' => call'[d].row = kept'[k]
    BY <1>5 DEF CallsTrue, SameAnswers
  <2>3. \A d, e \in Calls, k \in Items : Says(d, k)' /\ Says(e, k)' => d = e
    BY <1>5 DEF CallsTrue, SameAnswers
  <2>4. CanManage'
    BY DEF CanManage
  <2> QED
    BY <2>1, <2>2, <2>3, <2>4 DEF CallsTrue
<1> QED
  BY <1>2, <1>3, <1>5, <1>6

LEMMA FilesStart ==
  ASSUME FilesInit
  PROVE  FilesInv
<1>1. /\ \A l \in FileLoads : lists[l] = None
      /\ \A c \in Calls : call[c] = None
      /\ bulk = None /\ place = None /\ soon = FALSE /\ field = FALSE
  BY DEF FilesInit
<1>2. FilesTypeOK
  <2>1. shown \in [of : Places \cup {Overview, None}, rows : Lists]
    BY DEF FilesInit, NoRows, Lists
  <2>2. kept \in Lists
    BY DEF FilesInit, Lists, Rows
  <2>3. /\ lists \in [FileLoads -> RunningLists \cup {None}]
        /\ call \in [Calls -> RunningCalls \cup {None}]
    BY DEF FilesInit
  <2>4. /\ viewer \in {"owner", "super", "other"} /\ place = None /\ picked = {}
        /\ events = 0 /\ bulk = None /\ missed = FALSE /\ downloading = FALSE
        /\ naming = FALSE /\ field = FALSE /\ soon = FALSE /\ connected = TRUE /\ apart = FALSE
    BY DEF FilesInit
  <2>5. /\ place \in Places \cup {Overview, None} /\ picked \subseteq Items
        /\ events \in 0..MaxEvents /\ bulk \in RunningBulks \cup {None}
    BY <2>4, FilesAssumption
  <2>6. /\ missed \in BOOLEAN /\ downloading \in BOOLEAN /\ naming \in BOOLEAN
        /\ field \in BOOLEAN /\ soon \in BOOLEAN /\ connected \in BOOLEAN /\ apart \in BOOLEAN
    BY <2>4
  <2> QED
    BY <2>1, <2>2, <2>3, <2>4, <2>5, <2>6 DEF FilesTypeOK
<1>3. ListsTrue
  BY <1>1 DEF ListsTrue, ListAt
<1>4. CallsTrue
  BY <1>1 DEF CallsTrue, Says, CallAt, Pending
<1>5. Here /\ Within
  BY <1>1 DEF Here, Within
<1>6. Looks
  <2>1. None \notin Places
    BY FilesAssumption
  <2> QED
    BY <1>1, <2>1 DEF Looks
<1> QED
  BY <1>2, <1>3, <1>4, <1>5, <1>6 DEF FilesInv

(* What neither changes a row nor loads a list nor ends a request.         *)
LEMMA StayKeeps ==
  ASSUME FilesInv, FilesTypeOK', UNCHANGED <<viewer, kept, place, shown, lists, call>>,
         bulk' # None => CanManage, Here', Within',
         apart => apart', place \in Places /\ Excused => Excused' \/ apart'
  PROVE  FilesInv'
<1>1. SameAnswers
  BY DEF SameAnswers, Says, CallAt
<1>2. ListsTrue'
  BY DEF FilesInv, ListsTrue, ListAt
<1>3. CallsTrue'
  <2>1. \A c \in Calls : Pending(c)' <=> Pending(c)
    BY DEF Pending
  <2>2. CanManage' <=> CanManage
    BY DEF CanManage
  <2> QED
    BY <1>1, <2>1, <2>2 DEF FilesInv, CallsTrue, SameAnswers
<1>4. Looks'
  BY <1>1, LooksStay DEF FilesInv
<1> QED
  BY <1>2, <1>3, <1>4 DEF FilesInv

LEMMA TicksKeep ==
  ASSUME FilesInv, (\E i \in Items : ToggleOne(i)) \/ ToggleAll \/ Downloads \/ Downloaded
                   \/ EventArrives \/ Disconnects \/ Connects
  PROVE  FilesInv'
<1>1. UNCHANGED <<viewer, kept, place, shown, lists, call, bulk, naming, missed, field>>
  BY DEF ToggleOne, ToggleAll, Downloads, Downloaded, EventArrives, Disconnects, Connects
<1>2. picked' \subseteq Items
  BY DEF ToggleOne, ToggleAll, Downloads, Downloaded, EventArrives, Disconnects, Connects,
         FilesInv, FilesTypeOK, ShownItems
<1>3. events' \in 0..MaxEvents
  BY FilesAssumption
  DEF ToggleOne, ToggleAll, Downloads, Downloaded, EventArrives, Disconnects, Connects,
      FilesInv, FilesTypeOK
<1>4. downloading' \in BOOLEAN /\ soon' \in BOOLEAN /\ connected' \in BOOLEAN /\ apart' \in BOOLEAN
  BY DEF ToggleOne, ToggleAll, Downloads, Downloaded, EventArrives, Disconnects, Connects,
         FilesInv, FilesTypeOK
<1>5. FilesTypeOK'
  BY <1>1, <1>2, <1>3, <1>4 DEF FilesInv, FilesTypeOK
<1>6. place = None => ~soon'
  BY DEF ToggleOne, ToggleAll, Downloads, Downloaded, EventArrives, Disconnects, Connects,
         FilesInv, Here
<1>7. Here'
  BY <1>1, <1>6 DEF FilesInv, Here
<1>8. Within'
  BY <1>1 DEF FilesInv, Within, Busy
<1>9. apart => apart'
  BY DEF ToggleOne, ToggleAll, Downloads, Downloaded, EventArrives, Disconnects, Connects
<1>10. ASSUME place \in Places, Excused
       PROVE  Excused' \/ apart'
  <2>1. place # None
    BY <1>10, FilesAssumption
  <2>2. soon \in BOOLEAN /\ apart \in BOOLEAN
    BY DEF FilesInv, FilesTypeOK
  <2>3. CASE EventArrives
    <3>1. soon'
      BY <2>1, <2>3, ZenonT(20) DEF EventArrives
    <3> QED
      BY <3>1 DEF Excused
  <2>4. CASE Disconnects
    <3>1. soon' = soon /\ (events > 0 => apart')
      BY <2>1, <2>4, <2>2 DEF Disconnects
    <3> QED
      BY <1>1, <1>10, <3>1 DEF Excused
  <2>5. CASE ~EventArrives /\ ~Disconnects
    <3>1. soon' = soon /\ events' = events
      BY <2>5 DEF ToggleOne, ToggleAll, Downloads, Downloaded, Connects
    <3> QED
      BY <1>1, <1>10, <3>1 DEF Excused
  <2> QED
    BY <2>3, <2>4, <2>5
<1>11. bulk' # None => CanManage
  BY <1>1 DEF FilesInv, CallsTrue
<1> QED
  BY <1>1, <1>5, <1>7, <1>8, <1>9, <1>10, <1>11, StayKeeps

LEMMA BulkKeeps ==
  ASSUME FilesInv, (\E op, entry : /\ BeginsBulk(op, entry)
                                   /\ \/ op = "update" /\ entry \in Patches
                                      \/ op = "delete" /\ entry = <<>>) \/ GivesUpBulk
  PROVE  FilesInv'
<1>1. /\ UNCHANGED <<viewer, kept, place, shown, lists, call, missed, soon, events, apart>>
      /\ UNCHANGED <<picked, downloading, naming, field, connected>>
  BY DEF BeginsBulk, GivesUpBulk
<1>2. CASE GivesUpBulk
  <2>1. bulk' = None
    BY <1>2 DEF GivesUpBulk
  <2>2. FilesTypeOK'
    BY <1>1, <2>1 DEF FilesInv, FilesTypeOK
  <2>3. Here' /\ Within'
    BY <1>1, <2>1 DEF FilesInv, Here, Within
  <2>4. Excused => Excused'
    BY <1>1 DEF Excused
  <2> QED
    BY <1>1, <2>1, <2>2, <2>3, <2>4, StayKeeps
<1>3. ASSUME NEW op, NEW entry, BeginsBulk(op, entry),
             (op = "update" /\ entry \in Patches) \/ (op = "delete" /\ entry = <<>>)
      PROVE  FilesInv'
  <2>1. PICK q : q = [op |-> op, row |-> entry, todo |-> Chosen, workers |-> Workers, heard |-> TRUE]
    OBVIOUS
  <2>2. Chosen \subseteq Items
    BY DEF Chosen, ShownItems
  <2>3. q \in RunningBulks /\ q.workers = Workers
    BY <1>3, <2>1, <2>2, FilesAssumption DEF RunningBulks, BulkOf
  <2>4. /\ bulk' = q /\ CanManage /\ place # None
        /\ \A c \in Calls : call[c] # None => ~call[c].many
    BY <1>3, <2>1 DEF BeginsBulk
  <2>5. FilesTypeOK'
    BY <1>1, <2>3, <2>4 DEF FilesInv, FilesTypeOK
  <2>6. Here'
    BY <1>1, <2>4 DEF Here
  <2>7. Within'
    <3>1. Busy' = {}
      BY <1>1, <2>4 DEF Busy
    <3>2. Cardinality(Busy') = 0 /\ bulk'.workers \in Nat
      BY <2>3, <2>4, <3>1, FS_EmptySet, FilesAssumption
    <3> QED
      BY <3>2 DEF Within
  <2>8. Excused => Excused'
    BY <1>1 DEF Excused
  <2> QED
    BY <1>1, <2>4, <2>5, <2>6, <2>7, <2>8, StayKeeps
<1> QED
  BY <1>2, <1>3

(* A change is asked for.                                                  *)
LEMMA BeginKeeps ==
  ASSUME FilesInv, NEW c \in Calls, NEW op, NEW i \in Items, NEW entry, NEW many \in BOOLEAN,
         Begin(c, op, i, entry, many), CanManage,
         \/ op = "create" /\ entry \in Rows /\ place # None
         \/ op = "update" /\ entry \in Patches
         \/ op = "delete" /\ entry = <<>>,
         UNCHANGED <<viewer, kept, place, shown, missed, picked, downloading, lists, soon,
                     connected, events, apart>>,
         naming' \in BOOLEAN, field' \in BOOLEAN, place = None => ~field',
         \/ bulk' = bulk /\ ~many
         \/ /\ bulk # None /\ many /\ Cardinality(Busy) < bulk.workers
            /\ bulk' = [bulk EXCEPT !.todo = @ \ {i}]
  PROVE  FilesInv'
<1>1. /\ call' \in [Calls -> RunningCalls \cup {None}] /\ CallsTrue' /\ SameAnswers
      /\ call[c] = None /\ call'[c] # None /\ call'[c].op = op /\ call'[c].many = many
      /\ ~call'[c].old
      /\ \A d \in Calls : d # c => call'[d] = call[d]
  BY CallBegins DEF FilesInv
<1>2. /\ bulk' \in RunningBulks \cup {None}
      /\ bulk' = None <=> bulk = None
      /\ bulk # None => bulk'.workers = bulk.workers /\ bulk'.heard = bulk.heard
                        /\ bulk.workers \in Nat
  <2>1. CASE bulk = None
    BY <2>1
  <2>2. CASE bulk # None
    <3>1. bulk \in RunningBulks
      BY <2>2 DEF FilesInv, FilesTypeOK
    <3>2. PICK todo : todo = bulk.todo \ {i}
      OBVIOUS
    <3>3. bulk' = bulk \/ bulk' = [bulk EXCEPT !.todo = todo]
      BY <3>2
    <3>4. todo \in SUBSET Items
      BY <3>1, <3>2 DEF RunningBulks, BulkOf
    <3>5. None \notin RunningBulks /\ Workers \in Nat
      BY FilesAssumption
    <3>6. bulk' \in RunningBulks /\ bulk'.workers = bulk.workers /\ bulk'.heard = bulk.heard
      BY <3>1, <3>3, <3>4 DEF RunningBulks, BulkOf
    <3>7. bulk.workers \in Nat
      BY <3>1, <3>5 DEF RunningBulks, BulkOf
    <3> QED
      BY <2>2, <3>5, <3>6, <3>7
  <2> QED
    BY <2>1, <2>2
<1>3. FilesTypeOK'
  BY <1>1, <1>2 DEF FilesInv, FilesTypeOK
<1>4. ListsTrue'
  BY DEF FilesInv, ListsTrue, ListAt
<1>5. Here'
  BY <1>1, <1>2 DEF FilesInv, Here
<1>6. Within'
  <2>1. CASE ~many
    <3>1. Busy' = Busy
      BY <1>1, <2>1 DEF Busy
    <3> QED
      BY <1>2, <3>1 DEF FilesInv, Within
  <2>2. CASE many
    <3>1. Busy' = Busy \cup {c} /\ c \notin Busy
      BY <1>1, <2>2 DEF Busy
    <3>2. IsFiniteSet(Busy)
      BY FilesAssumption, FS_Subset DEF Busy
    <3>3. Cardinality(Busy') = Cardinality(Busy) + 1 /\ Cardinality(Busy) \in Nat
      BY <3>1, <3>2, FS_AddElement, FS_CardinalityType
    <3> QED
      BY <1>2, <2>2, <3>3 DEF Within
  <2> QED
    BY <2>1, <2>2
<1>7. Excused => Excused'
  BY <1>1 DEF Excused
<1>8. Looks'
  BY <1>1, <1>7, LooksStay DEF FilesInv
<1> QED
  BY <1>1, <1>3, <1>4, <1>5, <1>6, <1>8 DEF FilesInv

LEMMA AskedKeeps ==
  ASSUME FilesInv, NEW c \in Calls, NEW i \in Items,
         \/ \E title \in Texts : Renames(c, i, title)
         \/ \E entry \in Rows : Creates(c, i, entry)
         \/ Deletes(c, i) \/ TakesTask(c, i)
  PROVE  FilesInv'
<1>1. None \notin Places \cup {Overview}
  BY FilesAssumption
<1>2. ASSUME NEW title \in Texts, Renames(c, i, title)
      PROVE  FilesInv'
  <2>1. PICK entry : entry = [text |-> title]
    OBVIOUS
  <2>2. entry \in Patches
    BY <2>1 DEF Patches
  <2>3. /\ Begin(c, "update", i, entry, FALSE) /\ CanManage /\ place # None
        /\ UNCHANGED <<viewer, kept, place, shown, missed, picked, downloading, lists, soon,
                       connected, events, apart>>
        /\ UNCHANGED <<bulk, naming, field>>
    BY <1>1, <1>2, <2>1 DEF Renames, Asks
  <2>4. naming' \in BOOLEAN /\ field' \in BOOLEAN
    BY <2>3 DEF FilesInv, FilesTypeOK
  <2> QED
    BY <2>2, <2>3, <2>4, BeginKeeps
<1>3. ASSUME NEW entry \in Rows, Creates(c, i, entry)
      PROVE  FilesInv'
  <2>1. /\ Begin(c, "create", i, entry, FALSE) /\ viewer = "owner" /\ naming' = TRUE
        /\ place \in Places \/ place = Overview
        /\ field' = (i \in Files) /\ bulk' = bulk
        /\ UNCHANGED <<viewer, kept, place, shown, missed, picked, downloading, lists, soon,
                       connected, events, apart>>
    BY <1>3 DEF Creates
  <2>2. CanManage /\ place # None /\ naming' \in BOOLEAN /\ field' \in BOOLEAN
    BY <1>1, <2>1 DEF CanManage
  <2> QED
    BY <2>1, <2>2, BeginKeeps
<1>4. CASE Deletes(c, i)
  <2>1. /\ Begin(c, "delete", i, <<>>, FALSE) /\ CanManage /\ place # None
        /\ UNCHANGED <<viewer, kept, place, shown, missed, picked, downloading, lists, soon,
                       connected, events, apart>>
        /\ UNCHANGED <<bulk, naming, field>>
    BY <1>1, <1>4 DEF Deletes, Asks
  <2>2. naming' \in BOOLEAN /\ field' \in BOOLEAN
    BY <2>1 DEF FilesInv, FilesTypeOK
  <2> QED
    BY <2>1, <2>2, BeginKeeps
<1>5. CASE TakesTask(c, i)
  <2>1. PICK op, entry : op = bulk.op /\ entry = bulk.row
    OBVIOUS
  <2>2. /\ Begin(c, op, i, entry, TRUE) /\ bulk # None /\ Cardinality(Busy) < bulk.workers
        /\ UNCHANGED <<viewer, kept, place, shown, missed, picked, downloading, lists, soon,
                       connected, events, apart>>
        /\ UNCHANGED <<naming, field>>
        /\ bulk' = [bulk EXCEPT !.todo = @ \ {i}]
    BY <1>5, <2>1 DEF TakesTask
  <2>3. (op = "update" /\ entry \in Patches) \/ (op = "delete" /\ entry = <<>>)
    BY <2>1, <2>2 DEF FilesInv, FilesTypeOK, RunningBulks, BulkOf
  <2>4. CanManage /\ naming' \in BOOLEAN /\ field' \in BOOLEAN /\ (place = None => ~field')
    BY <2>2 DEF FilesInv, CallsTrue, FilesTypeOK, Here
  <2> QED
    BY <2>2, <2>3, <2>4, BeginKeeps
<1> QED
  BY <1>2, <1>3, <1>4, <1>5

(* A list is asked for: for the address there will be, if it is a place.   *)
LEMMA LoadKeeps ==
  ASSUME FilesInv, NEW l \in FileLoads, NEW p \in Places \cup {Overview}, AsksList(l, p),
         lists' \in [FileLoads -> RunningLists \cup {None}] => FilesTypeOK',
         CallsTrue', Here', Within', place' \in Places => p = place'
  PROVE  FilesInv'
<1>1. /\ lists' \in [FileLoads -> RunningLists \cup {None}] /\ ListsTrue'
      /\ p = place' => Reading(l)'
  BY ListAsked DEF FilesInv
<1>2. Looks'
  BY <1>1, ReadingFollows
<1> QED
  BY <1>1, <1>2 DEF FilesInv

LEMMA CallsStay ==
  ASSUME FilesInv, UNCHANGED <<viewer, kept, call>>, bulk' = bulk \/ bulk' = None
  PROVE  CallsTrue' /\ Within'
<1>1. \A c : Pending(c)' <=> Pending(c)
  BY DEF Pending
<1>2. \A c, i : Says(c, i)' <=> Says(c, i)
  BY DEF Says, CallAt
<1>3. CanManage' <=> CanManage
  BY DEF CanManage
<1>4. Busy' = Busy
  BY DEF Busy
<1> QED
  BY <1>1, <1>2, <1>3, <1>4 DEF FilesInv, CallsTrue, Within

LEMMA LoadsKeep ==
  ASSUME FilesInv, NEW l \in FileLoads,
         \/ \E p \in Places \cup {Overview} : Goes(l, p)
         \/ ChangesPage(l) \/ EndsBulk(l) \/ TimerFires(l)
  PROVE  FilesInv'
<1>1. UNCHANGED <<viewer, kept, shown, downloading, call, naming, connected, events, apart>>
  BY DEF Goes, ChangesPage, EndsBulk, TimerFires, Reload, Load
<1>2. bulk' = bulk \/ bulk' = None
  BY DEF Goes, ChangesPage, EndsBulk, TimerFires
<1>3. CallsTrue' /\ Within'
  BY <1>1, <1>2, CallsStay
<1>4. None \notin Places \cup {Overview} /\ Overview \notin Places
  BY FilesAssumption
<1>5. place \in Places \cup {Overview, None}
  BY DEF FilesInv, FilesTypeOK
<1>6. ASSUME NEW p \in Places \cup {Overview}, AsksList(l, p),
             place' \in Places \cup {Overview, None}, place' \in Places => p = place',
             picked' \in {{}, picked}, missed' \in {FALSE, missed}, field' \in {FALSE, field},
             soon' \in {FALSE, soon},
             place' = None => place = None /\ (bulk' = None \/ bulk' = bulk)
      PROVE  FilesInv'
  <2>1. lists' \in [FileLoads -> RunningLists \cup {None}] => FilesTypeOK'
    <3>1. picked' \subseteq Items
      BY <1>6 DEF FilesInv, FilesTypeOK
    <3>2. missed' \in BOOLEAN /\ field' \in BOOLEAN /\ soon' \in BOOLEAN
      BY <1>6 DEF FilesInv, FilesTypeOK
    <3>3. bulk' \in RunningBulks \cup {None}
      BY <1>2 DEF FilesInv, FilesTypeOK
    <3> QED
      BY <1>1, <1>6, <3>1, <3>2, <3>3 DEF FilesInv, FilesTypeOK
  <2>2. Here'
    BY <1>1, <1>6 DEF FilesInv, Here
  <2> QED
    BY <1>3, <1>6, <2>1, <2>2, LoadKeeps
<1>7. ASSUME NEW p \in Places \cup {Overview}, Goes(l, p)
      PROVE  FilesInv'
  <2>1. /\ AsksList(l, p) /\ place' = p /\ picked' = {} /\ missed' = FALSE /\ field' = FALSE
        /\ soon' = soon
    BY <1>7 DEF Goes, Load
  <2> QED
    BY <1>4, <1>6, <2>1
<1>8. CASE ChangesPage(l)
  <2>1. /\ AsksList(l, Overview) /\ place' = place /\ place = Overview /\ picked' = picked
        /\ missed' = FALSE /\ field' = FALSE /\ soon' = soon
    BY <1>8 DEF ChangesPage, Load
  <2> QED
    BY <1>4, <1>6, <2>1
<1>9. CASE TimerFires(l)
  <2>1. /\ AsksList(l, place) /\ place' = place /\ soon /\ picked' = {} /\ missed' = FALSE
        /\ field' = FALSE /\ soon' = FALSE
    BY <1>9 DEF TimerFires, Reload, Load
  <2>2. place # None
    BY <2>1 DEF FilesInv, Here
  <2> QED
    BY <1>4, <1>5, <1>6, <2>1, <2>2
<1>10. CASE EndsBulk(l)
  <2>1. place' = place /\ soon' = soon /\ bulk' = None /\ bulk # None
    BY <1>10 DEF EndsBulk
  <2>2. CASE bulk.heard
    <3>1. AsksList(l, place) /\ picked' = {} /\ missed' = FALSE /\ field' = FALSE
      BY <1>10, <2>2 DEF EndsBulk, Reload, Load
    <3>2. place # None
      BY <2>1, <2>2 DEF FilesInv, Here
    <3> QED
      BY <1>5, <1>6, <2>1, <3>1, <3>2
  <2>3. CASE ~bulk.heard
    <3>1. /\ AsksList(l, Elsewhere) /\ picked' = picked /\ missed' = missed /\ field' = field
      BY <1>10, <2>3 DEF EndsBulk
    <3>2. /\ Elsewhere \in Places \cup {Overview}
          /\ place \in Places => Elsewhere = place
      BY <1>4, <1>5 DEF Elsewhere, Places
    <3>3. PICK p : p = Elsewhere
      OBVIOUS
    <3> QED
      BY <1>5, <1>6, <2>1, <3>1, <3>2, <3>3
  <2> QED
    BY <2>2, <2>3
<1> QED
  BY <1>7, <1>8, <1>9, <1>10

(* The view is gone: what it had asked for goes on, but nobody listens.    *)
LEMMA GoneKeeps ==
  ASSUME FilesInv, NEW D \in SUBSET Calls,
         call' = [d \in Calls |-> IF d \in D THEN None ELSE UnheardCall(call[d])],
         bulk' = IF bulk = None THEN None ELSE [bulk EXCEPT !.heard = FALSE],
         place' = None, picked' = {}, missed' = FALSE, downloading' = FALSE, naming' = FALSE,
         field' = FALSE, soon' = FALSE, UNCHANGED <<viewer, kept, lists, connected, events>>,
         shown' \in [of : Places \cup {Overview, None}, rows : Lists], apart' \in BOOLEAN
  PROVE  FilesInv'
<1>1. \A d \in Calls :
        /\ call'[d] \in RunningCalls \cup {None}
        /\ d \in D \/ call[d] = None => call'[d] = None
        /\ d \notin D /\ call[d] # None =>
             /\ call'[d] # None /\ ~call'[d].heard /\ call'[d].op = call[d].op
             /\ call'[d].item = call[d].item /\ call'[d].row = call[d].row
             /\ call'[d].many = call[d].many /\ call'[d].step = call[d].step
             /\ call'[d].old = call[d].old
  <2>1. TAKE d \in Calls
  <2>2. call'[d] = IF d \in D THEN None ELSE UnheardCall(call[d])
    OBVIOUS
  <2>3. CASE d \in D \/ call[d] = None
    BY <2>2, <2>3 DEF UnheardCall
  <2>4. CASE d \notin D /\ call[d] # None
    <3>1. PICK q : q = call[d]
      OBVIOUS
    <3>2. q \in RunningCalls
      BY <2>4, <3>1 DEF FilesInv, FilesTypeOK
    <3>3. PICK r : r = [q EXCEPT !.heard = FALSE]
      OBVIOUS
    <3>4. /\ r \in RunningCalls /\ ~r.heard /\ r.op = q.op /\ r.item = q.item /\ r.row = q.row
          /\ r.many = q.many /\ r.step = q.step /\ r.old = q.old
      BY <3>2, <3>3 DEF RunningCalls, CallOf
    <3>5. r # None /\ call'[d] = r
      BY <2>2, <2>4, <3>1, <3>3, <3>4, FilesAssumption DEF UnheardCall
    <3> QED
      BY <2>4, <3>1, <3>4, <3>5
  <2> QED
    BY <2>3, <2>4
<1>2. /\ bulk' \in RunningBulks \cup {None}
      /\ bulk' = None <=> bulk = None
      /\ bulk # None => bulk'.workers = bulk.workers /\ ~bulk'.heard /\ bulk.workers \in Nat
  <2>1. CASE bulk = None
    BY <2>1
  <2>2. CASE bulk # None
    <3>1. bulk \in RunningBulks
      BY <2>2 DEF FilesInv, FilesTypeOK
    <3>2. None \notin RunningBulks /\ Workers \in Nat
      BY FilesAssumption
    <3>3. bulk' = [bulk EXCEPT !.heard = FALSE]
      BY <2>2
    <3>4. /\ bulk'.workers = bulk.workers /\ ~bulk'.heard /\ bulk.workers \in Nat
      BY <3>1, <3>2, <3>3 DEF RunningBulks, BulkOf
    <3>5. \/ bulk \in BulkOf("update", Patches) /\ bulk' \in BulkOf("update", Patches)
          \/ bulk \in BulkOf("delete", {<<>>}) /\ bulk' \in BulkOf("delete", {<<>>})
      <4>1. ASSUME NEW op, NEW rows, bulk \in BulkOf(op, rows)
            PROVE  bulk' \in BulkOf(op, rows)
        BY <3>3, <4>1 DEF BulkOf
      <4> QED
        BY <3>1, <4>1 DEF RunningBulks
    <3>6. bulk' \in RunningBulks
      BY <3>5 DEF RunningBulks
    <3> QED
      BY <2>2, <3>2, <3>4, <3>6
  <2> QED
    BY <2>1, <2>2
<1>3. FilesTypeOK'
  <2>1. call' \in [Calls -> RunningCalls \cup {None}]
    BY <1>1
  <2>2. picked' \subseteq Items /\ place' \in Places \cup {Overview, None}
    OBVIOUS
  <2>3. /\ missed' \in BOOLEAN /\ downloading' \in BOOLEAN /\ naming' \in BOOLEAN
        /\ field' \in BOOLEAN /\ soon' \in BOOLEAN
    OBVIOUS
  <2> QED
    BY <1>2, <2>1, <2>2, <2>3 DEF FilesInv, FilesTypeOK
<1>4. ListsTrue'
  BY DEF FilesInv, ListsTrue, ListAt
<1>5. \A c \in Calls : \A i : Says(c, i)' => Says(c, i) /\ call'[c].row = call[c].row
  BY <1>1 DEF Says, CallAt
<1>6. CallsTrue'
  <2>1. \A c \in Calls : Pending(c)' => ~call'[c].old
    BY <1>1 DEF FilesInv, CallsTrue, Pending
  <2>2. \A c \in Calls, i \in Items : Says(c, i)' => call'[c].row = kept'[i]
    BY <1>5 DEF FilesInv, CallsTrue
  <2>3. \A c, d \in Calls, i \in Items : Says(c, i)' /\ Says(d, i)' => c = d
    BY <1>5 DEF FilesInv, CallsTrue
  <2>4. (\E c \in Calls : call'[c] # None) \/ bulk' # None => CanManage'
    BY <1>1, <1>2 DEF FilesInv, CallsTrue, CanManage
  <2> QED
    BY <2>1, <2>2, <2>3, <2>4 DEF CallsTrue
<1>7. Here'
  BY <1>1, <1>2 DEF Here
<1>8. Within'
  <2>1. Busy' \subseteq Busy
    BY <1>1 DEF Busy
  <2>2. IsFiniteSet(Busy)
    BY FilesAssumption, FS_Subset DEF Busy
  <2>3. Cardinality(Busy') <= Cardinality(Busy) /\ Cardinality(Busy) \in Nat
        /\ Cardinality(Busy') \in Nat
    BY <2>1, <2>2, FS_Subset, FS_CardinalityType
  <2> QED
    BY <1>2, <2>3 DEF FilesInv, Within
<1>9. Looks'
  BY FilesAssumption DEF Looks
<1> QED
  BY <1>3, <1>4, <1>6, <1>7, <1>8, <1>9 DEF FilesInv

LEMMA GoesAwayKeeps ==
  ASSUME FilesInv, GoesAway
  PROVE  FilesInv'
<1>0. PICK D : D = {}
  OBVIOUS
<1>1. call' = [d \in Calls |-> IF d \in D THEN None ELSE UnheardCall(call[d])]
  BY <1>0 DEF GoesAway
<1>2. shown' \in [of : Places \cup {Overview, None}, rows : Lists] /\ apart' \in BOOLEAN
  BY DEF GoesAway, FilesInv, FilesTypeOK
<1>3. /\ bulk' = IF bulk = None THEN None ELSE [bulk EXCEPT !.heard = FALSE]
      /\ place' = None /\ picked' = {} /\ missed' = FALSE /\ downloading' = FALSE
      /\ naming' = FALSE /\ field' = FALSE /\ soon' = FALSE /\ UNCHANGED <<viewer, kept, lists,
                                                                           connected, events>>
  BY DEF GoesAway
<1>4. D \in SUBSET Calls
  BY <1>0
<1> QED
  BY <1>1, <1>2, <1>3, <1>4, GoneKeeps

(* A list goes on, fails or is shown.                                      *)
LEMMA ListMoves ==
  ASSUME FilesInv,
         UNCHANGED <<viewer, kept, place, picked, downloading, call, bulk, naming, field, soon,
                     connected, events>>,
         lists' \in [FileLoads -> RunningLists \cup {None}],
         shown' \in [of : Places \cup {Overview, None}, rows : Lists],
         missed' \in BOOLEAN, apart' \in BOOLEAN, ListsTrue', Looks'
  PROVE  FilesInv'
<1>1. FilesTypeOK'
  BY DEF FilesInv, FilesTypeOK
<1>2. CallsTrue' /\ Within'
  BY CallsStay
<1>3. Here'
  BY DEF FilesInv, Here
<1> QED
  BY <1>1, <1>2, <1>3 DEF FilesInv

LEMMA FailsKeeps ==
  ASSUME FilesInv, NEW l \in FileLoads, FileListFails(l)
  PROVE  FilesInv'
<1>1. /\ UNCHANGED <<viewer, kept, place, picked, downloading, call, bulk, naming, field, soon,
                     connected, events>>
      /\ UNCHANGED <<shown, apart>>
      /\ lists' = [lists EXCEPT ![l] = None] /\ missed' = (missed \/ place # None)
  BY DEF FileListFails, Answered
<1>2. /\ lists' \in [FileLoads -> RunningLists \cup {None}]
      /\ \A k \in FileLoads : lists'[k] # None => lists'[k] = lists[k]
  BY <1>1 DEF FilesInv, FilesTypeOK
<1>3. missed' \in BOOLEAN
  BY <1>1
<1>4. shown' \in [of : Places \cup {Overview, None}, rows : Lists] /\ apart' \in BOOLEAN
  BY <1>1 DEF FilesInv, FilesTypeOK
<1>5. ListsTrue'
  BY <1>2 DEF FilesInv, ListsTrue, ListAt
<1>6. place \in Places => missed'
  BY <1>1, FilesAssumption
<1>7. Looks'
  BY <1>1, <1>6 DEF Looks, Excused
<1> QED
  BY <1>1, <1>2, <1>3, <1>4, <1>5, <1>7, ListMoves

(* The list read goes on as it was for the place there is.                 *)
LEMMA ReadsKeep ==
  ASSUME FilesInv, NEW l \in FileLoads, NEW x \in RunningLists, lists[l] # None,
         UNCHANGED <<viewer, kept, place, picked, downloading, call, bulk, naming, field, soon,
                     connected, events>>,
         UNCHANGED <<shown, missed, apart>>,
         lists' = [lists EXCEPT ![l] = x], x.step = "lists", x.of = lists[l].of,
         x.old = lists[l].old, place \in Places /\ Reading(l) => Reading(l)'
  PROVE  FilesInv'
<1>1. /\ lists' \in [FileLoads -> RunningLists \cup {None}] /\ lists'[l] = x /\ x # None
      /\ \A k \in FileLoads : k # l => lists'[k] = lists[k]
  <2>1. None \notin RunningLists
    BY FilesAssumption
  <2>2. lists \in [FileLoads -> RunningLists \cup {None}]
    BY DEF FilesInv, FilesTypeOK
  <2> QED
    BY <2>1, <2>2
<1>2. ListsTrue'
  BY <1>1 DEF FilesInv, ListsTrue, ListAt
<1>3. SameAnswers
  BY DEF SameAnswers, Says, CallAt
<1>4. Looks'
  <2>1. SUFFICES ASSUME place \in Places, ~apart
                 PROVE  Excused' \/ Followed'
    BY DEF Looks
  <2>2. Excused \/ Followed
    BY <2>1 DEF FilesInv, Looks
  <2>3. Excused => Excused'
    BY <1>1 DEF Excused
  <2>4. \A k \in FileLoads : Reading(k) => Reading(k)'
    BY <1>1, <1>3, <2>1, SameReading
  <2>5. \A k \in FileLoads : lists'[k] # None => lists[k] # None /\ lists'[k].of = lists[k].of
    BY <1>1
  <2>6. \A entry, i : RightRow(entry, i)' <=> RightRow(entry, i)
    BY <1>3, SameRows
  <2>7. Followed => Followed'
    BY <2>4, <2>5, <2>6 DEF Followed
  <2> QED
    BY <2>2, <2>3, <2>7
<1>5. /\ shown' \in [of : Places \cup {Overview, None}, rows : Lists]
      /\ missed' \in BOOLEAN /\ apart' \in BOOLEAN
  BY DEF FilesInv, FilesTypeOK
<1> QED
  BY <1>1, <1>2, <1>4, <1>5, ListMoves

LEMMA OpensKeeps ==
  ASSUME FilesInv, NEW l \in FileLoads, OpensFolder(l), ~FileListFails(l)
  PROVE  FilesInv'
<1>1. PICK x : x = lists[l]
  OBVIOUS
<1>2. PICK y : y = [x EXCEPT !.step = "lists", !.left = IF x.of = Overview THEN {} ELSE @]
  OBVIOUS
<1>3. /\ lists[l] # None /\ lists' = [lists EXCEPT ![l] = y]
      /\ UNCHANGED <<viewer, kept, place, picked, downloading, call, bulk, naming, field, soon,
                     connected, events>>
      /\ UNCHANGED <<shown, missed, apart>>
  <2>1. /\ lists[l] # None
        /\ lists' = [lists EXCEPT ![l] =
             [lists[l] EXCEPT !.step = "lists",
                              !.left = IF lists[l].of = Overview THEN {} ELSE @]]
        /\ UNCHANGED <<viewer, kept, place, shown, missed, picked, downloading, call, bulk,
                       naming, field, soon, connected, events, apart>>
    BY DEF OpensFolder, ListAt
  <2>2. y = [lists[l] EXCEPT !.step = "lists", !.left = IF lists[l].of = Overview THEN {} ELSE @]
    BY <1>1, <1>2
  <2> QED
    BY <2>1, <2>2
<1>4. x \in RunningLists
  BY <1>1, <1>3 DEF FilesInv, FilesTypeOK
<1>5. /\ y \in RunningLists /\ y.step = "lists" /\ y.of = x.of /\ y.old = x.old /\ y.rows = x.rows
      /\ y.of # Overview => y.left = x.left
  BY <1>2, <1>4 DEF RunningLists
<1>6. ASSUME place \in Places, Reading(l)
      PROVE  Reading(l)'
  <2>1. lists'[l] = y /\ y # None
    <3>1. lists \in [FileLoads -> RunningLists \cup {None}] /\ None \notin RunningLists
      BY FilesAssumption DEF FilesInv, FilesTypeOK
    <3> QED
      BY <1>3, <1>5, <3>1
  <2>2. y.of = place /\ y.left = x.left
    BY <1>1, <1>5, <1>6, FilesAssumption DEF Reading
  <2>3. SameAnswers
    BY <1>3 DEF SameAnswers, Says, CallAt
  <2>4. \A i : Unread(l, i)' <=> Unread(l, i)
    BY <1>1, <2>1, <2>2 DEF Unread
  <2>5. \A i \in Items : RightRow(x.rows[i], i) => RightRow(x.rows[i], i)'
    BY <1>3, <2>3, SameRows
  <2> QED
    BY <1>1, <1>3, <1>5, <1>6, <2>1, <2>2, <2>4, <2>5 DEF Reading
<1> QED
  BY <1>1, <1>3, <1>5, <1>6, ReadsKeep

LEMMA ReadsTableKeeps ==
  ASSUME FilesInv, NEW l \in FileLoads, NEW table \in Tables, ReadsTable(l, table)
  PROVE  FilesInv'
<1>1. PICK x : x = lists[l]
  OBVIOUS
<1>2. PICK rows : rows = [i \in Items |-> IF i \in table /\ Place[i] = x.of /\ MayList(i)
                                          THEN kept[i] ELSE x.rows[i]]
  OBVIOUS
<1>3. PICK y : y = [x EXCEPT !.left = @ \ {table}, !.rows = rows]
  OBVIOUS
<1>4. /\ x # None /\ x.step = "lists" /\ table \in x.left
      /\ UNCHANGED <<viewer, kept, place, picked, downloading, call, bulk, naming, field, soon,
                     connected, events>>
      /\ UNCHANGED <<shown, missed, apart>>
  BY <1>1 DEF ReadsTable, ListAt
<1>5. x \in RunningLists
  BY <1>1, <1>4 DEF FilesInv, FilesTypeOK
<1>6. lists' = [lists EXCEPT ![l] = y]
  <2>1. lists' = [lists EXCEPT ![l] =
          [lists[l] EXCEPT !.left = @ \ {table},
                    !.rows = [i \in Items |->
                       IF i \in table /\ Place[i] = lists[l].of /\ MayList(i)
                       THEN kept[i] ELSE @[i]]]]
    BY DEF ReadsTable
  <2>2. y = [lists[l] EXCEPT !.left = @ \ {table},
                    !.rows = [i \in Items |->
                       IF i \in table /\ Place[i] = lists[l].of /\ MayList(i)
                       THEN kept[i] ELSE @[i]]]
    BY <1>1, <1>2, <1>3
  <2> QED
    BY <2>1, <2>2
<1>7. rows \in Lists
  BY <1>2, <1>5 DEF FilesInv, FilesTypeOK, RunningLists, Lists
<1>8. /\ y \in RunningLists /\ y.step = "lists" /\ y.of = x.of /\ y.old = x.old /\ y.rows = rows
      /\ y.left = x.left \ {table}
  BY <1>3, <1>4, <1>5, <1>7 DEF RunningLists
<1>9. ASSUME place \in Places, Reading(l)
      PROVE  Reading(l)'
  <2>1. lists'[l] = y /\ y # None
    <3>1. lists \in [FileLoads -> RunningLists \cup {None}] /\ None \notin RunningLists
      BY FilesAssumption DEF FilesInv, FilesTypeOK
    <3> QED
      BY <1>6, <1>8, <3>1
  <2>2. SameAnswers
    BY <1>4 DEF SameAnswers, Says, CallAt
  <2>3. \A i \in Items : \A entry : RightRow(entry, i) => RightRow(entry, i)'
    BY <1>4, <2>2, SameRows
  <2>4. x.left \subseteq Tables
    BY <1>5 DEF RunningLists
  <2>5. ASSUME NEW i \in Items
        PROVE  IF Unread(l, i)' THEN rows[i] = None ELSE RightRow(rows[i], i)'
    <3>1. CASE i \in table
      <4>1. ~Unread(l, i)'
        BY <1>8, <2>1, <2>4, <3>1, FilesAssumption DEF Unread
      <4>2. x.rows[i] = None
        BY <1>1, <1>4, <1>9, <3>1 DEF Reading, Unread
      <4>3. rows[i] = Expected(i)
        BY <1>1, <1>2, <1>9, <3>1, <4>2 DEF Expected, Reading
      <4> QED
        BY <2>3, <4>1, <4>3 DEF RightRow
    <3>2. CASE i \notin table
      <4>1. Unread(l, i)' <=> Unread(l, i)
        BY <1>1, <1>8, <2>1, <3>2 DEF Unread
      <4>2. rows[i] = x.rows[i]
        BY <1>2, <3>2
      <4> QED
        BY <1>1, <1>9, <2>3, <4>1, <4>2 DEF Reading
    <3> QED
      BY <3>1, <3>2
  <2> QED
    BY <1>1, <1>4, <1>8, <1>9, <2>1, <2>5 DEF Reading
<1> QED
  BY <1>1, <1>4, <1>6, <1>8, <1>9, ReadsKeep

(* A list is shown: one read in part before is old now, one asked for is   *)
(* not.                                                                    *)
LEMMA ShowsKeeps ==
  ASSUME FilesInv, NEW l \in FileLoads, Shows(l)
  PROVE  FilesInv'
<1>1. PICK x : x = lists[l]
  OBVIOUS
<1>2. /\ x # None /\ x.step = "lists" /\ x.left = {}
      /\ shown' = [of |-> x.of, rows |-> x.rows]
      /\ UNCHANGED <<viewer, kept, place, picked, downloading, call, bulk, naming, field, soon,
                     connected, events>>
      /\ missed' = missed
  BY <1>1 DEF Shows, ListAt
<1>3. x \in RunningLists
  BY <1>1, <1>2 DEF FilesInv, FilesTypeOK
<1>4. \A k \in FileLoads :
        /\ lists'[k] \in RunningLists \cup {None}
        /\ k = l \/ lists[k] = None => lists'[k] = None
        /\ k # l /\ lists[k] # None =>
             /\ lists'[k] # None /\ lists'[k].of = lists[k].of /\ lists'[k].step = lists[k].step
             /\ lists'[k].old = (lists[k].old \/ lists[k].step # "asked")
             /\ lists[k].step = "asked" => lists'[k] = lists[k]
  <2>1. TAKE k \in FileLoads
  <2>2. lists'[k] = IF k = l \/ lists[k] = None THEN None
                    ELSE [lists[k] EXCEPT !.old = lists[k].old \/ lists[k].step # "asked"]
    BY DEF Shows
  <2>3. CASE k = l \/ lists[k] = None
    BY <2>2, <2>3
  <2>4. CASE k # l /\ lists[k] # None
    <3>1. PICK y : y = lists[k]
      OBVIOUS
    <3>2. y \in RunningLists
      BY <2>4, <3>1 DEF FilesInv, FilesTypeOK
    <3>3. PICK old \in BOOLEAN : old = (y.old \/ y.step # "asked")
      OBVIOUS
    <3>4. PICK z : z = [y EXCEPT !.old = old]
      OBVIOUS
    <3>5. lists'[k] = z
      BY <2>2, <2>4, <3>1, <3>3, <3>4
    <3>6. z \in RunningLists /\ z.of = y.of /\ z.step = y.step /\ z.old = old
      BY <3>2, <3>4 DEF RunningLists
    <3>7. y.step = "asked" => z = y
      <4>1. SUFFICES ASSUME y.step = "asked"
                     PROVE  z = y
        OBVIOUS
      <4>2. y.old \in BOOLEAN /\ ~y.old
        BY <2>4, <3>1, <3>2, <4>1 DEF FilesInv, ListsTrue, ListAt, RunningLists
      <4>3. old = y.old
        BY <3>3, <4>1, <4>2
      <4> QED
        BY <3>2, <3>4, <4>3 DEF RunningLists
    <3>8. z # None
      BY <3>6, FilesAssumption
    <3> QED
      BY <2>4, <3>1, <3>3, <3>5, <3>6, <3>7, <3>8
  <2> QED
    BY <2>3, <2>4
<1>5. lists' \in [FileLoads -> RunningLists \cup {None}]
  <2>1. \E g : lists' = [k \in FileLoads |-> g[k]]
    <3>1. PICK g : g = [k \in FileLoads |->
              IF k = l \/ lists[k] = None THEN None
              ELSE [lists[k] EXCEPT !.old = lists[k].old \/ lists[k].step # "asked"]]
      OBVIOUS
    <3>2. lists' = g
      BY <3>1 DEF Shows
    <3>3. lists' = [k \in FileLoads |-> g[k]]
      BY <3>1, <3>2
    <3> QED
      BY <3>3
  <2> QED
    BY <1>4, <2>1
<1>6. shown' \in [of : Places \cup {Overview, None}, rows : Lists]
  BY <1>2, <1>3 DEF RunningLists
<1>7. PICK spoilt : spoilt = (x.old \/ (x.of # place /\ place # None /\
                      ~\E k \in FileLoads \ {l} : lists[k] # None /\ lists[k].of = place))
  OBVIOUS
<1>8. apart' = (apart \/ spoilt)
  BY <1>1, <1>7 DEF Shows
<1>9. missed' \in BOOLEAN /\ apart' \in BOOLEAN
  BY <1>2, <1>8 DEF FilesInv, FilesTypeOK
<1>10. ListsTrue'
  <2>1. SUFFICES ASSUME NEW k \in FileLoads, lists'[k] # None, lists'[k].step = "asked"
                 PROVE  lists'[k].left = Tables /\ lists'[k].rows = NoRows /\ ~lists'[k].old
    BY DEF ListsTrue, ListAt
  <2>2. lists'[k] = lists[k]
    BY <1>4, <2>1
  <2> QED
    BY <2>1, <2>2 DEF FilesInv, ListsTrue, ListAt
<1>11. Looks'
  <2>1. SUFFICES ASSUME place \in Places, ~apart'
                 PROVE  Excused' \/ Followed'
    BY <1>2 DEF Looks
  <2>2. place # None
    BY <2>1, FilesAssumption
  <2>3. /\ ~apart /\ ~x.old
        /\ x.of = place \/ \E k \in FileLoads \ {l} : lists[k] # None /\ lists[k].of = place
    BY <1>7, <1>8, <2>1, <2>2
  <2>4. CASE \E k \in FileLoads : k # l /\ lists[k] # None
                                  /\ (lists[k].old \/ lists[k].step # "asked")
    BY <1>4, <2>4 DEF Excused
  <2>5. CASE \A k \in FileLoads : k # l /\ lists[k] # None
                                  => ~lists[k].old /\ lists[k].step = "asked"
    <3>1. SameAnswers
      BY <1>2 DEF SameAnswers, Says, CallAt
    <3>2. CASE \E k \in FileLoads : k # l /\ lists[k] # None /\ lists[k].of = place
      <4>1. PICK k \in FileLoads : k # l /\ lists[k] # None /\ lists[k].of = place
        BY <3>2
      <4>2. lists[k].step = "asked" /\ lists'[k] = lists[k]
        BY <1>4, <2>5, <4>1
      <4>3. /\ lists[k].left = Tables /\ lists[k].rows = NoRows /\ ~lists[k].old
        BY <4>1, <4>2 DEF FilesInv, ListsTrue, ListAt
      <4>4. \A i \in Items : Unread(k, i)' /\ lists'[k].rows[i] = None
        BY <4>2, <4>3 DEF Unread, Items, Tables, NoRows
      <4>5. Reading(k)'
        BY <1>2, <4>1, <4>2, <4>3, <4>4 DEF Reading
      <4> QED
        BY <4>5 DEF Followed
    <3>3. CASE \A k \in FileLoads : k # l /\ lists[k] # None => lists[k].of # place
      <4>1. x.of = place
        BY <2>3, <3>3
      <4>2. ~Excused => Followed
        BY <2>1, <2>3 DEF FilesInv, Looks
      <4>3. CASE Excused
        <5>1. soon \/ events > 0 \/ missed \/ \E c \in Calls : call[c] # None /\ call[c].old
          BY <1>1, <2>3, <2>5, <4>3 DEF Excused
        <5> QED
          BY <1>2, <5>1 DEF Excused
      <4>4. CASE Followed
        <5>1. Reading(l)
          <6>1. \/ \E k \in FileLoads : Reading(k)
                \/ \A k \in FileLoads : lists[k] # None => lists[k].of # place
            BY <4>4 DEF Followed
          <6>2. \A k \in FileLoads : Reading(k) => k = l
            BY <3>3 DEF Reading
          <6> QED
            BY <1>1, <1>2, <4>1, <6>1, <6>2
        <5>2. \A i \in Items : RightRow(x.rows[i], i)
          BY <1>1, <1>2, <5>1 DEF Reading, Unread
        <5>3. \A entry, i : RightRow(entry, i)' <=> RightRow(entry, i)
          BY <1>2, <3>1, SameRows
        <5>4. shown'.of = place /\ shown'.rows = x.rows
          BY <1>2, <4>1
        <5>5. \A k \in FileLoads : lists'[k] # None => lists'[k].of # place
          BY <1>4, <3>3
        <5> QED
          BY <1>2, <5>2, <5>3, <5>4, <5>5 DEF Followed
      <4> QED
        BY <4>2, <4>3, <4>4
    <3> QED
      BY <3>2, <3>3
  <2> QED
    BY <2>4, <2>5
<1> QED
  BY <1>2, <1>5, <1>6, <1>9, <1>10, <1>11, ListMoves

LEMMA OutdatedCall ==
  ASSUME NEW q \in RunningCalls \cup {None}, NEW i
  PROVE  /\ Outdated(q, i) \in RunningCalls \cup {None}
         /\ Outdated(q, i) = None <=> q = None
         /\ q # None =>
              /\ Outdated(q, i).op = q.op /\ Outdated(q, i).item = q.item
              /\ Outdated(q, i).row = q.row /\ Outdated(q, i).many = q.many
              /\ Outdated(q, i).step = q.step /\ Outdated(q, i).told = q.told
              /\ Outdated(q, i).heard = q.heard
              /\ Outdated(q, i).old <=> q.old \/ (q.step = "done" /\ q.item = i)
<1>1. CASE q # None /\ q.step = "done" /\ q.item = i
  <2>1. PICK r : r = [q EXCEPT !.old = TRUE]
    OBVIOUS
  <2>2. q \in RunningCalls
    BY <1>1
  <2>3. /\ r \in RunningCalls /\ r.old /\ r.op = q.op /\ r.item = q.item /\ r.row = q.row
        /\ r.many = q.many /\ r.step = q.step /\ r.told = q.told /\ r.heard = q.heard
    BY <2>1, <2>2 DEF RunningCalls, CallOf
  <2>4. r # None /\ Outdated(q, i) = r
    BY <1>1, <2>1, <2>3, FilesAssumption DEF Outdated
  <2> QED
    BY <1>1, <2>3, <2>4
<1>2. CASE ~(q # None /\ q.step = "done" /\ q.item = i)
  BY <1>2 DEF Outdated
<1> QED
  BY <1>1, <1>2

LEMMA FollowedStays ==
  ASSUME UNCHANGED <<place, shown, lists>>,
         \A i \in Items : \A entry : RightRow(entry, i) => RightRow(entry, i)'
  PROVE  Followed => Followed'
<1>1. \A l, i : Unread(l, i)' <=> Unread(l, i)
  BY DEF Unread
<1>2. \A l \in FileLoads : Reading(l) => Reading(l)'
  BY <1>1 DEF Reading
<1> QED
  BY <1>2 DEF Followed

(* A row is changed: by the requests D, one at most, or by somebody else.  *)
OthersOutdated(i, D) ==
  /\ \A d \in Calls :
       /\ call'[d] = None <=> call[d] = None
       /\ call[d] # None => call'[d].op = call[d].op /\ call'[d].many = call[d].many
                            /\ call'[d].heard = call[d].heard
  /\ \A d \in Calls \ D : call[d] # None =>
       /\ call'[d].step = call[d].step /\ call'[d].item = call[d].item
       /\ call'[d].row = call[d].row /\ call'[d].told = call[d].told
       /\ call'[d].old <=> call[d].old \/ (call[d].step = "done" /\ call[d].item = i)

Perform(i, r, D) ==
  /\ \A d \in D :
       /\ Pending(d) /\ call'[d].step = "done" /\ call'[d].item = i
       /\ call'[d].told <=> Told(i)
       /\ ~call'[d].old => call'[d].row = r /\ (call[d].op = "update" => kept[i] # None)
  /\ \A d, e \in D : d = e

LEMMA RowChangeKeeps ==
  ASSUME FilesInv, NEW i \in Items, NEW r \in Rows \cup {None}, NEW D \in SUBSET Calls,
         kept' = [kept EXCEPT ![i] = r],
         call' \in [Calls -> RunningCalls \cup {None}],
         OthersOutdated(i, D), Perform(i, r, D),
         Announces(i), apart' \in BOOLEAN, apart => apart',
         D = {} /\ ~Told(i) /\ Watched(i) => apart',
         UNCHANGED <<viewer, place, shown, missed, picked, downloading, lists, bulk, naming,
                     field, soon, connected>>
  PROVE  FilesInv'
<1> USE DEF OthersOutdated, Perform
<1>1. kept' \in Lists /\ kept'[i] = r /\ \A k \in Items : k # i => kept'[k] = kept[k]
  BY DEF FilesInv, FilesTypeOK, Lists
<1>2. /\ events' \in 0..MaxEvents /\ events' >= events
      /\ Told(i) => events' > 0
      /\ ~Told(i) => events' = events
  BY FilesAssumption DEF FilesInv, FilesTypeOK, Announces
<1>3. FilesTypeOK'
  BY <1>1, <1>2 DEF FilesInv, FilesTypeOK
<1>4. ListsTrue'
  BY DEF FilesInv, ListsTrue, ListAt
<1>5. \A d \in Calls : \A k :
        Says(d, k)' => IF d \in D THEN k = i /\ call'[d].row = r ELSE k # i /\ Says(d, k)
  BY DEF Says, CallAt
<1>6. \A d \in Calls \ D : \A k : k # i /\ Says(d, k) => Says(d, k)'
  BY DEF Says, CallAt
<1>7. \A d \in D : ~call'[d].old => Says(d, i)'
  BY DEF Says, CallAt, Pending
<1>8. CallsTrue'
  <2>1. ASSUME NEW d \in Calls, Pending(d)'
        PROVE  ~call'[d].old
    <3>1. d \notin D /\ Pending(d) /\ call'[d].step = call[d].step
      BY <2>1 DEF Pending
    <3> QED
      BY <3>1 DEF FilesInv, CallsTrue, Pending
  <2>2. ASSUME NEW d \in Calls, NEW k \in Items, Says(d, k)'
        PROVE  call'[d].row = kept'[k]
    <3>1. CASE d \in D
      BY <1>1, <1>5, <2>2, <3>1
    <3>2. CASE d \notin D
      <4>1. k # i /\ Says(d, k)
        BY <1>5, <2>2, <3>2
      <4>2. call'[d].row = call[d].row
        BY <3>2, <4>1 DEF Says, CallAt
      <4> QED
        BY <1>1, <4>1, <4>2 DEF FilesInv, CallsTrue
    <3> QED
      BY <3>1, <3>2
  <2>3. ASSUME NEW d \in Calls, NEW e \in Calls, NEW k \in Items, Says(d, k)', Says(e, k)'
        PROVE  d = e
    BY <1>5, <2>3 DEF FilesInv, CallsTrue
  <2>4. (\E d \in Calls : call'[d] # None) \/ bulk' # None => CanManage'
    BY DEF FilesInv, CallsTrue, CanManage
  <2> QED
    BY <2>1, <2>2, <2>3, <2>4 DEF CallsTrue
<1>9. Here'
  BY DEF FilesInv, Here
<1>10. Within'
  <2>1. Busy' = Busy
    BY DEF Busy
  <2> QED
    BY <2>1 DEF FilesInv, Within
<1>11. Looks'
  <2>1. SUFFICES ASSUME place \in Places, ~apart', ~Excused'
                 PROVE  Followed'
    BY DEF Looks
  <2>2. ~Told(i) /\ events' = events
    BY <1>2, <2>1 DEF Excused
  <2>3. \A d \in Calls : call[d] # None => ~call[d].old
    <3>1. \A d \in Calls : call'[d] # None => ~call'[d].old
      BY <2>1 DEF Excused
    <3>2. \A d \in D : ~call[d].old
      BY DEF FilesInv, CallsTrue
    <3> QED
      BY <3>1, <3>2
  <2>4. ~Excused
    BY <2>1, <2>2, <2>3 DEF Excused
  <2>5. Followed
    BY <2>1, <2>4 DEF FilesInv, Looks
  <2>6. \A d \in Calls : ~Says(d, i)
    <3>1. SUFFICES ASSUME NEW d \in Calls, Says(d, i)
                   PROVE  FALSE
      OBVIOUS
    <3>2. d \notin D /\ call[d] # None /\ call[d].step = "done" /\ call[d].item = i
      BY <3>1 DEF Says, CallAt, Pending
    <3>3. call'[d] # None /\ call'[d].old
      BY <3>2
    <3> QED
      BY <2>1, <3>3 DEF Excused
  <2>7. ASSUME NEW k \in Items, NEW entry, RightRow(entry, k)
        PROVE  RightRow(entry, k)'
    <3>1. CASE k # i
      <4>1. Expected(k)' = Expected(k)
        BY <1>1, <3>1 DEF Expected, MayList, CanManage
      <4>2. \A d \in Calls : Mends(d, k, entry) => Mends(d, k, entry)'
        <5>1. SUFFICES ASSUME NEW d \in Calls, Mends(d, k, entry)
                       PROVE  Mends(d, k, entry)'
          OBVIOUS
        <5>2. d \notin D /\ call[d] # None /\ Says(d, k)
          BY <5>1 DEF Mends, Says, CallAt, Pending
        <5> QED
          BY <1>6, <3>1, <5>1, <5>2 DEF Mends
      <4> QED
        BY <2>7, <4>1, <4>2 DEF RightRow
    <3>2. CASE k = i
      <4>1. entry = Expected(i)
        BY <2>6, <2>7, <3>2 DEF RightRow, Mends
      <4>2. CASE Place[i] # place
        BY <3>2, <4>1, <4>2 DEF Expected, RightRow
      <4>3. CASE Place[i] = place
        <5>1. PICK d \in D : TRUE
          BY <2>1, <2>2, <4>3 DEF Watched
        <5>2. ~call'[d].old
          BY <2>1, <5>1 DEF Pending, Excused
        <5>3. Says(d, i)' /\ ~call'[d].told /\ call'[d].op = call[d].op
          BY <1>7, <2>2, <5>1, <5>2 DEF Pending
        <5>4. call[d].op = "update" => entry # None
          <6>1. CanManage
            BY <5>1 DEF FilesInv, CallsTrue, Pending
          <6> QED
            BY <4>1, <4>3, <5>1, <5>2, <6>1 DEF Expected, MayList
        <5>5. Mends(d, i, entry)'
          BY <5>3, <5>4 DEF Mends
        <5> QED
          BY <3>2, <4>3, <5>1, <5>5 DEF RightRow
      <4> QED
        BY <4>2, <4>3
    <3> QED
      BY <3>1, <3>2
  <2> QED
    BY <2>5, <2>7, FollowedStays
<1> QED
  BY <1>3, <1>4, <1>8, <1>9, <1>10, <1>11 DEF FilesInv

(* Columns of a row are set as a patch has them.                           *)
LEMMA RowMade ==
  ASSUME NEW entry \in Rows, NEW patch \in Patches, NEW set \in SUBSET DOMAIN patch
  PROVE  [k \in DOMAIN entry |-> IF k \in set THEN patch[k] ELSE entry[k]] \in Rows
<1>1. DOMAIN entry = {"public", "text"}
  BY DEF Rows
<1>2. PICK p : p = [k \in DOMAIN entry |-> IF k \in set THEN patch[k] ELSE entry[k]]
  OBVIOUS
<1>3. p = [k \in {"public", "text"} |-> IF k \in set THEN patch[k] ELSE entry[k]]
  BY <1>1, <1>2
<1>4. /\ DOMAIN p = {"public", "text"}
      /\ p["public"] = IF "public" \in set THEN patch["public"] ELSE entry["public"]
      /\ p["text"] = IF "text" \in set THEN patch["text"] ELSE entry["text"]
  BY <1>3
<1>5. p["public"] \in BOOLEAN /\ p["text"] \in Texts
  <2>1. CASE patch \in [text : Texts]
    <3>1. DOMAIN patch = {"text"} /\ patch["text"] \in Texts
      BY <2>1
    <3> QED
      BY <1>4, <3>1 DEF Rows
  <2>2. CASE patch \in [public : BOOLEAN]
    <3>1. DOMAIN patch = {"public"} /\ patch["public"] \in BOOLEAN
      BY <2>2
    <3> QED
      BY <1>4, <3>1 DEF Rows
  <2> QED
    BY <2>1, <2>2 DEF Patches
<1>6. PICK public \in BOOLEAN, title \in Texts : p["public"] = public /\ p["text"] = title
  BY <1>5
<1>7. p = [public |-> public, text |-> title]
  BY <1>3, <1>4, <1>6
<1> QED
  BY <1>2, <1>7 DEF Rows

LEMMA PatchedRow ==
  ASSUME NEW entry \in Rows, NEW patch \in Patches
  PROVE  Patched(entry, patch) \in Rows
<1>1. PICK set : set = DOMAIN patch
  OBVIOUS
<1>2. Patched(entry, patch) = [k \in DOMAIN entry |-> IF k \in set THEN patch[k] ELSE entry[k]]
  BY <1>1 DEF Patched
<1>3. set \in SUBSET DOMAIN patch
  BY <1>1
<1> QED
  BY <1>2, <1>3, RowMade

LEMMA WrittenRow ==
  ASSUME NEW entry \in Rows, NEW read, NEW patch \in Patches
  PROVE  Written(entry, read, patch) \in Rows
<1>1. PICK set : set = {k \in DOMAIN patch : patch[k] # read[k]}
  OBVIOUS
<1>2. Written(entry, read, patch)
        = [k \in DOMAIN entry |-> IF k \in set THEN patch[k] ELSE entry[k]]
  <2>1. \A k : k \in set <=> k \in DOMAIN patch /\ patch[k] # read[k]
    BY <1>1
  <2> QED
    BY <2>1 DEF Written
<1>3. set \in SUBSET DOMAIN patch
  BY <1>1
<1> QED
  BY <1>2, <1>3, RowMade

(* The instance a request changes is read: no row and no answer changes.   *)
LEMMA FindsKeeps ==
  ASSUME FilesInv, NEW c \in Calls, FindsRow(c)
  PROVE  FilesInv'
<1>1. PICK q : q = call[c]
  OBVIOUS
<1>2. /\ q # None /\ q.step = "asked" /\ q.op # "create" /\ kept[q.item] # None
      /\ UNCHANGED <<viewer, kept, place, shown, missed, picked, downloading, lists, bulk>>
      /\ UNCHANGED <<naming, field, soon, connected, events, apart>>
  BY <1>1 DEF FindsRow, CallAt
<1>3. q \in RunningCalls /\ ~q.old
  BY <1>1, <1>2 DEF FilesInv, FilesTypeOK, CallsTrue, Pending
<1>4. q.item \in Items /\ kept[q.item] \in Rows
  <2>1. q.item \in Items
    BY <1>3 DEF RunningCalls, CallOf
  <2> QED
    BY <1>2, <2>1 DEF FilesInv, FilesTypeOK, Lists
<1>5. PICK read : read = IF q.op = "update" THEN kept[q.item] ELSE None
  OBVIOUS
<1>6. PICK s : s = [q EXCEPT !.step = "found", !.read = read]
  OBVIOUS
<1>7. /\ s.step = "found" /\ s.op = q.op /\ s.item = q.item /\ s.many = q.many
      /\ s.heard = q.heard /\ ~s.old
  BY <1>3, <1>6 DEF RunningCalls, CallOf
<1>8. s \in RunningCalls /\ s # None
  <2>1. CASE q.op = "update"
    <3>1. q \in CallOf({"update"}, Patches, {None}, {"asked"}) /\ read \in Rows
      BY <1>2, <1>3, <1>4, <1>5, <2>1 DEF RunningCalls, CallOf
    <3>2. s \in CallOf({"update"}, Patches, Rows, {"found"})
      BY <1>6, <3>1 DEF CallOf
    <3> QED
      BY <3>2, FilesAssumption DEF RunningCalls
  <2>2. CASE q.op # "update"
    <3>1. q \in CallOf({"delete"}, {<<>>}, {None}, {"asked", "found"}) /\ read = None
      BY <1>2, <1>3, <1>5, <2>2 DEF RunningCalls, CallOf
    <3>2. s \in CallOf({"delete"}, {<<>>}, {None}, {"asked", "found"})
      BY <1>6, <3>1 DEF CallOf
    <3> QED
      BY <3>2, FilesAssumption DEF RunningCalls
  <2> QED
    BY <2>1, <2>2
<1>9. call' = [call EXCEPT ![c] = s]
  <2>1. call' = [call EXCEPT ![c] =
          [call[c] EXCEPT !.step = "found",
                          !.read = IF call[c].op = "update" THEN kept[call[c].item] ELSE None]]
    BY DEF FindsRow
  <2> QED
    BY <1>1, <1>5, <1>6, <2>1
<1>10. /\ call' \in [Calls -> RunningCalls \cup {None}] /\ call'[c] = s
       /\ \A d \in Calls : d # c => call'[d] = call[d]
  BY <1>8, <1>9 DEF FilesInv, FilesTypeOK
<1>11. FilesTypeOK'
  BY <1>2, <1>10 DEF FilesInv, FilesTypeOK
<1>12. ListsTrue'
  BY <1>2 DEF FilesInv, ListsTrue, ListAt
<1>13. \A d \in Calls : \A k : Says(d, k)' <=> Says(d, k)
  BY <1>1, <1>2, <1>7, <1>10 DEF Says, CallAt
<1>14. SameAnswers
  <2>1. \A d \in Calls : \A k : Says(d, k) => d # c
    BY <1>1, <1>2 DEF Says, CallAt
  <2> QED
    BY <1>10, <1>13, <2>1 DEF SameAnswers
<1>15. CallsTrue'
  <2>1. \A d \in Calls : Pending(d)' => ~call'[d].old
    BY <1>7, <1>10 DEF FilesInv, CallsTrue, Pending
  <2>2. \A d \in Calls, k \in Items : Says(d, k)' => call'[d].row = kept'[k]
    BY <1>2, <1>14 DEF FilesInv, CallsTrue, SameAnswers
  <2>3. \A d, e \in Calls, k \in Items : Says(d, k)' /\ Says(e, k)' => d = e
    BY <1>13 DEF FilesInv, CallsTrue
  <2>4. (\E d \in Calls : call'[d] # None) \/ bulk' # None => CanManage'
    BY <1>1, <1>2 DEF FilesInv, CallsTrue, CanManage
  <2> QED
    BY <2>1, <2>2, <2>3, <2>4 DEF CallsTrue
<1>16. Here'
  BY <1>1, <1>2, <1>7, <1>10 DEF FilesInv, Here
<1>17. Within'
  <2>1. Busy' = Busy
    BY <1>1, <1>2, <1>7, <1>8, <1>10 DEF Busy
  <2> QED
    BY <1>2, <2>1 DEF FilesInv, Within
<1>18. Looks'
  <2>1. Excused => Excused'
    BY <1>1, <1>2, <1>3, <1>10 DEF Excused
  <2> QED
    BY <1>2, <1>14, <2>1, LooksStay DEF FilesInv
<1> QED
  BY <1>11, <1>12, <1>15, <1>16, <1>17, <1>18 DEF FilesInv

(* A request takes effect. An update answers the instance it has read: if  *)
(* that is not what is kept now, its answer is old from the start.         *)
LEMMA PerformsKeeps ==
  ASSUME FilesInv, NEW c \in Calls, PerformsCall(c)
  PROVE  FilesInv'
<1>1. PICK q : q = call[c]
  OBVIOUS
<1>2. PICK i : i = q.item
  OBVIOUS
<1>3. /\ q # None
      /\ \/ q.op = "create" /\ q.step = "asked"
         \/ q.op = "update" /\ q.step = "found"
         \/ q.op = "delete" /\ q.step = "found"
  BY <1>1 DEF PerformsCall, CanCreate, CanUpdate, CanDelete
<1>4. Pending(c) /\ q \in RunningCalls /\ ~q.old
  BY <1>1, <1>3 DEF FilesInv, FilesTypeOK, CallsTrue, Pending
<1>5. i \in Items
  BY <1>2, <1>4 DEF RunningCalls, CallOf
<1>6. kept[i] \in Rows \cup {None}
  BY <1>5 DEF FilesInv, FilesTypeOK, Lists
<1>7. PICK a : a = AnswerOf(q)
  OBVIOUS
<1>8. PICK r : r = IF q.op = "update"
                   THEN IF kept[i] = None THEN None ELSE Written(kept[i], q.read, q.row)
                   ELSE a
  OBVIOUS
<1>9. /\ a \in Rows \cup {None} /\ r \in Rows \cup {None}
      /\ q.op \in {"create", "update"} => a \in Rows
      /\ q.op = "delete" => a = None
      /\ q.op = "update" /\ kept[i] = None => a # r
  <2>1. CASE q.op = "create"
    <3>1. a = q.row /\ r = a
      BY <1>7, <1>8, <2>1 DEF AnswerOf
    <3>2. q.row \in Rows
      BY <1>3, <1>4, <2>1 DEF RunningCalls, CallOf
    <3> QED
      BY <2>1, <3>1, <3>2
  <2>2. CASE q.op = "update"
    <3>1. q.row \in Patches /\ q.read \in Rows
      BY <1>3, <1>4, <2>2 DEF RunningCalls, CallOf
    <3>2. a = Patched(q.read, q.row)
      BY <1>7, <2>2 DEF AnswerOf
    <3>3. a \in Rows /\ a # None
      BY <3>1, <3>2, PatchedRow, FilesAssumption
    <3>4. kept[i] = None => r = None
      BY <1>8, <2>2
    <3>5. kept[i] # None => r \in Rows
      <4>1. SUFFICES ASSUME kept[i] \in Rows, kept[i] # None
                     PROVE  r \in Rows
        BY <1>6
      <4>2. r = Written(kept[i], q.read, q.row)
        BY <1>8, <2>2, <4>1
      <4> QED
        BY <3>1, <4>1, <4>2, WrittenRow
    <3> QED
      BY <2>2, <3>3, <3>4, <3>5
  <2>3. CASE q.op = "delete"
    <3>1. a = None /\ r = a
      BY <1>7, <1>8, <2>3 DEF AnswerOf
    <3> QED
      BY <2>3, <3>1
  <2> QED
    BY <1>3, <2>1, <2>2, <2>3
<1>10. kept' = [kept EXCEPT ![i] = r] /\ kept'[i] = r
  <2>1. kept' = [kept EXCEPT ![q.item] =
          IF q.op = "update" THEN IF @ = None THEN None ELSE Written(@, q.read, q.row)
                             ELSE AnswerOf(q)]
    BY <1>1 DEF PerformsCall
  <2>2. kept' = [kept EXCEPT ![i] = r]
    BY <1>2, <1>7, <1>8, <2>1
  <2>3. kept \in [Items -> Rows \cup {None}]
    BY DEF FilesInv, FilesTypeOK, Lists
  <2> QED
    BY <1>5, <2>2, <2>3
<1>11. PICK told \in BOOLEAN : told <=> Told(i)
  OBVIOUS
<1>12. PICK old \in BOOLEAN : old <=> a # r
  OBVIOUS
<1>13. PICK s : s = [q EXCEPT !.step = "done", !.row = a, !.read = None, !.told = told,
                              !.old = old]
  OBVIOUS
<1>14. /\ s.op = q.op /\ s.item = i /\ s.row = a /\ s.many = q.many /\ s.step = "done"
       /\ s.heard = q.heard /\ s.told = told /\ s.old = old
  BY <1>2, <1>4, <1>13 DEF RunningCalls, CallOf
<1>15. s \in RunningCalls /\ s # None
  <2>1. ASSUME NEW ops, NEW rows, NEW reads, NEW steps, q \in CallOf(ops, rows, reads, steps),
               NEW to, a \in to
        PROVE  s \in CallOf(ops, to, {None}, {"done"})
    BY <1>13, <2>1 DEF CallOf
  <2>2. CASE q.op = "create"
    <3>1. q \in CallOf({"create"}, Rows, {None}, {"asked", "done"})
      BY <1>4, <2>2 DEF RunningCalls, CallOf
    <3>2. s \in CallOf({"create"}, Rows, {None}, {"done"})
      BY <1>9, <2>1, <2>2, <3>1
    <3>3. s \in CallOf({"create"}, Rows, {None}, {"asked", "done"})
      BY <3>2 DEF CallOf
    <3> QED
      BY <3>3, FilesAssumption DEF RunningCalls
  <2>3. CASE q.op = "update"
    <3>1. q \in CallOf({"update"}, Patches, Rows, {"found"})
      BY <1>3, <1>4, <2>3 DEF RunningCalls, CallOf
    <3>2. s \in CallOf({"update"}, Rows, {None}, {"done"})
      BY <1>9, <2>1, <2>3, <3>1
    <3> QED
      BY <3>2, FilesAssumption DEF RunningCalls
  <2>4. CASE q.op = "delete"
    <3>1. q \in CallOf({"delete"}, {<<>>}, {None}, {"asked", "found"})
      BY <1>3, <1>4, <2>4 DEF RunningCalls, CallOf
    <3>2. s \in CallOf({"delete"}, {None}, {None}, {"done"})
      BY <1>9, <2>1, <2>4, <3>1
    <3> QED
      BY <3>2, FilesAssumption DEF RunningCalls
  <2> QED
    BY <1>3, <2>2, <2>3, <2>4
<1>16. /\ Announces(i)
       /\ UNCHANGED <<viewer, place, shown, missed, picked, downloading, lists, bulk, naming>>
       /\ UNCHANGED <<field, soon, connected, apart>>
  BY <1>1, <1>2 DEF PerformsCall
<1>17. PICK g : g = [d \in Calls |-> IF d = c THEN s ELSE Outdated(call[d], i)]
  OBVIOUS
<1>18. call' = g
  <2>1. call' = [d \in Calls |->
          IF d = c THEN [q EXCEPT !.step = "done", !.row = AnswerOf(q), !.read = None,
                                  !.told = Told(q.item), !.old = AnswerOf(q) # kept'[q.item]]
                   ELSE Outdated(call[d], q.item)]
    BY <1>1 DEF PerformsCall
  <2>2. told = Told(i)
    BY <1>11 DEF Told
  <2>3. old = (a # kept'[i])
    BY <1>10, <1>12
  <2> QED
    BY <1>2, <1>7, <1>13, <1>17, <2>1, <2>2, <2>3
<1>19. \A d \in Calls : call[d] \in RunningCalls \cup {None}
  BY DEF FilesInv, FilesTypeOK
<1>20. call' \in [Calls -> RunningCalls \cup {None}] /\ call'[c] = s
       /\ \A d \in Calls : d # c => call'[d] = Outdated(call[d], i)
  BY <1>15, <1>17, <1>18, <1>19, OutdatedCall
<1>21. PICK D : D = {c}
  OBVIOUS
<1>22. OthersOutdated(i, D)
  <2>1. \A d \in Calls :
          /\ call'[d] = None <=> call[d] = None
          /\ call[d] # None => call'[d].op = call[d].op /\ call'[d].many = call[d].many
                               /\ call'[d].heard = call[d].heard
    BY <1>1, <1>3, <1>14, <1>15, <1>19, <1>20, OutdatedCall
  <2>2. \A d \in Calls \ D : call[d] # None =>
         /\ call'[d].step = call[d].step /\ call'[d].item = call[d].item
         /\ call'[d].row = call[d].row /\ call'[d].told = call[d].told
         /\ call'[d].old <=> call[d].old \/ (call[d].step = "done" /\ call[d].item = i)
    BY <1>19, <1>20, <1>21, OutdatedCall
  <2> QED
    BY <2>1, <2>2 DEF OthersOutdated
<1>23. Perform(i, r, D)
  <2>1. ~s.old => s.row = r /\ (q.op = "update" => kept[i] # None)
    BY <1>9, <1>12, <1>14
  <2>2. \A d \in D :
         /\ Pending(d) /\ call'[d].step = "done" /\ call'[d].item = i
         /\ call'[d].told <=> Told(i)
         /\ ~call'[d].old => call'[d].row = r /\ (call[d].op = "update" => kept[i] # None)
    BY <1>1, <1>4, <1>11, <1>14, <1>20, <1>21, <2>1
  <2> QED
    BY <1>21, <2>2 DEF Perform
<1>24. apart' \in BOOLEAN /\ (apart => apart')
  BY <1>16 DEF FilesInv, FilesTypeOK
<1>25. /\ r \in Rows \cup {None} /\ D \in SUBSET Calls
       /\ D = {} /\ ~Told(i) /\ Watched(i) => apart'
  BY <1>9, <1>21
<1>26. /\ kept' = [kept EXCEPT ![i] = r]
       /\ call' \in [Calls -> RunningCalls \cup {None}]
  BY <1>10, <1>20
<1> QED
  BY <1>5, <1>16, <1>22, <1>23, <1>24, <1>25, <1>26, RowChangeKeeps

LEMMA OthersKeep ==
  ASSUME FilesInv, NEW i \in Items, NEW entry \in Rows \cup {None}, OthersChange(i, entry)
  PROVE  FilesInv'
<1>1. /\ kept' = [kept EXCEPT ![i] = entry] /\ Announces(i)
      /\ UNCHANGED <<viewer, place, shown, missed, picked, downloading, lists, bulk, naming,
                     field, soon, connected>>
      /\ call' = [d \in Calls |-> Outdated(call[d], i)]
  BY DEF OthersChange
<1>2. PICK w \in BOOLEAN : w <=> ~Told(i) /\ Watched(i)
  OBVIOUS
<1>3. apart' \in BOOLEAN /\ (apart => apart') /\ (~Told(i) /\ Watched(i) => apart')
  <2>1. apart' = (apart \/ (~Told(i) /\ Watched(i))) /\ apart \in BOOLEAN
    BY DEF OthersChange, FilesInv, FilesTypeOK
  <2> QED
    BY <2>1
<1>4. \A d \in Calls : call[d] \in RunningCalls \cup {None}
  BY DEF FilesInv, FilesTypeOK
<1>5. PICK D : D = {}
  OBVIOUS
<1>6. call' \in [Calls -> RunningCalls \cup {None}]
      /\ \A d \in Calls : call'[d] = Outdated(call[d], i)
  BY <1>1, <1>4, OutdatedCall
<1>7. OthersOutdated(i, D)
  <2>1. \A d \in Calls :
          /\ call'[d] = None <=> call[d] = None
          /\ call[d] # None => call'[d].op = call[d].op /\ call'[d].many = call[d].many
                               /\ call'[d].heard = call[d].heard
    BY <1>4, <1>6, OutdatedCall
  <2>2. \A d \in Calls \ D : call[d] # None =>
        /\ call'[d].step = call[d].step /\ call'[d].item = call[d].item
        /\ call'[d].row = call[d].row /\ call'[d].told = call[d].told
        /\ call'[d].old <=> call[d].old \/ (call[d].step = "done" /\ call[d].item = i)
    BY <1>4, <1>6, OutdatedCall
  <2> QED
    BY <2>1, <2>2 DEF OthersOutdated
<1>8. D \in SUBSET Calls /\ Perform(i, entry, D)
  BY <1>5 DEF Perform
<1> QED
  BY <1>1, <1>3, <1>6, <1>7, <1>8, RowChangeKeeps

(* A request is over: what is left of the others.                          *)
LEMMA CallEnds ==
  ASSUME FilesInv, NEW c \in Calls, call[c] # None, call' = [call EXCEPT ![c] = None],
         UNCHANGED <<viewer, kept>>, bulk' # None => bulk # None
  PROVE  /\ call' \in [Calls -> RunningCalls \cup {None}] /\ CallsTrue'
         /\ call'[c] = None /\ \A d \in Calls : d # c => call'[d] = call[d]
         /\ \A d \in Calls : \A k : Says(d, k)' <=> d # c /\ Says(d, k)
         /\ \A d \in Calls : \A k, entry : Mends(d, k, entry)' <=> d # c /\ Mends(d, k, entry)
         /\ Busy' = Busy \ {c} /\ IsFiniteSet(Busy)
<1>1. /\ call' \in [Calls -> RunningCalls \cup {None}]
      /\ call'[c] = None /\ \A d \in Calls : d # c => call'[d] = call[d]
  BY DEF FilesInv, FilesTypeOK
<1>2. \A d \in Calls : \A k : Says(d, k)' <=> d # c /\ Says(d, k)
  BY <1>1 DEF Says, CallAt
<1>3. \A d \in Calls : \A k, entry : Mends(d, k, entry)' <=> d # c /\ Mends(d, k, entry)
  BY <1>1, <1>2 DEF Mends
<1>4. CallsTrue'
  <2>1. \A d \in Calls : Pending(d)' => ~call'[d].old
    BY <1>1 DEF FilesInv, CallsTrue, Pending
  <2>2. \A d \in Calls, k \in Items : Says(d, k)' => call'[d].row = kept'[k]
    BY <1>1, <1>2 DEF FilesInv, CallsTrue
  <2>3. \A d, e \in Calls, k \in Items : Says(d, k)' /\ Says(e, k)' => d = e
    BY <1>2 DEF FilesInv, CallsTrue
  <2>4. (\E d \in Calls : call'[d] # None) \/ bulk' # None => CanManage'
    BY <1>1 DEF FilesInv, CallsTrue, CanManage
  <2> QED
    BY <2>1, <2>2, <2>3, <2>4 DEF CallsTrue
<1>5. Busy' = Busy \ {c} /\ IsFiniteSet(Busy)
  <2>1. Busy' = Busy \ {c}
    BY <1>1 DEF Busy
  <2>2. IsFiniteSet(Busy)
    BY FilesAssumption, FS_Subset DEF Busy
  <2> QED
    BY <2>1, <2>2
<1> QED
  BY <1>1, <1>2, <1>3, <1>4, <1>5

LEMMA CallFailsKeeps ==
  ASSUME FilesInv, NEW c \in Calls, CallFails(c)
  PROVE  FilesInv'
<1>1. PICK q : q = call[c]
  OBVIOUS
<1>2. /\ q # None /\ call' = [call EXCEPT ![c] = None]
      /\ UNCHANGED <<viewer, kept, place, shown, picked, downloading, lists, soon, connected,
                     events>>
      /\ bulk' = IF bulk # None /\ q.many THEN [bulk EXCEPT !.workers = @ - 1] ELSE bulk
  BY <1>1 DEF CallFails
<1>3. /\ missed' \in BOOLEAN /\ (missed => missed') /\ naming' \in BOOLEAN
      /\ field' \in BOOLEAN /\ (field' => field)
      /\ apart' \in BOOLEAN /\ (apart => apart') /\ (q.step = "done" => apart')
  <2>1. /\ missed' = missed
        /\ naming' = (naming /\ ~(q.heard /\ q.op = "create"))
        /\ field' = (field /\ ~(q.heard /\ q.op = "create"))
        /\ apart' = (apart \/ q.step = "done")
    BY <1>1 DEF CallFails
  <2>2. missed \in BOOLEAN /\ naming \in BOOLEAN /\ field \in BOOLEAN /\ apart \in BOOLEAN
    BY DEF FilesInv, FilesTypeOK
  <2> QED
    BY <2>1, <2>2
<1>4. q \in RunningCalls
  BY <1>1, <1>2 DEF FilesInv, FilesTypeOK
<1>5. bulk' # None => bulk # None
  BY <1>2
<1>6. /\ call' \in [Calls -> RunningCalls \cup {None}] /\ CallsTrue'
      /\ call'[c] = None /\ \A d \in Calls : d # c => call'[d] = call[d]
      /\ \A d \in Calls : \A k : Says(d, k)' <=> d # c /\ Says(d, k)
      /\ Busy' = Busy \ {c} /\ IsFiniteSet(Busy)
  BY <1>1, <1>2, <1>5, CallEnds
<1>7. bulk' \in RunningBulks \cup {None} /\ Within' /\ (bulk # None => bulk'.heard = bulk.heard)
  <2>1. CASE ~(bulk # None /\ q.many)
    <3>1. bulk' = bulk
      BY <1>2, <2>1
    <3>2. bulk # None => Busy' = Busy
      BY <1>1, <1>6, <2>1 DEF Busy
    <3> QED
      BY <3>1, <3>2 DEF FilesInv, FilesTypeOK, Within
  <2>2. CASE bulk # None /\ q.many
    <3>1. bulk \in RunningBulks /\ Cardinality(Busy) <= bulk.workers
      BY <2>2 DEF FilesInv, FilesTypeOK, Within
    <3>2. c \in Busy
      BY <1>1, <1>2, <2>2 DEF Busy
    <3>3. Cardinality(Busy') = Cardinality(Busy) - 1 /\ Cardinality(Busy') \in Nat
      BY <1>6, <3>2, FS_RemoveElement, FS_CardinalityType
    <3>4. bulk' = [bulk EXCEPT !.workers = bulk.workers - 1]
      BY <1>2, <2>2
    <3>5. bulk.workers \in 0..Workers /\ Workers \in Nat /\ Cardinality(Busy) \in Nat
      BY <1>6, <3>1, FilesAssumption, FS_CardinalityType DEF RunningBulks, BulkOf
    <3>6. PICK w \in 0..Workers : w = bulk.workers - 1
      BY <3>1, <3>3, <3>5
    <3>7. bulk' = [bulk EXCEPT !.workers = w]
      BY <3>4, <3>6
    <3>8. bulk' \in RunningBulks
      <4>1. ASSUME NEW op, NEW rows, bulk \in BulkOf(op, rows)
            PROVE  bulk' \in BulkOf(op, rows)
        BY <3>7, <4>1 DEF BulkOf
      <4> QED
        BY <3>1, <4>1 DEF RunningBulks
    <3>9. bulk'.workers = w /\ bulk'.heard = bulk.heard
      BY <3>1, <3>7 DEF RunningBulks, BulkOf
    <3>10. Within'
      BY <3>1, <3>3, <3>5, <3>6, <3>9 DEF Within
    <3> QED
      BY <3>8, <3>9, <3>10
  <2> QED
    BY <2>1, <2>2
<1>8. FilesTypeOK'
  BY <1>2, <1>3, <1>6, <1>7 DEF FilesInv, FilesTypeOK
<1>9. ListsTrue'
  BY <1>2 DEF FilesInv, ListsTrue, ListAt
<1>10. Here'
  BY <1>2, <1>3, <1>5, <1>6, <1>7 DEF FilesInv, Here
<1>11. Looks'
  <2>1. CASE q.step = "done"
    BY <1>3, <2>1 DEF Looks
  <2>2. CASE q.step # "done"
    <3>1. ~\E k : Says(c, k)
      BY <1>1, <2>2 DEF Says, CallAt
    <3>2. SameAnswers
      BY <1>6, <3>1 DEF SameAnswers
    <3>3. ~q.old
      BY <1>1, <1>2, <2>2 DEF FilesInv, CallsTrue, Pending
    <3>4. Excused => Excused'
      BY <1>1, <1>2, <1>3, <1>6, <3>3 DEF Excused
    <3> QED
      BY <1>2, <1>3, <3>2, <3>4, LooksStay DEF FilesInv
  <2> QED
    BY <2>1, <2>2
<1> QED
  BY <1>6, <1>7, <1>8, <1>9, <1>10, <1>11 DEF FilesInv

(* The store takes an answer.                                              *)
LEMMA CommittedShown ==
  ASSUME FilesInv, NEW c \in Calls, CallAt(c, "done")
  PROVE  /\ Committed(call[c]) \in [of : Places \cup {Overview, None}, rows : Lists]
         /\ Committed(call[c]).of = shown.of
         /\ \A k \in Items : k # call[c].item => Committed(call[c]).rows[k] = shown.rows[k]
         /\ call[c].op \in {"create", "update", "delete"} /\ call[c].item \in Items
         /\ call[c].op = "create" => Committed(call[c]).rows[call[c].item] = call[c].row
         /\ call[c].op = "delete" => Committed(call[c]).rows[call[c].item] = None
                                     /\ call[c].row = None
         /\ call[c].op = "update" =>
              /\ call[c].row # None
              /\ Committed(call[c]).rows[call[c].item] =
                   IF shown.rows[call[c].item] # None THEN call[c].row ELSE None
<1>1. PICK q : q = call[c]
  OBVIOUS
<1>2. q \in RunningCalls /\ q.step = "done"
  BY <1>1 DEF CallAt, FilesInv, FilesTypeOK
<1>3. /\ q.op \in {"create", "update", "delete"} /\ q.item \in Items
      /\ q.op = "create" => q.row \in Rows
      /\ q.op = "update" => q.row \in Rows
      /\ q.op = "delete" => q.row = None
  BY <1>2 DEF RunningCalls, CallOf
<1>4. shown \in [of : Places \cup {Overview, None}, rows : Lists] /\ None \notin Rows
  BY FilesAssumption DEF FilesInv, FilesTypeOK
<1>5. PICK entry : entry = IF q.op = "create" \/ (q.op = "update" /\ shown.rows[q.item] # None)
                       THEN q.row
                       ELSE IF q.op = "delete" THEN None ELSE shown.rows[q.item]
  OBVIOUS
<1>6. shown.rows \in [Items -> Rows \cup {None}]
  BY <1>4 DEF Lists
<1>7. entry \in Rows \cup {None}
  BY <1>3, <1>5, <1>6
<1>8. PICK rows : rows = [shown.rows EXCEPT ![q.item] = entry]
  OBVIOUS
<1>9. rows \in Lists /\ rows[q.item] = entry /\ \A k \in Items : k # q.item => rows[k] = shown.rows[k]
  BY <1>3, <1>6, <1>7, <1>8 DEF Lists
<1>10. Committed(q) = [shown EXCEPT !.rows = rows]
  BY <1>5, <1>8 DEF Committed
<1>11. PICK x : x = [shown EXCEPT !.rows = rows]
  OBVIOUS
<1>12. x \in [of : Places \cup {Overview, None}, rows : Lists] /\ x.of = shown.of /\ x.rows = rows
  BY <1>4, <1>9, <1>11
<1> QED
  BY <1>1, <1>3, <1>4, <1>5, <1>9, <1>10, <1>11, <1>12

LEMMA AnswerFollows ==
  ASSUME FilesInv, NEW c \in Calls, CallAt(c, "done"), shown' = Committed(call[c]),
         call' = [call EXCEPT ![c] = None], apart' = (apart \/ Spoils(call[c])),
         UNCHANGED <<viewer, kept, place, lists, soon, events, missed, bulk>>
  PROVE  Looks'
<1>1. PICK q : q = call[c]
  OBVIOUS
<1>2. SUFFICES ASSUME place \in Places, ~apart, ~Spoils(q)
               PROVE  Excused' \/ Followed'
  BY <1>1 DEF Looks
<1>3. call[c] # None
  BY DEF CallAt
<1>4. /\ call'[c] = None /\ \A d \in Calls : d # c => call'[d] = call[d]
      /\ \A d \in Calls : \A k, entry : Mends(d, k, entry)' <=> d # c /\ Mends(d, k, entry)
  BY <1>3, CallEnds
<1>5. /\ ~q.old /\ (q.told \/ ~ListsLoading) /\ (q.op = "create" => place = Place[q.item])
  BY <1>2 DEF Spoils
<1>6. Excused => Excused'
  BY <1>1, <1>4, <1>5 DEF Excused
<1>7. Says(c, q.item) /\ q.item \in Items /\ q.row = kept[q.item]
  <2>1. q.item \in Items /\ Says(c, q.item)
    BY <1>1, <1>5, CommittedShown DEF Says
  <2> QED
    BY <1>1, <2>1 DEF FilesInv, CallsTrue
<1>8. CanManage
  BY <1>3 DEF FilesInv, CallsTrue
<1>9. \A k : Expected(k)' = Expected(k)
  BY DEF Expected, MayList, CanManage
<1>10. \A k : Mends(c, k, None) \/ (\E entry : Mends(c, k, entry)) => k = q.item /\ ~q.told
  BY <1>1 DEF Mends, Says
<1>11. ASSUME NEW k \in Items, NEW entry, RightRow(entry, k), k # q.item \/ q.told
       PROVE  RightRow(entry, k)'
  <2>1. ~Mends(c, k, entry)
    BY <1>10, <1>11
  <2> QED
    BY <1>4, <1>9, <1>11, <2>1 DEF RightRow
<1>12. CASE \E l \in FileLoads : Reading(l)
  <2>1. PICK l \in FileLoads : Reading(l)
    BY <1>12
  <2>2. q.told
    BY <1>5, <2>1 DEF Reading, ListsLoading
  <2>3. \A k \in Items : Unread(l, k)' <=> Unread(l, k)
    BY DEF Unread
  <2>4. Reading(l)'
    BY <1>11, <2>1, <2>2, <2>3 DEF Reading
  <2> QED
    BY <2>4 DEF Followed
<1>13. CASE /\ shown.of = place /\ \A k \in Items : RightRow(shown.rows[k], k)
            /\ \A l \in FileLoads : lists[l] # None => lists[l].of # place
  <2>1. PICK x : x = Committed(q)
    OBVIOUS
  <2>2. x.of = place
    BY <1>1, <1>13, <2>1, CommittedShown
  <2>3. ASSUME NEW k \in Items
        PROVE  RightRow(x.rows[k], k)'
    <3>1. CASE k # q.item
      <4>1. x.rows[k] = shown.rows[k]
        BY <1>1, <2>1, <3>1, CommittedShown
      <4> QED
        BY <1>11, <1>13, <3>1, <4>1
    <3>2. CASE k = q.item
      <4>1. x.rows[k] = Expected(k)
        <5>1. CASE q.op = "create"
          BY <1>1, <1>5, <1>7, <1>8, <2>1, <3>2, <5>1, CommittedShown DEF Expected, MayList
        <5>2. CASE q.op = "delete"
          BY <1>1, <1>7, <2>1, <3>2, <5>2, CommittedShown DEF Expected
        <5>3. CASE q.op = "update" /\ shown.rows[k] # None
          <6>1. Place[k] = place
            BY <1>13, <5>3 DEF RightRow, Expected
          <6> QED
            BY <1>1, <1>7, <1>8, <2>1, <3>2, <5>3, <6>1, CommittedShown DEF Expected, MayList
        <5>4. CASE q.op = "update" /\ shown.rows[k] = None
          <6>1. \A d \in Calls : ~Mends(d, k, None)
            <7>1. SUFFICES ASSUME NEW d \in Calls, Mends(d, k, None)
                           PROVE  FALSE
              OBVIOUS
            <7>2. d = c
              BY <1>7, <3>2, <7>1 DEF Mends, FilesInv, CallsTrue
            <7> QED
              BY <1>1, <5>4, <7>1, <7>2 DEF Mends
          <6>2. Expected(k) = None
            BY <1>13, <5>4, <6>1 DEF RightRow
          <6> QED
            BY <1>1, <2>1, <3>2, <5>4, <6>2, CommittedShown
        <5> QED
          BY <1>1, <5>1, <5>2, <5>3, <5>4, CommittedShown
      <4> QED
        BY <1>9, <4>1 DEF RightRow
    <3> QED
      BY <3>1, <3>2
  <2> QED
    BY <1>1, <1>13, <2>1, <2>2, <2>3 DEF Followed
<1>14. Excused \/ Followed
  BY <1>2 DEF FilesInv, Looks
<1> QED
  BY <1>6, <1>12, <1>13, <1>14 DEF Followed

LEMMA AnswerTakenKeeps ==
  ASSUME FilesInv, NEW c \in Calls, CallAt(c, "done"), shown' = Committed(call[c]),
         call' = [call EXCEPT ![c] = None], apart' = (apart \/ Spoils(call[c])),
         UNCHANGED <<viewer, kept, downloading, bulk, soon, connected, events>>,
         place' \in Places \cup {Overview, None}, place' = None => place = None,
         picked' \subseteq Items, missed' \in BOOLEAN, naming' \in BOOLEAN,
         field' \in {FALSE, field},
         \/ UNCHANGED <<lists, place, missed>>
         \/ \E l \in FileLoads, p \in Places \cup {Overview} :
              AsksList(l, p) /\ (place' \in Places => p = place')
  PROVE  FilesInv'
<1>1. call[c] # None
  BY DEF CallAt
<1>2. /\ call' \in [Calls -> RunningCalls \cup {None}] /\ CallsTrue'
      /\ call'[c] = None /\ \A d \in Calls : d # c => call'[d] = call[d]
      /\ Busy' = Busy \ {c} /\ IsFiniteSet(Busy)
  BY <1>1, CallEnds
<1>3. Within'
  <2>1. Cardinality(Busy') <= Cardinality(Busy) /\ Cardinality(Busy) \in Nat
        /\ Cardinality(Busy') \in Nat
    BY <1>2, FS_Subset, FS_CardinalityType
  <2>2. bulk # None => bulk.workers \in Nat
    BY FilesAssumption DEF FilesInv, FilesTypeOK, RunningBulks, BulkOf
  <2> QED
    BY <2>1, <2>2 DEF FilesInv, Within
<1>4. Here'
  BY <1>2 DEF FilesInv, Here
<1>5. lists' \in [FileLoads -> RunningLists \cup {None}] => FilesTypeOK'
  <2>1. shown' \in [of : Places \cup {Overview, None}, rows : Lists]
    BY CommittedShown
  <2>2. apart' \in BOOLEAN /\ field' \in BOOLEAN
    BY DEF FilesInv, FilesTypeOK
  <2> QED
    BY <1>2, <2>1, <2>2 DEF FilesInv, FilesTypeOK
<1>6. CASE UNCHANGED <<lists, place, missed>>
  <2>1. FilesTypeOK'
    BY <1>5, <1>6 DEF FilesInv, FilesTypeOK
  <2>2. ListsTrue'
    BY <1>6 DEF FilesInv, ListsTrue, ListAt
  <2>3. Looks'
    BY <1>6, AnswerFollows
  <2> QED
    BY <1>2, <1>3, <1>4, <2>1, <2>2, <2>3 DEF FilesInv
<1>7. CASE \E l \in FileLoads, p \in Places \cup {Overview} :
             AsksList(l, p) /\ (place' \in Places => p = place')
  BY <1>2, <1>3, <1>4, <1>5, <1>7, LoadKeeps
<1> QED
  BY <1>6, <1>7

LEMMA FolderKeeps ==
  ASSUME FilesInv, NEW c \in Calls, NEW l \in FileLoads, FolderCreated(c, l)
  PROVE  FilesInv'
<1>1. /\ CallAt(c, "done") /\ call[c].op = "create" /\ shown' = Committed(call[c])
      /\ call' = [call EXCEPT ![c] = None] /\ apart' = (apart \/ Spoils(call[c]))
      /\ UNCHANGED <<viewer, kept, downloading, bulk, soon, connected, events>>
      /\ naming' = (naming /\ ~call[c].heard)
  BY DEF FolderCreated
<1>2. naming' \in BOOLEAN /\ missed \in BOOLEAN /\ picked \subseteq Items
      /\ place \in Places \cup {Overview, None}
  BY <1>1 DEF FilesInv, FilesTypeOK
<1>3. None \notin Places \cup {Overview} /\ Overview \notin Places /\ Root \in Places
  BY FilesAssumption DEF Places
<1>4. CASE place = Overview
  <2>1. /\ place' = Root /\ picked' = {} /\ AsksList(l, Root) /\ missed' = FALSE /\ field' = FALSE
    BY <1>4 DEF FolderCreated, Load
  <2> QED
    BY <1>1, <1>2, <1>3, <2>1, AnswerTakenKeeps
<1>5. CASE place # Overview
  <2>1. place' = place /\ picked' = picked
    BY <1>5 DEF FolderCreated
  <2>2. CASE call[c].heard
    <3>1. AsksList(l, place) /\ missed' = FALSE /\ field' = FALSE
      BY <1>5, <2>2 DEF FolderCreated, Load
    <3>2. place # None
      BY <1>1, <2>2 DEF FilesInv, Here, CallAt
    <3>3. place \in Places \cup {Overview}
      BY <1>2, <3>2
    <3> QED
      BY <1>1, <1>2, <2>1, <3>1, <3>3, AnswerTakenKeeps
  <2>3. CASE ~call[c].heard
    <3>1. AsksList(l, Elsewhere) /\ missed' = missed /\ field' = field
      BY <1>5, <2>3 DEF FolderCreated
    <3>2. PICK p : p = Elsewhere
      OBVIOUS
    <3>3. p \in Places \cup {Overview} /\ (place \in Places => p = place)
      BY <1>2, <1>3, <3>2 DEF Elsewhere
    <3>4. AsksList(l, p)
      BY <3>1, <3>2
    <3> QED
      BY <1>1, <1>2, <2>1, <3>1, <3>3, <3>4, AnswerTakenKeeps
  <2> QED
    BY <2>2, <2>3
<1> QED
  BY <1>4, <1>5

LEMMA UploadedKeeps ==
  ASSUME FilesInv, NEW c \in Calls, NEW l \in FileLoads, Uploaded(c, l)
  PROVE  FilesInv'
<1>1. /\ CallAt(c, "done") /\ shown' = Committed(call[c])
      /\ call' = [call EXCEPT ![c] = None] /\ apart' = (apart \/ Spoils(call[c]))
      /\ UNCHANGED <<viewer, kept, downloading, bulk, soon, connected, events>>
      /\ naming' = FALSE /\ place' = place /\ picked' = picked
  BY DEF Uploaded
<1>2. missed \in BOOLEAN /\ picked \subseteq Items /\ place \in Places \cup {Overview, None}
  BY DEF FilesInv, FilesTypeOK
<1>3. CASE field
  <2>1. AsksList(l, place) /\ missed' = FALSE /\ field' = FALSE
    BY <1>3 DEF Uploaded, Load
  <2>2. place \in Places \cup {Overview}
    BY <1>2, <1>3 DEF FilesInv, Here
  <2> QED
    BY <1>1, <1>2, <2>1, <2>2, AnswerTakenKeeps
<1>4. CASE ~field
  <2>1. lists' = lists /\ missed' = missed /\ field' = field
    BY <1>4 DEF Uploaded
  <2> QED
    BY <1>1, <1>2, <2>1, AnswerTakenKeeps
<1> QED
  BY <1>3, <1>4

LEMMA AnsweredKeeps ==
  ASSUME FilesInv, NEW c \in Calls, ChangeAnswered(c)
  PROVE  FilesInv'
<1>1. /\ CallAt(c, "done") /\ shown' = Committed(call[c])
      /\ call' = [call EXCEPT ![c] = None] /\ apart' = (apart \/ Spoils(call[c]))
      /\ UNCHANGED <<viewer, kept, downloading, bulk, soon, connected, events>>
      /\ UNCHANGED <<place, picked, downloading, missed, naming, field, lists>>
  BY DEF ChangeAnswered
<1>2. /\ place' \in Places \cup {Overview, None} /\ picked' \subseteq Items
      /\ missed' \in BOOLEAN /\ naming' \in BOOLEAN
  BY <1>1 DEF FilesInv, FilesTypeOK
<1> QED
  BY <1>1, <1>2, AnswerTakenKeeps

LEMMA DocumentKeeps ==
  ASSUME FilesInv, NEW c \in Calls, DocumentCreated(c)
  PROVE  FilesInv'
<1>1. PICK D : D = {c}
  OBVIOUS
<1>2. /\ call' = [d \in Calls |-> IF d = c THEN None ELSE UnheardCall(call[d])]
      /\ bulk' = IF bulk = None THEN None ELSE [bulk EXCEPT !.heard = FALSE]
      /\ place' = None /\ picked' = {} /\ missed' = FALSE /\ downloading' = FALSE
      /\ naming' = FALSE /\ field' = FALSE /\ soon' = FALSE /\ UNCHANGED <<viewer, kept, lists,
                                                                           connected, events>>
      /\ CallAt(c, "done") /\ shown' = Committed(call[c])
      /\ apart' = (apart \/ Spoils(call[c]))
  BY DEF DocumentCreated
<1>3. call' = [d \in Calls |-> IF d \in D THEN None ELSE UnheardCall(call[d])]
  BY <1>1, <1>2
<1>4. shown' \in [of : Places \cup {Overview, None}, rows : Lists]
  BY <1>2, CommittedShown
<1>5. apart' \in BOOLEAN /\ D \in SUBSET Calls
  BY <1>1, <1>2 DEF FilesInv, FilesTypeOK
<1> QED
  BY <1>2, <1>3, <1>4, <1>5, GoneKeeps

LEMMA FilesKeep ==
  ASSUME FilesInv, [FilesNext]_fileVs
  PROVE  FilesInv'
<1>1. CASE GoesAway
  BY <1>1, GoesAwayKeeps
<1>2. CASE (\E i \in Items : ToggleOne(i)) \/ ToggleAll \/ Downloads \/ Downloaded
           \/ EventArrives \/ Disconnects \/ Connects
  BY <1>2, TicksKeep
<1>3. ASSUME NEW l \in FileLoads,
             \/ \E p \in Places \cup {Overview} : Goes(l, p)
             \/ ChangesPage(l) \/ EndsBulk(l) \/ TimerFires(l)
      PROVE  FilesInv'
  BY <1>3, LoadsKeep
<1>4. ASSUME NEW l \in FileLoads,
             \/ OpensFolder(l) \/ Shows(l) \/ ListAbandoned(l)
             \/ \E table \in Tables : ReadsTable(l, table)
      PROVE  FilesInv'
  <2>1. CASE FileListFails(l)
    BY <2>1, FailsKeeps
  <2>2. CASE OpensFolder(l) /\ ~FileListFails(l)
    BY <2>2, OpensKeeps
  <2>3. CASE Shows(l)
    BY <2>3, ShowsKeeps
  <2>4. CASE \E table \in Tables : ReadsTable(l, table)
    BY <2>4, ReadsTableKeeps
  <2> QED
    BY <1>4, <2>1, <2>2, <2>3, <2>4 DEF ListAbandoned
<1>5. ASSUME NEW l \in FileLoads, NEW c \in Calls, FolderCreated(c, l) \/ Uploaded(c, l)
      PROVE  FilesInv'
  BY <1>5, FolderKeeps, UploadedKeeps
<1>6. ASSUME NEW i \in Items, NEW entry \in Rows \cup {None}, OthersChange(i, entry)
      PROVE  FilesInv'
  BY <1>6, OthersKeep
<1>7. ASSUME NEW c \in Calls, NEW i \in Items,
             \/ \E title \in Texts : Renames(c, i, title)
             \/ \E entry \in Rows : Creates(c, i, entry)
             \/ Deletes(c, i) \/ TakesTask(c, i)
      PROVE  FilesInv'
  BY <1>7, AskedKeeps
<1>8. CASE \/ \E p \in BOOLEAN : BeginsBulk("update", [public |-> p])
           \/ BeginsBulk("delete", <<>>) \/ GivesUpBulk
  <2>1. ASSUME NEW p \in BOOLEAN, BeginsBulk("update", [public |-> p])
        PROVE  FilesInv'
    <3>1. PICK entry : entry = [public |-> p]
      OBVIOUS
    <3>2. entry \in Patches /\ BeginsBulk("update", entry)
      BY <2>1, <3>1 DEF Patches
    <3> QED
      BY <3>2, BulkKeeps
  <2>2. CASE BeginsBulk("delete", <<>>)
    BY <2>2, BulkKeeps
  <2>3. CASE GivesUpBulk
    BY <2>3, BulkKeeps
  <2> QED
    BY <1>8, <2>1, <2>2, <2>3
<1>9. ASSUME NEW c \in Calls,
             \/ FindsRow(c) \/ PerformsCall(c) \/ CallFails(c)
             \/ ChangeAnswered(c) \/ DocumentCreated(c)
      PROVE  FilesInv'
  BY <1>9, FindsKeeps, PerformsKeeps, CallFailsKeeps, AnsweredKeeps, DocumentKeeps
<1>10. CASE UNCHANGED fileVs
  <2>1. UNCHANGED <<viewer, kept, place, shown, lists, call, bulk, missed, soon, events, apart>>
        /\ UNCHANGED <<picked, downloading, naming, field, connected>>
    BY <1>10 DEF fileVs
  <2>2. FilesTypeOK'
    BY <2>1 DEF FilesInv, FilesTypeOK
  <2>3. Here' /\ Within'
    BY <2>1 DEF FilesInv, Here, Within, Busy
  <2>4. Excused => Excused'
    BY <2>1 DEF Excused
  <2>5. bulk' # None => CanManage
    BY <2>1 DEF FilesInv, CallsTrue
  <2> QED
    BY <2>1, <2>2, <2>3, <2>4, <2>5, StayKeeps
<1> QED
  BY <1>1, <1>2, <1>3, <1>4, <1>5, <1>6, <1>7, <1>8, <1>9, <1>10 DEF FilesNext

(* FilesInv holds in every state: what the view of a place shows is        *)
(* followed, by an answer, an event or a list on its way, through every    *)
(* change of it.                                                           *)
THEOREM FilesInductive == FilesSpec => []FilesInv
<1>1. FilesInit => FilesInv
  BY FilesStart
<1>2. FilesInv /\ [FilesNext]_fileVs => FilesInv'
  BY FilesKeep
<1> QED
  BY <1>1, <1>2, PTL DEF FilesSpec

(* The store, the lists and requests under way and runLimited of FilesView *)
(* have their types.                                                       *)
THEOREM FilesTypeCorrect == FilesSpec => []FilesTypeOK
<1>1. FilesInv => FilesTypeOK
  BY DEF FilesInv
<1> QED
  BY <1>1, FilesInductive, PTL

(* When nothing is under way and the list was loaded when last asked for,  *)
(* the view of a place shows what the viewer may see of what is kept in    *)
(* it, also when an answer was made of a row read before a change of it.   *)
THEOREM FilesShown == FilesSpec => []FilesShownAreKept
<1>1. FilesInv => FilesShownAreKept
  <2>1. SUFFICES ASSUME FilesInv, place \in Places, ~ListsLoading, ~missed, ~soon, events = 0,
                        ~apart, \A c \in Calls : call[c] = None
                 PROVE  /\ shown.of = place
                        /\ shown.rows = [i \in Items |->
                             IF Place[i] = place /\ MayList(i) THEN kept[i] ELSE None]
    BY DEF FilesShownAreKept
  <2>2. ~Excused /\ Followed
    BY <2>1 DEF FilesInv, Looks, Excused, ListsLoading
  <2>3. shown.of = place /\ \A i \in Items : RightRow(shown.rows[i], i)
    BY <2>1, <2>2 DEF Followed, Reading, ListsLoading
  <2>4. \A i \in Items : shown.rows[i] = Expected(i)
    BY <2>1, <2>3 DEF RightRow, Mends, Says, CallAt
  <2>5. shown.rows \in [Items -> Rows \cup {None}]
    BY <2>1 DEF FilesInv, FilesTypeOK, Lists
  <2> QED
    BY <2>3, <2>4, <2>5 DEF Expected
<1> QED
  BY <1>1, FilesInductive, PTL

==============================================================================
