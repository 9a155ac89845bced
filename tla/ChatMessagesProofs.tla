-------------------------- MODULE ChatMessagesProofs --------------------------
(***************************************************************************)
(* Theorems about ChatMessages, for every set of users, messages, files    *)
(* and requests.                                                           *)
(***************************************************************************)
EXTENDS ChatMessages, TLAPS

(* The stages of a request that works on a message.                        *)
OnMessage == Stages \ {"insert", "countAttachments", "destroyFile"}

-----------------------------------------------------------------------------
(* What a request has in hand                                              *)

(* The message a request works on exists and is its user's; the payload    *)
(* has been validated, and the row it found is a row of the message.       *)
Fits(p) ==
  /\ req[p].phase \in OnMessage =>
       \E m \in Messages :
         /\ req[p].msgs = {m}
         /\ message[m].state # "none" /\ message[m].sender = req[p].user
  /\ req[p].phase \in Stages \ OnMessage => req[p].msgs = {}
  /\ req[p].phase \in {"insert", "writeText", "detach"} =>
       ValidPayload(req[p].text, req[p].files)
  /\ req[p].phase \in {"precheck", "check", "attach"} => req[p].files # {}
  /\ req[p].phase \in Stages \ {"precheck", "check"} => req[p].checked = {}
  /\ req[p].phase \in {"countAttachments", "destroyFile"} =>
       \E f \in Files : req[p].files = {f}
  /\ \A f \in ToAttach(p) : file[f].owner = req[p].user
  /\ At(p, "destroyRow") => \A a \in req[p].row : a.msg \in req[p].msgs

Ownership ==
  /\ \A p \in Requests : Fits(p)
  /\ \A a \in attached : message[a.msg].state # "none"
  /\ OnlyOwnFiles

-----------------------------------------------------------------------------
(* Files that are deleted while they are attached                          *)

Exposure ==
  /\ NoDanglingAttachment
  /\ \A p \in Requests : \A f \in ToAttach(p) : file[f].live \/ f \in exposed
  /\ \A q \in Requests : At(q, "destroyFile") =>
       \A f \in req[q].files \ exposed :
         /\ \A a \in attached : a.file # f
         /\ \A p \in Requests : f \notin ToAttach(p)

-----------------------------------------------------------------------------
(* The content of a message that only one request at a time works on       *)

(* What that request has read of the message still holds.                  *)
InHand(p, m) ==
  /\ At(p, "writeText") => req[p].had = message[m].text
  /\ req[p].phase \in {"precheck", "detach"} => message[m].text = req[p].text
  /\ At(p, "destroyMessage") => RowsOf(m) = {}
  /\ At(p, "findRow") =>
       /\ message[m].text \/ RowsOf(m) # {}
       /\ req[p].last \/ message[m].text \/ \E a, b \in RowsOf(m) : a # b
  /\ At(p, "destroyRow") => message[m].text \/ RowsOf(m) \ req[p].row # {}

Content(m) ==
  /\ \A p, q \in Requests : WorksOn(p, m) /\ WorksOn(q, m) => p = q
  /\ \A p \in Requests : WorksOn(p, m) => InHand(p, m)
  /\ message[m].state = "live" /\ (\A p \in Requests : ~WorksOn(p, m))
       => message[m].text \/ RowsOf(m) # {}
  /\ message[m].state = "deleted"
       => RowsOf(m) = {} /\ \A p \in Requests : ~WorksOn(p, m)

Contents == \A m \in Messages \ marred : Content(m)

IInv == TypeOK /\ Ownership /\ Exposure /\ Contents

-----------------------------------------------------------------------------
(* Slots                                                                   *)

Slot == {New, Done} \cup Pending

(* A slot that is at a stage holds a whole request, and an idle one none.  *)
LEMMA SlotAtStage ==
  ASSUME TypeOK, NEW p \in Requests
  PROVE  /\ req[p].phase \in Stages <=> req[p] \in Pending
         /\ Busy(p) <=> req[p] \in Pending
         /\ req[p] \in Pending => /\ req[p].user \in Users
                                  /\ req[p].msgs \subseteq Messages
                                  /\ req[p].text \in BOOLEAN
                                  /\ req[p].files \subseteq Files
                                  /\ req[p].had \in BOOLEAN
                                  /\ req[p].last \in BOOLEAN
                                  /\ req[p].row \subseteq Attachment
                                  /\ req[p].checked \subseteq Files
<1>1. req[p] \in {New, Done} \cup Pending
  BY DEF TypeOK
<1>2. req[p] \in {New, Done} => req[p].phase \in {"new", "done"}
  BY DEF New, Done
<1>3. req[p] \in Pending => req[p].phase \in Stages
  BY DEF Pending
<1>4. \A s \in Stages : s \notin {"new", "done"}
  BY DEF Stages
<1>. QED  BY <1>1, <1>2, <1>3, <1>4 DEF Busy, Pending

(* What an assignment to a slot leaves.                                    *)
LEMMA StartSlot ==
  ASSUME TypeOK, NEW p \in Requests, NEW r \in Slot, req' = [req EXCEPT ![p] = r]
  PROVE  /\ req' \in [Requests -> Slot]
         /\ req'[p] = r
         /\ \A q \in Requests \ {p} : req'[q] = req[q]
BY DEF TypeOK, Slot

LEMMA AnswerSlot ==
  ASSUME TypeOK, NEW p \in Requests, Answer(p)
  PROVE  /\ req' \in [Requests -> Slot]
         /\ req'[p] = Done /\ req'[p].phase = "done"
         /\ \A q \in Requests \ {p} : req'[q] = req[q]
BY DEF TypeOK, Slot, Answer, Done

LEMMA GotoSlot ==
  ASSUME TypeOK, NEW p \in Requests, NEW s \in Stages,
         req[p].phase \in Stages, Goto(p, s)
  PROVE  /\ req' \in [Requests -> Slot]
         /\ req'[p].phase = s /\ req'[p].user = req[p].user
         /\ req'[p].msgs = req[p].msgs /\ req'[p].text = req[p].text
         /\ req'[p].files = req[p].files /\ req'[p].had = req[p].had
         /\ req'[p].last = req[p].last /\ req'[p].row = req[p].row
         /\ req'[p].checked = req[p].checked
         /\ \A q \in Requests \ {p} : req'[q] = req[q]
<1>1. req[p] \in Pending
  BY SlotAtStage
<1>2. req'[p] = [req[p] EXCEPT !.phase = s] /\ req \in [Requests -> Slot]
  BY DEF TypeOK, Goto, Slot
<1>3. [req[p] EXCEPT !.phase = s] \in Pending
  BY <1>1 DEF Pending
<1>. QED  BY <1>1, <1>2, <1>3 DEF Goto, Slot, Pending

(* One file more is checked: the others are left, or it was the last.      *)
LEMMA CheckSlot ==
  ASSUME TypeOK, NEW p \in Requests, NEW s \in Stages, req[p].phase \in Stages,
         NEW f \in req[p].files, req' = [req EXCEPT ![p] = Checked(req[p], f, s)]
  PROVE  /\ req' \in [Requests -> Slot]
         /\ \/ /\ req'[p].phase = s /\ req'[p].checked = {}
               /\ req[p].files = req[p].checked \cup {f}
            \/ /\ req'[p].phase = req[p].phase
               /\ req'[p].checked = req[p].checked \cup {f}
         /\ req'[p].user = req[p].user
         /\ req'[p].msgs = req[p].msgs /\ req'[p].text = req[p].text
         /\ req'[p].files = req[p].files /\ req'[p].had = req[p].had
         /\ req'[p].last = req[p].last /\ req'[p].row = req[p].row
         /\ \A q \in Requests \ {p} : req'[q] = req[q]
<1>1. /\ req[p] \in Pending /\ f \in Files
      /\ req[p].files \subseteq Files /\ req[p].checked \subseteq Files
  BY SlotAtStage
<1>2. PICK all : all = [req[p] EXCEPT !.phase = s, !.checked = {}]
  OBVIOUS
<1>3. PICK part : part = [req[p] EXCEPT !.checked = @ \cup {f}]
  OBVIOUS
<1>4. /\ all \in Pending /\ all.phase = s /\ all.checked = {}
      /\ part \in Pending /\ part.phase = req[p].phase
      /\ part.checked = req[p].checked \cup {f}
  BY <1>1, <1>2, <1>3 DEF Pending
<1>5. \A r \in {all, part} :
        /\ r.user = req[p].user /\ r.msgs = req[p].msgs /\ r.text = req[p].text
        /\ r.files = req[p].files /\ r.had = req[p].had
        /\ r.last = req[p].last /\ r.row = req[p].row
  BY <1>1, <1>2, <1>3 DEF Pending
<1>6. PICK r \in Slot : r = Checked(req[p], f, s)
  BY <1>2, <1>3, <1>4 DEF Checked, Slot
<1>7. /\ r \in {all, part}
      /\ r # part => r = all /\ req[p].files = req[p].checked \cup {f}
  BY <1>2, <1>3, <1>6 DEF Checked
<1>8. /\ req' \in [Requests -> Slot] /\ req'[p] = r
      /\ \A q \in Requests \ {p} : req'[q] = req[q]
  BY <1>6, StartSlot
<1>. QED  BY <1>4, <1>5, <1>7, <1>8

LEMMA InsertSlot ==
  ASSUME TypeOK, NEW p \in Requests, At(p, "insert"), NEW m \in Messages,
         req' = [req EXCEPT ![p].phase = "check", ![p].msgs = {m}]
  PROVE  /\ req' \in [Requests -> Slot]
         /\ req'[p].phase = "check" /\ req'[p].msgs = {m}
         /\ req'[p].user = req[p].user /\ req'[p].files = req[p].files
         /\ req'[p].checked = req[p].checked
         /\ \A q \in Requests \ {p} : req'[q] = req[q]
<1>1. req[p] \in Pending /\ "check" \in Stages
  BY SlotAtStage DEF At, Stages
<1>2. req' = [req EXCEPT ![p] = [req[p] EXCEPT !.phase = "check", !.msgs = {m}]]
  BY <1>1 DEF TypeOK, Pending
<1>3. [req[p] EXCEPT !.phase = "check", !.msgs = {m}] \in Slot
  BY <1>1 DEF Slot, Pending
<1>4. PICK r \in Slot : r = [req[p] EXCEPT !.phase = "check", !.msgs = {m}]
  BY <1>3
<1>5. /\ req' \in [Requests -> Slot]
      /\ req'[p] = r
      /\ \A q \in Requests \ {p} : req'[q] = req[q]
  BY <1>2, <1>4, StartSlot
<1>. QED  BY <1>1, <1>4, <1>5 DEF Pending

LEMMA FindSlot ==
  ASSUME TypeOK, NEW p \in Requests, At(p, "findRow"), NEW a \in attached,
         req' = [req EXCEPT ![p].phase = "destroyRow", ![p].row = {a}]
  PROVE  /\ req' \in [Requests -> Slot]
         /\ req'[p].phase = "destroyRow" /\ req'[p].row = {a}
         /\ req'[p].user = req[p].user /\ req'[p].msgs = req[p].msgs
         /\ req'[p].checked = req[p].checked
         /\ \A q \in Requests \ {p} : req'[q] = req[q]
<1>1. req[p] \in Pending /\ "destroyRow" \in Stages
  BY SlotAtStage DEF At, Stages
<1>2. req' = [req EXCEPT ![p] = [req[p] EXCEPT !.phase = "destroyRow", !.row = {a}]]
  BY <1>1 DEF TypeOK, Pending
<1>3. [req[p] EXCEPT !.phase = "destroyRow", !.row = {a}] \in Slot
  BY <1>1 DEF Slot, Pending, TypeOK
<1>4. PICK r \in Slot : r = [req[p] EXCEPT !.phase = "destroyRow", !.row = {a}]
  BY <1>3
<1>5. /\ req' \in [Requests -> Slot]
      /\ req'[p] = r
      /\ \A q \in Requests \ {p} : req'[q] = req[q]
  BY <1>2, <1>4, StartSlot
<1>. QED  BY <1>1, <1>4, <1>5 DEF Pending

-----------------------------------------------------------------------------
(* What a request begins with                                              *)

LEMMA SendStart ==
  ASSUME TypeOK, NEW p \in Requests, SendMessage(p)
  PROVE  /\ req' \in [Requests -> Slot]
         /\ req'[p].phase = "insert" /\ req'[p].msgs = {} /\ req'[p].checked = {}
         /\ ValidPayload(req'[p].text, req'[p].files)
         /\ \A q \in Requests \ {p} : req'[q] = req[q]
<1>1. PICK u \in Users, text \in BOOLEAN, files \in SUBSET Files :
        /\ ValidPayload(text, files)
        /\ req' = [req EXCEPT ![p] = Pend("insert", u, {}, text, files)]
  BY DEF SendMessage
<1>2. PICK r : r = Pend("insert", u, {}, text, files)
  OBVIOUS
<1>3. /\ r \in Slot /\ r.phase = "insert" /\ r.msgs = {} /\ r.checked = {}
      /\ r.text = text /\ r.files = files
  BY <1>2 DEF Pend, Pending, Slot, Stages
<1>. QED  BY <1>1, <1>2, <1>3, StartSlot

LEMMA UpdateStart ==
  ASSUME TypeOK, NEW p \in Requests, UpdateMessage(p)
  PROVE  /\ req' \in [Requests -> Slot]
         /\ req'[p].phase = "writeText" /\ req'[p].checked = {}
         /\ ValidPayload(req'[p].text, req'[p].files)
         /\ \E m \in Messages :
              /\ req'[p].msgs = {m} /\ MayEdit(req'[p].user, m)
              /\ req'[p].had = message[m].text
              /\ marred' = marred \cup Contended(p, {m})
         /\ \A q \in Requests \ {p} : req'[q] = req[q]
<1>1. PICK u \in Users, m \in Messages, text \in BOOLEAN, files \in SUBSET Files :
        /\ MayEdit(u, m) /\ ValidPayload(text, files)
        /\ req' = [req EXCEPT ![p] =
             [Pend("writeText", u, {m}, text, files) EXCEPT !.had = message[m].text]]
        /\ marred' = marred \cup Contended(p, {m})
  BY DEF UpdateMessage
<1>2. PICK b \in BOOLEAN : b = message[m].text
  BY DEF TypeOK, Message
<1>3. PICK r0 : r0 = Pend("writeText", u, {m}, text, files)
  OBVIOUS
<1>. PICK r : r = [r0 EXCEPT !.had = b]
  OBVIOUS
<1>4. /\ r \in Slot /\ r.phase = "writeText" /\ r.user = u /\ r.msgs = {m}
      /\ r.text = text /\ r.files = files /\ r.had = b /\ r.checked = {}
  BY <1>3 DEF Pend, Pending, Slot, Stages
<1>5. req' = [req EXCEPT ![p] = r]
  BY <1>1, <1>2, <1>3
<1>. QED  BY <1>1, <1>2, <1>4, <1>5, StartSlot

LEMMA DeleteStart ==
  ASSUME TypeOK, NEW p \in Requests, DeleteMessage(p)
  PROVE  /\ req' \in [Requests -> Slot]
         /\ req'[p].phase = "destroyRows" /\ req'[p].checked = {}
         /\ \E m \in Messages :
              /\ req'[p].msgs = {m} /\ MayEdit(req'[p].user, m)
              /\ marred' = marred \cup Contended(p, {m})
         /\ \A q \in Requests \ {p} : req'[q] = req[q]
<1>1. PICK u \in Users, m \in Messages :
        /\ MayEdit(u, m)
        /\ req' = [req EXCEPT ![p] = Pend("destroyRows", u, {m}, FALSE, {})]
        /\ marred' = marred \cup Contended(p, {m})
  BY DEF DeleteMessage
<1>2. PICK r : r = Pend("destroyRows", u, {m}, FALSE, {})
  OBVIOUS
<1>3. r \in Slot /\ r.phase = "destroyRows" /\ r.user = u /\ r.msgs = {m} /\ r.checked = {}
  BY <1>2 DEF Pend, Pending, Slot, Stages
<1>. QED  BY <1>1, <1>2, <1>3, StartSlot

LEMMA DeleteMessageFileStart ==
  ASSUME TypeOK, NEW p \in Requests, DeleteMessageFile(p)
  PROVE  /\ req' \in [Requests -> Slot]
         /\ req'[p].phase = "findRow" /\ req'[p].checked = {}
         /\ \E m \in Messages :
              /\ req'[p].msgs = {m} /\ MayEdit(req'[p].user, m)
              /\ req'[p].last \/ message[m].text \/ \E a, b \in RowsOf(m) : a # b
              /\ marred' = marred \cup Contended(p, {m})
         /\ \A q \in Requests \ {p} : req'[q] = req[q]
<1>1. PICK u \in Users, m \in Messages, f \in Files :
        /\ MayEdit(u, m)
        /\ req' = [req EXCEPT ![p] =
             [Pend("findRow", u, {m}, FALSE, {f}) EXCEPT
                !.last = ~message[m].text /\ \A a, b \in RowsOf(m) : a = b]]
        /\ marred' = marred \cup Contended(p, {m})
  BY DEF DeleteMessageFile
<1>2. PICK last \in BOOLEAN :
        last = (~message[m].text /\ \A a, b \in RowsOf(m) : a = b)
  OBVIOUS
<1>3. PICK r0 : r0 = Pend("findRow", u, {m}, FALSE, {f})
  OBVIOUS
<1>. PICK r : r = [r0 EXCEPT !.last = last]
  OBVIOUS
<1>4. /\ r \in Slot /\ r.phase = "findRow" /\ r.user = u /\ r.msgs = {m}
      /\ r.last = last /\ r.checked = {}
  BY <1>3 DEF Pend, Pending, Slot, Stages
<1>5. req' = [req EXCEPT ![p] = r]
  BY <1>1, <1>2, <1>3
<1>. QED  BY <1>1, <1>2, <1>4, <1>5, StartSlot

LEMMA DeleteFileStart ==
  ASSUME TypeOK, NEW p \in Requests, DeleteFile(p)
  PROVE  /\ req' \in [Requests -> Slot]
         /\ req'[p].phase = "countAttachments" /\ req'[p].msgs = {}
         /\ req'[p].checked = {}
         /\ \E f \in Files : req'[p].files = {f}
         /\ \A q \in Requests \ {p} : req'[q] = req[q]
<1>1. PICK u \in Users, f \in Files :
        req' = [req EXCEPT ![p] = Pend("countAttachments", u, {}, FALSE, {f})]
  BY DEF DeleteFile
<1>2. PICK r : r = Pend("countAttachments", u, {}, FALSE, {f})
  OBVIOUS
<1>3. /\ r \in Slot /\ r.phase = "countAttachments" /\ r.msgs = {} /\ r.files = {f}
      /\ r.checked = {}
  BY <1>2 DEF Pend, Pending, Slot, Stages
<1>. QED  BY <1>1, <1>2, <1>3, StartSlot

-----------------------------------------------------------------------------
(* The types                                                               *)

LEMMA InitTypes == Init => TypeOK
BY MessagesAssumption DEF Init, TypeOK, Attachment, File, New

LEMMA StartTypes ==
  ASSUME TypeOK, NEW p \in Requests,
         \/ SendMessage(p) \/ UpdateMessage(p) \/ DeleteMessage(p)
         \/ DeleteMessageFile(p) \/ DeleteFile(p)
  PROVE  TypeOK'
<1>1. req' \in [Requests -> Slot]
  BY SendStart, UpdateStart, DeleteStart, DeleteMessageFileStart, DeleteFileStart
<1>2. marred' \subseteq Messages
  BY DEF SendMessage, UpdateMessage, DeleteMessage, DeleteMessageFile, DeleteFile,
         Contended, TypeOK
<1>. QED
  BY <1>1, <1>2
  DEF SendMessage, UpdateMessage, DeleteMessage, DeleteMessageFile, DeleteFile, TypeOK, Slot

LEMMA StepTypes ==
  ASSUME TypeOK, NEW p \in Requests, Serve(p) \/ FailRequest(p)
  PROVE  TypeOK'
<1>. \A s \in {"check", "attach", "precheck", "detach", "destroyRows", "destroyMessage",
                "findRow", "destroyRow", "destroyFile", "insert", "writeText",
                "countAttachments"} : s \in Stages
  BY DEF Stages
<1>1. CASE \/ SendMessage(p) \/ UpdateMessage(p) \/ DeleteMessage(p)
           \/ DeleteMessageFile(p) \/ DeleteFile(p)
  BY <1>1, StartTypes
<1>2. CASE InsertMessage(p)
  <2>1. req[p] \in Pending /\ req[p].user \in Users /\ req[p].text \in BOOLEAN
    BY <1>2, SlotAtStage DEF InsertMessage, At
  <2>2. PICK m \in Messages :
          /\ message' = [message EXCEPT ![m] =
               [state |-> "live", sender |-> req[p].user, text |-> req[p].text]]
          /\ \/ Answer(p)
             \/ req' = [req EXCEPT ![p].phase = "check", ![p].msgs = {m}]
    BY <1>2 DEF InsertMessage
  <2>4. req' \in [Requests -> Slot]
    BY <1>2, <2>2, AnswerSlot, InsertSlot DEF InsertMessage
  <2>5. [state |-> "live", sender |-> req[p].user, text |-> req[p].text] \in Message
    BY <2>1 DEF Message
  <2>. QED  BY <1>2, <2>2, <2>4, <2>5 DEF InsertMessage, TypeOK, Slot
<1>3. CASE CheckFiles(p) \/ PrecheckFiles(p) \/ FailRequest(p)
  <2>1. req[p] \in Pending /\ req[p].phase \in Stages
        /\ req[p].msgs \subseteq Messages /\ req[p].files \subseteq Files
    BY <1>3, SlotAtStage DEF CheckFiles, PrecheckFiles, FailRequest, At
  <2>2. req' \in [Requests -> Slot]
    BY <1>3, <2>1, AnswerSlot, CheckSlot DEF CheckFiles, PrecheckFiles, FailRequest
  <2>3. marred' \subseteq Messages /\ exposed' \subseteq Files
    BY <1>3, <2>1 DEF CheckFiles, PrecheckFiles, FailRequest, TypeOK
  <2>. QED
    BY <1>3, <2>2, <2>3 DEF CheckFiles, PrecheckFiles, FailRequest, TypeOK, Slot
<1>4. CASE AttachFiles(p)
  <2>1. req[p] \in Pending /\ req[p].msgs \subseteq Messages /\ req[p].files \subseteq Files
    BY <1>4, SlotAtStage DEF AttachFiles, At
  <2>2. attached' \subseteq Attachment
    BY <1>4, <2>1 DEF AttachFiles, TypeOK, Attachment
  <2>. QED  BY <1>4, <2>2, AnswerSlot DEF AttachFiles, TypeOK, Slot
<1>5. CASE WriteText(p)
  <2>1. req[p] \in Pending /\ req[p].msgs \subseteq Messages /\ req[p].text \in BOOLEAN
        /\ req[p].phase \in Stages
    BY <1>5, SlotAtStage DEF WriteText, At
  <2>2. message' \in [Messages -> Message]
    <3>1. \A m \in Messages : [message[m] EXCEPT !.text = req[p].text] \in Message
      BY <2>1 DEF TypeOK, Message
    <3>2. \A m \in Messages : [message EXCEPT ![m].text = req[p].text]
                                \in [Messages -> Message]
      BY <3>1 DEF TypeOK
    <3>. QED  BY <1>5, <2>1, <3>2 DEF WriteText, TypeOK
  <2>3. req' \in [Requests -> Slot]
    BY <1>5, <2>1, GotoSlot DEF WriteText
  <2>. QED  BY <1>5, <2>2, <2>3 DEF WriteText, TypeOK, Slot
<1>6. CASE DestroyMessage(p)
  <2>1. req[p] \in Pending /\ req[p].msgs \subseteq Messages
    BY <1>6, SlotAtStage DEF DestroyMessage, At
  <2>2. message' \in [Messages -> Message]
    <3>1. \A m \in Messages : [message[m] EXCEPT !.state = "deleted"] \in Message
      BY DEF TypeOK, Message
    <3>. QED  BY <1>6, <2>1, <3>1 DEF DestroyMessage, TypeOK
  <2>. QED  BY <1>6, <2>2, AnswerSlot DEF DestroyMessage, TypeOK, Slot
<1>7. CASE DestroyFile(p)
  <2>1. req[p] \in Pending /\ req[p].files \subseteq Files
    BY <1>7, SlotAtStage DEF DestroyFile, At
  <2>2. file' \in [Files -> File]
    <3>1. \A f \in Files : [file[f] EXCEPT !.live = FALSE] \in File
      BY DEF TypeOK, File
    <3>. QED  BY <1>7, <2>1, <3>1 DEF DestroyFile, TypeOK
  <2>. QED  BY <1>7, <2>2, AnswerSlot DEF DestroyFile, TypeOK, Slot
<1>8. CASE DetachFiles(p) \/ DestroyRows(p) \/ DestroyRow(p) \/ CountAttachments(p)
  <2>1. req[p].phase \in Stages /\ req[p].files \subseteq Files
    BY <1>8, SlotAtStage DEF DetachFiles, DestroyRows, DestroyRow, CountAttachments, At
  <2>2. req' \in [Requests -> Slot]
    BY <1>8, <2>1, AnswerSlot, GotoSlot
    DEF DetachFiles, DestroyRows, DestroyRow, CountAttachments
  <2>. QED
    BY <1>8, <2>1, <2>2
    DEF DetachFiles, DestroyRows, DestroyRow, CountAttachments, TypeOK, Slot
<1>9. CASE FindRow(p)
  <2>1. req[p] \in Pending
    BY <1>9, SlotAtStage DEF FindRow, At
  <2>4. req' \in [Requests -> Slot]
    BY <1>9, FindSlot, AnswerSlot DEF FindRow
  <2>. QED  BY <1>9, <2>4 DEF FindRow, TypeOK, Slot
<1>. QED
  BY <1>1, <1>2, <1>3, <1>4, <1>5, <1>6, <1>7, <1>8, <1>9 DEF Serve

(* Every variable keeps its type: a slot holds a request of one of the     *)
(* stages or none, and nobody deletes what was never there.                *)
THEOREM TypeCorrect == Spec => []TypeOK
<1>1. TypeOK /\ [Next]_vars => TypeOK'
  <2>1. CASE UNCHANGED vars
    BY <2>1 DEF vars, TypeOK
  <2>. QED  BY <2>1, StepTypes DEF Next
<1>. QED  BY <1>1, InitTypes, PTL DEF Spec

(* A step of one request leaves the slots of the others alone.             *)
LEMMA OtherSlots ==
  ASSUME TypeOK, NEW p \in Requests, Serve(p) \/ FailRequest(p)
  PROVE  \A q \in Requests \ {p} : req'[q] = req[q]
<1>1. CASE \E s \in Stages : Goto(p, s) /\ req[p].phase \in Stages
  BY <1>1, GotoSlot
<1>2. CASE Answer(p)
  BY <1>2, AnswerSlot
<1>3. CASE \/ SendMessage(p) \/ UpdateMessage(p) \/ DeleteMessage(p)
           \/ DeleteMessageFile(p) \/ DeleteFile(p)
  BY <1>3, SendStart, UpdateStart, DeleteStart, DeleteMessageFileStart, DeleteFileStart
<1>4. CASE InsertMessage(p) \/ FindRow(p)
  BY <1>2, <1>4, InsertSlot, FindSlot DEF InsertMessage, FindRow
<1>5. CASE CheckFiles(p) \/ PrecheckFiles(p)
  <2>1. req[p].phase \in Stages /\ {"attach", "detach"} \subseteq Stages
    BY <1>5 DEF CheckFiles, PrecheckFiles, At, Stages
  <2>. QED  BY <1>2, <1>5, <2>1, CheckSlot DEF CheckFiles, PrecheckFiles
<1>. QED
  BY <1>1, <1>2, <1>3, <1>4, <1>5
  DEF Serve, AttachFiles, WriteText, DetachFiles, DestroyRows,
      DestroyMessage, DestroyRow, CountAttachments, DestroyFile, FailRequest, At, Stages

-----------------------------------------------------------------------------
(* A message once sent keeps its sender, a file its owner.                 *)

LEMMA SendersKept ==
  ASSUME TypeOK, NEW p \in Requests, Serve(p) \/ FailRequest(p)
  PROVE  /\ \A m \in Messages : message[m].state # "none" =>
              message'[m].state # "none" /\ message'[m].sender = message[m].sender
         /\ \A f \in Files : file'[f].owner = file[f].owner
<1>1. CASE InsertMessage(p)
  <2>1. PICK m \in Messages :
          /\ message[m].state = "none"
          /\ message' = [message EXCEPT ![m] =
               [state |-> "live", sender |-> req[p].user, text |-> req[p].text]]
    BY <1>1 DEF InsertMessage
  <2>. QED  BY <1>1, <2>1 DEF InsertMessage, TypeOK
<1>2. CASE WriteText(p) \/ DestroyMessage(p)
  <2>1. \/ UNCHANGED message
        \/ \E m \in Messages : message' = [message EXCEPT ![m].text = req[p].text]
        \/ \E m \in Messages : message' = [message EXCEPT ![m].state = "deleted"]
    <3>1. req[p].msgs \subseteq Messages
      BY <1>2, SlotAtStage DEF WriteText, DestroyMessage, At, Stages
    <3>. QED  BY <1>2, <3>1 DEF WriteText, DestroyMessage
  <2>2. \A m \in Messages : /\ message[m] \in Message
                            /\ [message[m] EXCEPT !.text = req[p].text].sender = message[m].sender
                            /\ [message[m] EXCEPT !.text = req[p].text].state = message[m].state
                            /\ [message[m] EXCEPT !.state = "deleted"].sender = message[m].sender
                            /\ [message[m] EXCEPT !.state = "deleted"].state = "deleted"
    BY DEF TypeOK, Message
  <2>3. UNCHANGED file
    BY <1>2 DEF WriteText, DestroyMessage
  <2>. QED  BY <2>1, <2>2, <2>3 DEF TypeOK
<1>3. CASE DestroyFile(p)
  <2>1. req[p].files \subseteq Files
    BY <1>3, SlotAtStage DEF DestroyFile, At, Stages
  <2>2. \A f \in Files : [file[f] EXCEPT !.live = FALSE].owner = file[f].owner
    BY DEF TypeOK, File
  <2>. QED  BY <1>3, <2>1, <2>2 DEF DestroyFile, TypeOK
<1>4. CASE UNCHANGED <<message, file>>
  BY <1>4
<1>. QED
  BY <1>1, <1>2, <1>3, <1>4
  DEF Serve, SendMessage, CheckFiles, AttachFiles, UpdateMessage, PrecheckFiles, DetachFiles,
      DeleteMessage, DestroyRows, DeleteMessageFile, FindRow, DestroyRow, DeleteFile,
      CountAttachments, FailRequest

-----------------------------------------------------------------------------
(* Who owns what is attached                                               *)

LEMMA OthersFit ==
  ASSUME TypeOK, NEW p \in Requests, Serve(p) \/ FailRequest(p),
         NEW q \in Requests, req'[q] = req[q], Fits(q)
  PROVE  Fits(q)'
<1>1. /\ \A m \in Messages : message[m].state # "none" =>
           message'[m].state # "none" /\ message'[m].sender = message[m].sender
      /\ \A f \in Files : file'[f].owner = file[f].owner
  BY SendersKept
<1>2. \A f \in ToAttach(q) : file'[f].owner = req[q].user
  BY <1>1 DEF Fits, ToAttach
<1>3. ToAttach(q)' = ToAttach(q)
  BY DEF ToAttach, At
<1>. QED  BY <1>1, <1>2, <1>3 DEF Fits, At

(* The request that has just done its step, stage by stage.                *)
LEMMA StepFits ==
  ASSUME TypeOK, NEW p \in Requests, Serve(p) \/ FailRequest(p), Fits(p)
  PROVE  Fits(p)'
<1>0. /\ \A m \in Messages : message[m].state # "none" =>
           message'[m].state # "none" /\ message'[m].sender = message[m].sender
      /\ \A f \in Files : file'[f].owner = file[f].owner
  BY SendersKept
<1>1. CASE SendMessage(p) \/ DeleteFile(p)
  BY <1>1, SendStart, DeleteFileStart DEF Fits, OnMessage, Stages, At, ToAttach
<1>2. CASE UpdateMessage(p) \/ DeleteMessage(p) \/ DeleteMessageFile(p)
  <2>1. /\ req'[p].phase \in {"writeText", "destroyRows", "findRow"}
        /\ req'[p].phase = "writeText" => ValidPayload(req'[p].text, req'[p].files)
        /\ \E m \in Messages : req'[p].msgs = {m} /\ MayEdit(req'[p].user, m)
        /\ req'[p].checked = {}
    BY <1>2, UpdateStart, DeleteStart, DeleteMessageFileStart
  <2>. QED  BY <1>0, <2>1 DEF Fits, OnMessage, Stages, At, ToAttach, MayEdit
<1>3. CASE InsertMessage(p)
  <2>1. PICK m \in Messages :
          /\ message' = [message EXCEPT ![m] =
               [state |-> "live", sender |-> req[p].user, text |-> req[p].text]]
          /\ IF req[p].files = {}
               THEN Answer(p)
               ELSE req' = [req EXCEPT ![p].phase = "check", ![p].msgs = {m}]
    BY <1>3 DEF InsertMessage
  <2>2. message'[m].state = "live" /\ message'[m].sender = req[p].user
    BY <2>1 DEF TypeOK
  <2>3. CASE req[p].files = {}
    BY <2>1, <2>3, AnswerSlot DEF Fits, OnMessage, Stages, At, ToAttach
  <2>4. CASE req[p].files # {}
    <3>1. /\ req'[p].phase = "check" /\ req'[p].msgs = {m}
          /\ req'[p].user = req[p].user /\ req'[p].files = req[p].files
          /\ req'[p].checked = {}
      BY <1>3, <2>1, <2>4, InsertSlot DEF InsertMessage, Fits, At, Stages
    <3>. QED  BY <2>2, <2>4, <3>1 DEF Fits, OnMessage, Stages, At, ToAttach
  <2>. QED  BY <2>3, <2>4
<1>4. CASE FindRow(p)
  <2>1. CASE Answer(p)
    BY <2>1, AnswerSlot DEF Fits, OnMessage, Stages, At, ToAttach
  <2>2. CASE \E a \in attached :
               /\ a.msg \in req[p].msgs
               /\ req' = [req EXCEPT ![p].phase = "destroyRow", ![p].row = {a}]
    <3>0. PICK a \in attached :
            /\ a.msg \in req[p].msgs
            /\ req' = [req EXCEPT ![p].phase = "destroyRow", ![p].row = {a}]
      BY <2>2
    <3>1. /\ req'[p].phase = "destroyRow" /\ req'[p].user = req[p].user
          /\ req'[p].msgs = req[p].msgs /\ req'[p].row = {a} /\ req'[p].checked = {}
      BY <1>4, <3>0, FindSlot DEF FindRow, Fits, At, Stages
    <3>2. req[p].phase \in OnMessage
      BY <1>4 DEF FindRow, At, OnMessage, Stages
    <3>. QED  BY <1>0, <3>0, <3>1, <3>2 DEF Fits, OnMessage, Stages, At, ToAttach
  <2>. QED  BY <1>4, <2>1, <2>2 DEF FindRow
<1>5. CASE Answer(p)
  BY <1>5, AnswerSlot DEF Fits, OnMessage, Stages, At, ToAttach
<1>6. CASE (CheckFiles(p) \/ PrecheckFiles(p)) /\ ~Answer(p)
  <2>1. PICK f \in req[p].files, s \in {"attach", "detach"} :
          /\ file[f].owner = req[p].user
          /\ req' = [req EXCEPT ![p] = Checked(req[p], f, s)]
          /\ req[p].phase = IF s = "attach" THEN "check" ELSE "precheck"
    BY <1>6 DEF CheckFiles, PrecheckFiles, OwnedByUser, At
  <2>2. /\ \/ /\ req'[p].phase = s /\ req'[p].checked = {}
              /\ req[p].files = req[p].checked \cup {f}
           \/ /\ req'[p].phase = req[p].phase
              /\ req'[p].checked = req[p].checked \cup {f}
        /\ req'[p].user = req[p].user /\ req'[p].msgs = req[p].msgs
        /\ req'[p].files = req[p].files /\ req'[p].text = req[p].text
    BY <2>1, CheckSlot DEF Stages
  <2>3. req[p].files \subseteq Files /\ req[p].phase \in OnMessage /\ req[p].files # {}
    BY <2>1, SlotAtStage DEF Stages, OnMessage
  <2>4. \A g \in ToAttach(p)' : file'[g].owner = req'[p].user
    <3>1. \A g \in ToAttach(p)' : g \in Files /\ (g = f \/ g \in ToAttach(p))
      BY <2>1, <2>2, <2>3 DEF ToAttach, At
    <3>. QED  BY <1>0, <2>1, <2>2, <3>1 DEF Fits
  <2>. QED  BY <1>0, <2>1, <2>2, <2>3, <2>4 DEF Fits, OnMessage, Stages, At, ToAttach, ValidPayload
<1>7. CASE \/ WriteText(p)
           \/ DetachFiles(p) /\ ~Answer(p)
           \/ DestroyRows(p)
  <2>1. PICK s \in {"detach", "precheck", "check", "destroyMessage"} :
          /\ Goto(p, s) /\ req[p].phase \in OnMessage \ {"precheck", "check"}
          /\ s = "precheck" => req[p].phase = "writeText" /\ req[p].files # {}
          /\ s = "detach" => req[p].phase = "writeText"
          /\ s = "check" => req[p].files # {}
    BY <1>7
    DEF WriteText, DetachFiles, DestroyRows, At, OnMessage, Stages
  <2>2. /\ req'[p].checked = {}
        /\ req'[p].phase = s /\ req'[p].user = req[p].user
        /\ req'[p].msgs = req[p].msgs /\ req'[p].files = req[p].files
        /\ req'[p].text = req[p].text
    BY <2>1, GotoSlot DEF Stages, OnMessage, Fits
  <2>3. s = "detach" => ValidPayload(req[p].text, req[p].files)
    BY <2>1 DEF Fits, ValidPayload
  <2>. QED  BY <1>0, <2>1, <2>2, <2>3 DEF Fits, OnMessage, Stages, At, ToAttach
<1>8. CASE CountAttachments(p) /\ ~Answer(p)
  <2>1. Goto(p, "destroyFile") /\ req[p].phase = "countAttachments"
    BY <1>8 DEF CountAttachments, At
  <2>2. /\ req'[p].phase = "destroyFile"
        /\ req'[p].msgs = req[p].msgs /\ req'[p].files = req[p].files
        /\ req'[p].checked = {}
    BY <2>1, GotoSlot DEF Stages, Fits
  <2>. QED  BY <2>1, <2>2 DEF Fits, OnMessage, Stages, At, ToAttach
<1>. QED
  BY <1>1, <1>2, <1>3, <1>4, <1>5, <1>6, <1>7, <1>8
  DEF Serve, CheckFiles, AttachFiles, PrecheckFiles, DetachFiles, DestroyMessage,
      DestroyRow, CountAttachments, DestroyFile, FailRequest

(* The rows of attachments only grow by those of a request that attaches.  *)
LEMMA NewRows ==
  ASSUME TypeOK, NEW p \in Requests, Serve(p) \/ FailRequest(p)
  PROVE  \/ attached' \subseteq attached
         \/ /\ AttachFiles(p)
            /\ attached' = attached \cup [msg : req[p].msgs, file : req[p].files, by : {p}]
BY DEF Serve, SendMessage, InsertMessage, CheckFiles, AttachFiles, UpdateMessage, WriteText,
       PrecheckFiles, DetachFiles, DeleteMessage, DestroyRows, DestroyMessage,
       DeleteMessageFile, FindRow, DestroyRow, DeleteFile, CountAttachments, DestroyFile,
       FailRequest

LEMMA StepOwnership ==
  ASSUME TypeOK, Ownership, NEW p \in Requests, Serve(p) \/ FailRequest(p)
  PROVE  Ownership'
<1>1. \A q \in Requests \ {p} : req'[q] = req[q]
  BY OtherSlots
<1>2. \A q \in Requests : Fits(q)'
  BY <1>1, StepFits, OthersFit DEF Ownership
<1>3. ASSUME NEW a \in attached'
      PROVE  message'[a.msg].state # "none" /\ file'[a.file].owner = message'[a.msg].sender
  <2>1. /\ \A m \in Messages : message[m].state # "none" =>
             message'[m].state # "none" /\ message'[m].sender = message[m].sender
        /\ \A f \in Files : file'[f].owner = file[f].owner
    BY SendersKept
  <2>2. CASE a \in attached
    <3>1. a.msg \in Messages /\ a.file \in Files
      BY <2>2 DEF TypeOK, Attachment
    <3>. QED  BY <2>1, <2>2, <3>1 DEF Ownership, OnlyOwnFiles
  <2>3. CASE a \notin attached
    <3>1. /\ AttachFiles(p)
          /\ a.msg \in req[p].msgs /\ a.file \in req[p].files
      BY <1>3, <2>3, NewRows
    <3>2. At(p, "attach") /\ req[p].phase \in OnMessage
      BY <3>1 DEF AttachFiles, At, OnMessage, Stages
    <3>3. a.file \in Files
      BY <3>1, <3>2, SlotAtStage DEF OnMessage
    <3>4. a.file \in ToAttach(p)
      BY <3>1, <3>2, <3>3 DEF ToAttach
    <3>5. /\ a.msg \in Messages /\ message[a.msg].state # "none"
          /\ message[a.msg].sender = req[p].user
      BY <3>1, <3>2 DEF Ownership, Fits
    <3>6. file[a.file].owner = req[p].user
      BY <3>4 DEF Ownership, Fits
    <3>. QED  BY <2>1, <3>3, <3>5, <3>6
  <2>. QED  BY <2>2, <2>3
<1>. QED  BY <1>2, <1>3 DEF Ownership, OnlyOwnFiles

LEMMA InitOwnership == Init => Ownership
<1>. SUFFICES ASSUME Init  PROVE Ownership
  OBVIOUS
<1>1. \A p \in Requests : req[p].phase = "new"
  BY DEF Init, New
<1>2. \A p \in Requests : Fits(p)
  BY <1>1 DEF Fits, OnMessage, Stages, At, ToAttach
<1>3. \A a \in attached : message[a.msg].state # "none"
  BY MessagesAssumption DEF Init
<1>. QED  BY <1>2, <1>3 DEF Ownership, OnlyOwnFiles, Init

-----------------------------------------------------------------------------
(* Files deleted under an attachment                                       *)

(* Only these four steps attach a file, delete one, or bring a request     *)
(* nearer to it.                                                           *)
LEMMA QuietStep ==
  ASSUME TypeOK, Ownership, NEW p \in Requests, Serve(p) \/ FailRequest(p),
         ~CheckFiles(p), ~AttachFiles(p), ~CountAttachments(p), ~DestroyFile(p)
  PROVE  /\ UNCHANGED <<file, exposed>> /\ attached' \subseteq attached
         /\ req'[p].phase # "destroyFile"
         /\ ToAttach(p)' = {}
<1>. USE DEF ToAttach, At
<1>1. CASE \/ SendMessage(p) \/ UpdateMessage(p) \/ DeleteMessage(p)
           \/ DeleteMessageFile(p) \/ DeleteFile(p)
  BY <1>1, SendStart, UpdateStart, DeleteStart, DeleteMessageFileStart, DeleteFileStart
  DEF SendMessage, UpdateMessage, DeleteMessage, DeleteMessageFile, DeleteFile
<1>2. CASE InsertMessage(p) \/ FindRow(p)
  <2>1. req[p].checked = {}
    BY <1>2 DEF InsertMessage, FindRow, Ownership, Fits, Stages
  <2>. QED  BY <1>2, <2>1, AnswerSlot, InsertSlot, FindSlot DEF InsertMessage, FindRow
<1>3. CASE Answer(p)
  BY <1>3, AnswerSlot
  DEF Serve, SendMessage, InsertMessage, UpdateMessage, WriteText, PrecheckFiles,
      DetachFiles, DeleteMessage, DestroyRows, DestroyMessage, DeleteMessageFile, FindRow,
      DestroyRow, DeleteFile, FailRequest
<1>4. CASE \/ WriteText(p)
           \/ DetachFiles(p) /\ ~Answer(p)
           \/ DestroyRows(p)
  <2>1. PICK s \in {"detach", "precheck", "check", "destroyMessage"} :
          Goto(p, s) /\ req[p].phase \in {"writeText", "detach", "destroyRows"}
    BY <1>4 DEF WriteText, DetachFiles, DestroyRows
  <2>2. req'[p].phase = s /\ req'[p].checked = {}
    BY <2>1, GotoSlot DEF Ownership, Fits, Stages
  <2>. QED
    BY <1>4, <2>2 DEF WriteText, DetachFiles, DestroyRows
<1>5. CASE PrecheckFiles(p) /\ ~Answer(p)
  <2>1. /\ req[p].phase = "precheck" /\ UNCHANGED <<file, exposed, attached>>
        /\ \E f \in req[p].files : req' = [req EXCEPT ![p] = Checked(req[p], f, "detach")]
    BY <1>5 DEF PrecheckFiles
  <2>2. req'[p].phase \in {"detach", "precheck"}
    BY <2>1, CheckSlot DEF Stages
  <2>. QED  BY <2>1, <2>2
<1>. QED
  BY <1>1, <1>2, <1>3, <1>4, <1>5
  DEF Serve, PrecheckFiles, DetachFiles, DestroyMessage, DestroyRow, FailRequest

LEMMA StepExposure ==
  ASSUME TypeOK, Ownership, Exposure, NEW p \in Requests, Serve(p) \/ FailRequest(p)
  PROVE  Exposure'
<1>. USE DEF Exposure, NoDanglingAttachment, At
<1>0. /\ \A q \in Requests \ {p} : req'[q] = req[q]
      /\ \A q \in Requests \ {p} : ToAttach(q)' = ToAttach(q)
  BY OtherSlots DEF ToAttach
<1>1. CASE ~CheckFiles(p) /\ ~AttachFiles(p) /\ ~CountAttachments(p) /\ ~DestroyFile(p)
  BY <1>0, <1>1, QuietStep
<1>2. CASE CheckFiles(p) /\ ~Answer(p)
  <2>1. PICK f \in req[p].files :
          /\ req[p].phase = "check" /\ UNCHANGED <<attached, file>>
          /\ file[f].live
          /\ req' = [req EXCEPT ![p] = Checked(req[p], f, "attach")]
          /\ exposed' = exposed \cup {g \in {f} : Deleting(g)}
    BY <1>2 DEF CheckFiles, OwnedByUser
  <2>2. /\ req'[p].phase \in {"check", "attach"}
        /\ ToAttach(p)' \subseteq ToAttach(p) \cup {f}
    <3>1. /\ \/ /\ req'[p].phase = "attach"
                /\ req[p].files = req[p].checked \cup {f}
             \/ /\ req'[p].phase = "check"
                /\ req'[p].checked = req[p].checked \cup {f}
          /\ req'[p].files = req[p].files
      BY <2>1, CheckSlot DEF Stages
    <3>. QED  BY <2>1, <3>1 DEF ToAttach
  <2>3. Deleting(f) => f \in exposed'
    BY <2>1
  <2>. QED  BY <1>0, <2>1, <2>2, <2>3 DEF Deleting
<1>3. CASE CountAttachments(p) /\ ~Answer(p)
  <2>1. /\ req[p].phase = "countAttachments" /\ UNCHANGED <<attached, file>>
        /\ \A a \in attached : a.file \notin req[p].files
        /\ exposed' = exposed \cup {f \in req[p].files : \E q \in Requests : f \in ToAttach(q)}
        /\ Goto(p, "destroyFile")
    BY <1>3 DEF CountAttachments
  <2>2. req'[p].phase = "destroyFile" /\ req'[p].files = req[p].files
    BY <2>1, GotoSlot DEF Stages
  <2>3. ToAttach(p)' = {}
    BY <2>2 DEF ToAttach
  <2>. QED  BY <1>0, <2>1, <2>2, <2>3
<1>4. CASE (CheckFiles(p) \/ CountAttachments(p)) /\ Answer(p)
  <2>1. UNCHANGED <<attached, file>> /\ exposed \subseteq exposed'
    BY <1>4 DEF CheckFiles, CountAttachments
  <2>2. req'[p].phase = "done" /\ ToAttach(p)' = {}
    BY <1>4, AnswerSlot DEF ToAttach
  <2>. QED  BY <1>0, <2>1, <2>2
<1>5. CASE AttachFiles(p)
  <2>1. /\ req[p].phase = "attach" /\ UNCHANGED <<file, exposed>>
        /\ req'[p].phase = "done" /\ ToAttach(p)' = {}
    BY <1>5, AnswerSlot DEF AttachFiles, ToAttach
  <2>2. \A a \in attached' : a \in attached \/ a.file \in ToAttach(p)
    <3>1. req[p].files \subseteq Files
      BY <2>1, SlotAtStage DEF Stages
    <3>2. \A a \in attached' : a \in attached \/ a.file \in req[p].files
      BY <1>5 DEF AttachFiles
    <3>. QED  BY <2>1, <3>1, <3>2 DEF ToAttach
  <2>. QED  BY <1>0, <2>1, <2>2
<1>6. CASE DestroyFile(p)
  <2>1. PICK g \in req[p].files : file' = [file EXCEPT ![g].live = FALSE]
    BY <1>6 DEF DestroyFile
  <2>2. /\ req[p].phase = "destroyFile" /\ UNCHANGED <<attached, exposed>>
        /\ req'[p].phase = "done" /\ ToAttach(p)' = {}
    BY <1>6, AnswerSlot DEF DestroyFile, ToAttach
  <2>3. \A f \in Files : f # g => file'[f] = file[f]
    BY <2>1 DEF TypeOK
  <2>4. ASSUME NEW a \in attached'
        PROVE  file'[a.file].live \/ a.file \in exposed'
    <3>1. a.file \in Files
      BY <2>2, <2>4 DEF TypeOK, Attachment
    <3>. QED  BY <2>1, <2>2, <2>3, <2>4, <3>1
  <2>5. ASSUME NEW q \in Requests, NEW f \in ToAttach(q)'
        PROVE  file'[f].live \/ f \in exposed'
    <3>1. q # p /\ f \in ToAttach(q)
      BY <1>0, <2>2, <2>5
    <3>2. f \in Files
      BY <3>1 DEF ToAttach
    <3>. QED  BY <2>1, <2>2, <2>3, <2>5, <3>1, <3>2
  <2>. QED  BY <1>0, <2>2, <2>4, <2>5
<1>. QED
  BY <1>1, <1>2, <1>3, <1>4, <1>5, <1>6 DEF CheckFiles, CountAttachments

LEMMA InitExposure == Init => Exposure
<1>. SUFFICES ASSUME Init  PROVE Exposure
  OBVIOUS
<1>1. \A p \in Requests : req[p].phase = "new"
  BY DEF Init, New
<1>2. \A a \in attached : file[a.file].live
  BY DEF Init
<1>. QED  BY <1>1, <1>2 DEF Exposure, NoDanglingAttachment, At, ToAttach

-----------------------------------------------------------------------------
(* Messages that no two requests met on                                    *)

(* A step touches only the message its request works on, but for the       *)
(* INSERT of a new one.                                                    *)
LEMMA Untouched ==
  ASSUME TypeOK, Ownership, NEW p \in Requests, Serve(p) \/ FailRequest(p),
         NEW m \in Messages, ~WorksOn(p, m)
  PROVE  /\ RowsOf(m)' = RowsOf(m)
         /\ message'[m] = message[m] \/ (InsertMessage(p) /\ message[m].state = "none")
<1>1. req[p].phase \in Stages => m \notin req[p].msgs
  BY SlotAtStage DEF WorksOn
<1>2. req[p].phase = "destroyRow" => \A a \in req[p].row : a.msg \in req[p].msgs
  BY DEF Ownership, Fits, At
<1>3. \A a : a \in attached' /\ a.msg = m <=> a \in attached /\ a.msg = m
  <2>1. CASE DetachFiles(p) \/ DestroyRows(p)
    BY <1>1, <2>1 DEF DetachFiles, DestroyRows, At, Stages
  <2>2. CASE AttachFiles(p)
    BY <1>1, <2>2 DEF AttachFiles, At, Stages
  <2>3. CASE DestroyRow(p)
    BY <1>1, <1>2, <2>3 DEF DestroyRow, At, Stages
  <2>4. CASE UNCHANGED attached
    BY <2>4
  <2>. QED
    BY <2>1, <2>2, <2>3, <2>4
    DEF Serve, SendMessage, InsertMessage, CheckFiles, UpdateMessage, WriteText,
        PrecheckFiles, DeleteMessage, DestroyMessage, DeleteMessageFile, FindRow, DeleteFile,
        CountAttachments, DestroyFile, FailRequest
<1>4. RowsOf(m)' = RowsOf(m)
  <2>1. \A a : a \in RowsOf(m)' <=> a \in RowsOf(m)
    BY <1>3 DEF RowsOf
  <2>. QED  BY <2>1 DEF RowsOf
<1>5. message'[m] = message[m] \/ (InsertMessage(p) /\ message[m].state = "none")
  <2>1. CASE InsertMessage(p)
    BY <2>1 DEF InsertMessage, TypeOK
  <2>2. CASE WriteText(p) \/ DestroyMessage(p)
    <3>1. /\ m \notin req[p].msgs
          /\ \/ UNCHANGED message
             \/ \E n \in req[p].msgs : message' = [message EXCEPT ![n].text = req[p].text]
             \/ \E n \in req[p].msgs : message' = [message EXCEPT ![n].state = "deleted"]
      BY <1>1, <2>2 DEF WriteText, DestroyMessage, At, Stages
    <3>. QED  BY <3>1 DEF TypeOK
  <2>3. CASE UNCHANGED message
    BY <2>3
  <2>. QED
    BY <2>1, <2>2, <2>3
    DEF Serve, SendMessage, CheckFiles, AttachFiles, UpdateMessage, PrecheckFiles,
        DetachFiles, DeleteMessage, DestroyRows, DeleteMessageFile, FindRow, DestroyRow,
        DeleteFile, CountAttachments, DestroyFile, FailRequest
<1>. QED  BY <1>4, <1>5

(* Content of a message that p works on after its step, alone.             *)
LEMMA WorkedOn ==
  ASSUME NEW p \in Requests, NEW m \in Messages,
         \A q \in Requests \ {p} : ~WorksOn(q, m)',
         InHand(p, m)', message'[m].state = "live", WorksOn(p, m)'
  PROVE  Content(m)'
BY DEF Content

(* Content of a message that nobody works on after the step.               *)
LEMMA LeftAlone ==
  ASSUME NEW m \in Messages, \A q \in Requests : ~WorksOn(q, m)',
         message'[m].state = "live" => message'[m].text \/ RowsOf(m)' # {},
         message'[m].state = "deleted" => RowsOf(m)' = {}
  PROVE  Content(m)'
BY DEF Content

(* p worked on m, alone, and its step did not mar m.                       *)
LEMMA WorkContent ==
  ASSUME TypeOK, Ownership, NEW p \in Requests, Serve(p) \/ FailRequest(p),
         NEW m \in Messages, WorksOn(p, m), Content(m), m \notin marred'
  PROVE  Content(m)'
<1>0. \A q \in Requests \ {p} : req'[q] = req[q]
  BY OtherSlots
<1>1. /\ req[p].phase \in Stages /\ req[p] \in Pending
      /\ req[p].text \in BOOLEAN /\ req[p].files \subseteq Files
  BY SlotAtStage DEF WorksOn
<1>2. req[p].phase \in OnMessage /\ req[p].msgs = {m} /\ message[m].state # "none"
  BY <1>1 DEF Ownership, Fits, WorksOn
<1>3. message[m] \in Message /\ message[m].state = "live"
  BY <1>2 DEF TypeOK, Message, Content
<1>4. \A q \in Requests \ {p} : ~WorksOn(q, m)'
  BY <1>0 DEF Content, WorksOn, Busy
<1>5. InHand(p, m)
  BY DEF Content
<1>6. ASSUME Answer(p)  PROVE \A q \in Requests : ~WorksOn(q, m)'
  BY <1>4, <1>6, AnswerSlot DEF WorksOn, Busy
<1>7. ASSUME NEW s \in OnMessage, Goto(p, s)
      PROVE  /\ WorksOn(p, m)'
             /\ req'[p].phase = s /\ req'[p].text = req[p].text
             /\ req'[p].files = req[p].files
  <2>1. /\ req'[p].phase = s /\ req'[p].msgs = {m}
        /\ req'[p].text = req[p].text /\ req'[p].files = req[p].files
    BY <1>1, <1>2, <1>7, GotoSlot DEF OnMessage
  <2>. QED  BY <2>1 DEF WorksOn, Busy, OnMessage, Stages
<1>a. CASE CheckFiles(p) \/ PrecheckFiles(p)
  <2>1. PICK f \in req[p].files, s \in {"attach", "detach"} :
          /\ req' = [req EXCEPT ![p] = Checked(req[p], f, s)]
          /\ req[p].phase = IF s = "attach" THEN "check" ELSE "precheck"
          /\ UNCHANGED <<message, attached>>
    BY <1>2, <1>a DEF CheckFiles, PrecheckFiles, At
  <2>2. /\ req'[p].phase \in {s, req[p].phase}
        /\ req'[p].msgs = {m} /\ req'[p].text = req[p].text
    BY <1>2, <2>1, CheckSlot DEF Stages
  <2>3. s = "detach" => message[m].text = req[p].text
    BY <1>5, <2>1 DEF InHand
  <2>4. WorksOn(p, m)' /\ InHand(p, m)'
    BY <2>1, <2>2, <2>3 DEF WorksOn, Busy, InHand, At
  <2>. QED  BY <1>3, <1>4, <2>1, <2>4, WorkedOn
<1>b. CASE AttachFiles(p)
  <2>1. /\ Answer(p) /\ UNCHANGED message /\ req[p].files # {}
        /\ attached' = attached \cup [msg : {m}, file : req[p].files, by : {p}]
    BY <1>2, <1>b DEF AttachFiles, Ownership, Fits, At
  <2>2. PICK f \in req[p].files : TRUE
    BY <2>1
  <2>3. PICK a : a = [msg |-> m, file |-> f, by |-> p]
    OBVIOUS
  <2>4. a \in attached' /\ a.msg = m
    BY <2>1, <2>2, <2>3
  <2>. QED  BY <1>3, <1>6, <2>1, <2>4, LeftAlone DEF RowsOf
<1>c. CASE WriteText(p)
  <2>1. PICK s \in {"detach", "precheck"} : Goto(p, s)
    BY <1>c DEF WriteText
  <2>2. /\ attached' = attached /\ message'[m].state = "live"
        /\ message'[m].text = req[p].text
    <3>1. \/ message' = [message EXCEPT ![m].text = req[p].text]
          \/ req[p].text = req[p].had /\ UNCHANGED message
      BY <1>2, <1>c DEF WriteText
    <3>2. req[p].had = message[m].text
      BY <1>5, <1>c DEF InHand, WriteText
    <3>. QED  BY <1>3, <1>c, <3>1, <3>2 DEF WriteText, TypeOK, Message
  <2>3. WorksOn(p, m)' /\ req'[p].phase = s /\ req'[p].text = req[p].text
    BY <2>1, <1>7 DEF OnMessage, Stages
  <2>. QED  BY <1>4, <2>2, <2>3, WorkedOn DEF InHand, At
<1>e. CASE DetachFiles(p)
  <2>1. /\ UNCHANGED message /\ message[m].text = req[p].text
        /\ ValidPayload(req[p].text, req[p].files)
    BY <1>5, <1>e DEF DetachFiles, InHand, At, Ownership, Fits
  <2>2. CASE req[p].files = {}
    BY <1>3, <1>6, <1>e, <2>1, <2>2, LeftAlone DEF DetachFiles, ValidPayload
  <2>3. CASE req[p].files # {}
    <3>1. WorksOn(p, m)' /\ req'[p].phase = "check"
      BY <1>7, <1>e, <2>3 DEF DetachFiles, OnMessage, Stages
    <3>. QED  BY <1>3, <1>4, <2>1, <3>1, WorkedOn DEF InHand, At
  <2>. QED  BY <2>2, <2>3
<1>f. CASE DestroyRows(p)
  <2>1. WorksOn(p, m)' /\ req'[p].phase = "destroyMessage"
    BY <1>7, <1>f DEF DestroyRows, OnMessage, Stages
  <2>2. UNCHANGED message /\ RowsOf(m)' = {}
    BY <1>2, <1>f DEF DestroyRows, RowsOf
  <2>. QED  BY <1>3, <1>4, <2>1, <2>2, WorkedOn DEF InHand, At
<1>g. CASE DestroyMessage(p)
  <2>1. RowsOf(m)' = {} /\ message'[m].state = "deleted" /\ Answer(p)
    BY <1>2, <1>3, <1>5, <1>g DEF DestroyMessage, InHand, At, RowsOf, TypeOK, Message
  <2>. QED  BY <1>6, <2>1, LeftAlone
<1>h. CASE FindRow(p)
  <2>1. /\ UNCHANGED <<message, attached>> /\ At(p, "findRow")
        /\ message[m].text \/ RowsOf(m) # {}
    BY <1>5, <1>h DEF FindRow, InHand
  <2>2. CASE Answer(p)
    BY <1>3, <1>6, <2>1, <2>2, LeftAlone DEF RowsOf
  <2>3. CASE ~Answer(p)
    <3>1. PICK a \in attached :
            /\ ~req[p].last
            /\ req' = [req EXCEPT ![p].phase = "destroyRow", ![p].row = {a}]
      BY <1>h, <2>3 DEF FindRow
    <3>2. req'[p].phase = "destroyRow" /\ req'[p].row = {a} /\ req'[p].msgs = {m}
      BY <1>2, <2>1, <3>1, FindSlot
    <3>3. message[m].text \/ \E b, c \in RowsOf(m) : b # c
      BY <1>5, <2>1, <3>1 DEF InHand
    <3>4. WorksOn(p, m)'
      BY <3>2 DEF WorksOn, Busy
    <3>5. message'[m].text \/ RowsOf(m)' \ req'[p].row # {}
      BY <2>1, <3>2, <3>3 DEF RowsOf
    <3>6. InHand(p, m)'
      BY <3>2, <3>5 DEF InHand, At
    <3>. QED  BY <1>3, <1>4, <2>1, <3>4, <3>6, WorkedOn
  <2>. QED  BY <2>2, <2>3
<1>i. CASE DestroyRow(p)
  <2>1. /\ Answer(p) /\ UNCHANGED message
        /\ RowsOf(m)' = RowsOf(m) \ req[p].row
        /\ message[m].text \/ RowsOf(m) \ req[p].row # {}
    BY <1>5, <1>i DEF DestroyRow, InHand, RowsOf
  <2>. QED  BY <1>3, <1>6, <2>1, LeftAlone
<1>j. ~FailRequest(p)
  BY <1>2 DEF FailRequest
<1>. QED
  <2>1. req[p].phase \notin {"new", "insert", "countAttachments", "destroyFile"}
    BY <1>2 DEF OnMessage, Stages
  <2>2. /\ ~SendMessage(p) /\ ~InsertMessage(p) /\ ~UpdateMessage(p) /\ ~DeleteMessage(p)
        /\ ~DeleteMessageFile(p) /\ ~DeleteFile(p) /\ ~CountAttachments(p) /\ ~DestroyFile(p)
    BY <2>1
    DEF SendMessage, InsertMessage, UpdateMessage, DeleteMessage, DeleteMessageFile,
        DeleteFile, CountAttachments, DestroyFile, At
  <2>. QED
    BY <2>2, <1>a, <1>b, <1>c, <1>e, <1>f, <1>g, <1>h, <1>i, <1>j DEF Serve

(* p did not work on m before its step.                                    *)
LEMMA OtherContent ==
  ASSUME TypeOK, Ownership, NEW p \in Requests, Serve(p) \/ FailRequest(p),
         NEW m \in Messages, ~WorksOn(p, m), Content(m), m \notin marred'
  PROVE  Content(m)'
<1>0. \A q \in Requests \ {p} : req'[q] = req[q]
  BY OtherSlots
<1>1. RowsOf(m)' = RowsOf(m)
  BY Untouched
<1>2. CASE InsertMessage(p)
  <2>1. PICK n \in Messages :
          /\ message[n].state = "none"
          /\ message' = [message EXCEPT ![n] =
               [state |-> "live", sender |-> req[p].user, text |-> req[p].text]]
          /\ IF req[p].files = {}
               THEN Answer(p)
               ELSE req' = [req EXCEPT ![p].phase = "check", ![p].msgs = {n}]
    BY <1>2 DEF InsertMessage
  <2>2. At(p, "insert") /\ (req[p].files = {} => req[p].text)
    BY <1>2 DEF InsertMessage, Ownership, Fits, ValidPayload, At
  <2>3. CASE m = n
    <3>1. message'[m].state = "live" /\ message'[m].text = req[p].text
      BY <2>1, <2>3 DEF TypeOK
    <3>2. \A q \in Requests \ {p} : ~WorksOn(q, m)
      <4>1. SUFFICES ASSUME NEW q \in Requests, WorksOn(q, m)
                     PROVE  FALSE
        OBVIOUS
      <4>2. req[q].phase \in Stages
        BY <4>1, SlotAtStage DEF WorksOn
      <4>. QED  BY <2>1, <2>3, <4>1, <4>2 DEF Ownership, Fits, WorksOn
    <3>3. \A q \in Requests \ {p} : ~WorksOn(q, m)'
      BY <1>0, <3>2 DEF WorksOn, Busy
    <3>4. CASE req[p].files = {}
      <4>1. \A q \in Requests : ~WorksOn(q, m)'
        BY <2>1, <3>3, <3>4, AnswerSlot DEF WorksOn, Busy
      <4>. QED  BY <2>2, <3>1, <3>4, <4>1, LeftAlone
    <3>5. CASE req[p].files # {}
      <4>1. req'[p].phase = "check" /\ req'[p].msgs = {m}
        BY <2>1, <2>2, <2>3, <3>5, InsertSlot
      <4>2. WorksOn(p, m)' /\ InHand(p, m)'
        BY <4>1 DEF WorksOn, Busy, InHand, At
      <4>. QED  BY <3>1, <3>3, <4>2, WorkedOn
    <3>. QED  BY <3>4, <3>5
  <2>4. CASE m # n
    <3>1. message'[m] = message[m]
      BY <2>1, <2>4 DEF TypeOK
    <3>2. ~WorksOn(p, m)'
      <4>1. CASE req[p].files = {}
        BY <2>1, <4>1, AnswerSlot DEF WorksOn, Busy
      <4>2. CASE req[p].files # {}
        <5>1. req'[p].msgs = {n}
          BY <2>1, <2>2, <4>2, InsertSlot
        <5>. QED  BY <2>4, <5>1 DEF WorksOn
      <4>. QED  BY <4>1, <4>2
    <3>. QED  BY <1>0, <1>1, <3>1, <3>2 DEF Content, InHand, WorksOn, Busy, At
  <2>. QED  BY <2>3, <2>4
<1>3. CASE ~InsertMessage(p)
  <2>1. message'[m] = message[m]
    BY <1>3, Untouched
  <2>2. CASE ~WorksOn(p, m)'
    BY <1>0, <1>1, <2>1, <2>2 DEF Content, InHand, WorksOn, Busy, At
  <2>3. CASE WorksOn(p, m)' /\ (UpdateMessage(p) \/ DeleteMessage(p) \/ DeleteMessageFile(p))
    <3>1. /\ MayEdit(req'[p].user, m)
          /\ marred' = marred \cup Contended(p, {m})
          /\ req'[p].phase \in {"writeText", "destroyRows", "findRow"}
          /\ req'[p].phase = "writeText" => req'[p].had = message[m].text
          /\ req'[p].phase = "findRow" =>
               req'[p].last \/ message[m].text \/ \E a, b \in RowsOf(m) : a # b
      <4>1. CASE UpdateMessage(p)
        BY <2>3, <4>1, UpdateStart DEF WorksOn
      <4>2. CASE DeleteMessage(p)
        BY <2>3, <4>2, DeleteStart DEF WorksOn
      <4>3. CASE DeleteMessageFile(p)
        <5>1. PICK n \in Messages :
                /\ req'[p].msgs = {n} /\ MayEdit(req'[p].user, n)
                /\ req'[p].last \/ message[n].text \/ \E a, b \in RowsOf(n) : a # b
                /\ marred' = marred \cup Contended(p, {n})
          BY <4>3, DeleteMessageFileStart
        <5>2. n = m
          BY <2>3, <5>1 DEF WorksOn
        <5>. QED  BY <4>3, <5>1, <5>2, DeleteMessageFileStart
      <4>. QED  BY <2>3, <4>1, <4>2, <4>3
    <3>2. \A q \in Requests \ {p} : ~WorksOn(q, m)
      BY <3>1 DEF Contended
    <3>3. \A q \in Requests \ {p} : ~WorksOn(q, m)'
      BY <1>0, <3>2 DEF WorksOn, Busy
    <3>4. message[m].state = "live" /\ (message[m].text \/ RowsOf(m) # {})
      <4>1. \A q \in Requests : ~WorksOn(q, m)
        BY <3>2
      <4>. QED  BY <3>1, <4>1 DEF Content, MayEdit
    <3>5. InHand(p, m)'
      BY <1>1, <2>1, <3>1, <3>4 DEF InHand, At
    <3>. QED  BY <2>1, <2>3, <3>3, <3>4, <3>5, WorkedOn
  <2>4. CASE WorksOn(p, m)' /\ ~(UpdateMessage(p) \/ DeleteMessage(p) \/ DeleteMessageFile(p))
    <3>1. CASE SendMessage(p) \/ DeleteFile(p)
      BY <2>4, <3>1, SendStart, DeleteFileStart DEF WorksOn
    <3>2. CASE Answer(p)
      BY <2>4, <3>2, AnswerSlot DEF WorksOn, Busy
    <3>3. CASE \E s \in Stages : Goto(p, s) /\ req[p].phase \in Stages
      <4>1. req'[p].msgs = req[p].msgs /\ req[p].phase \in Stages
        BY <3>3, GotoSlot
      <4>. QED  BY <2>4, <4>1, SlotAtStage DEF WorksOn
    <3>4. CASE FindRow(p) /\ ~Answer(p)
      <4>1. req'[p].msgs = req[p].msgs /\ req[p].phase = "findRow"
        BY <3>4, FindSlot DEF FindRow, At
      <4>. QED  BY <2>4, <4>1 DEF WorksOn, Busy
    <3>5. CASE (CheckFiles(p) \/ PrecheckFiles(p)) /\ ~Answer(p)
      <4>1. req[p].phase \in Stages /\ {"attach", "detach"} \subseteq Stages
        BY <3>5 DEF CheckFiles, PrecheckFiles, At, Stages
      <4>2. req'[p].msgs = req[p].msgs
        BY <3>5, <4>1, CheckSlot DEF CheckFiles, PrecheckFiles
      <4>. QED  BY <2>4, <4>1, <4>2, SlotAtStage DEF WorksOn
    <3>. QED
      BY <1>3, <2>4, <3>1, <3>2, <3>3, <3>4, <3>5
      DEF Serve, AttachFiles, WriteText, DetachFiles, DestroyRows,
          DestroyMessage, DestroyRow, CountAttachments, DestroyFile, FailRequest, At, Stages
  <2>. QED  BY <2>2, <2>3, <2>4
<1>. QED  BY <1>2, <1>3

LEMMA StepContents ==
  ASSUME TypeOK, Ownership, Contents, NEW p \in Requests, Serve(p) \/ FailRequest(p)
  PROVE  Contents'
<1>1. marred \subseteq marred'
  BY DEF Serve, SendMessage, InsertMessage, CheckFiles, AttachFiles, UpdateMessage, WriteText,
         PrecheckFiles, DetachFiles, DeleteMessage, DestroyRows, DestroyMessage,
         DeleteMessageFile, FindRow, DestroyRow, DeleteFile, CountAttachments, DestroyFile,
         FailRequest
<1>2. ASSUME NEW m \in Messages, m \notin marred'
      PROVE  Content(m)'
  <2>1. Content(m)
    BY <1>1, <1>2 DEF Contents
  <2>. QED  BY <1>2, <2>1, WorkContent, OtherContent
<1>. QED  BY <1>2 DEF Contents

LEMMA InitContents == Init => Contents
<1>. SUFFICES ASSUME Init, NEW m \in Messages  PROVE Content(m)
  BY DEF Contents
<1>1. \A p \in Requests : ~WorksOn(p, m)
  BY DEF Init, New, WorksOn, Busy
<1>. QED  BY <1>1 DEF Content, Init

-----------------------------------------------------------------------------
LEMMA Inductive == Spec => []IInv
<1>1. Init => IInv
  BY InitTypes, InitOwnership, InitExposure, InitContents DEF IInv
<1>2. IInv /\ [Next]_vars => IInv'
  <2>1. ASSUME IInv, NEW p \in Requests, Serve(p) \/ FailRequest(p)
        PROVE  IInv'
    BY <2>1, StepTypes, StepOwnership, StepExposure, StepContents DEF IInv
  <2>2. ASSUME IInv, UNCHANGED vars
        PROVE  IInv'
    BY <2>2
    DEF vars, IInv, TypeOK, Ownership, OnlyOwnFiles, Exposure, NoDanglingAttachment, Contents,
        Content, InHand, Fits, RowsOf, WorksOn, Busy, At, ToAttach
  <2>. QED  BY <2>1, <2>2 DEF Next
<1>. QED  BY <1>1, <1>2, PTL DEF Spec

(* However the statements of sending, editing and deleting interleave and  *)
(* fail, a file is only ever attached to messages of its owner.            *)
THEOREM OwnFilesOnly == Spec => []OnlyOwnFiles
<1>1. IInv => OnlyOwnFiles
  BY DEF IInv, Ownership
<1>. QED  BY <1>1, Inductive, PTL

(* A file goes away under an attachment only when it was being attached    *)
(* between the count of its attachments and the DELETE.                    *)
THEOREM DanglingOnlyIfExposed == Spec => []NoDanglingAttachment
<1>1. IInv => NoDanglingAttachment
  BY DEF IInv, Exposure
<1>. QED  BY <1>1, Inductive, PTL

(* A message that no two requests met on, and on which none failed or was  *)
(* rejected half way, has a text or a file whenever nobody works on it.    *)
THEOREM EmptyOnlyIfMarred == Spec => []EmptyOnlyWhenMarred
<1>1. IInv => EmptyOnlyWhenMarred
  BY DEF IInv, Contents, Content, EmptyOnlyWhenMarred
<1>. QED  BY <1>1, Inductive, PTL

(* Nor does such a message, once deleted, hold a file back.                *)
THEOREM DeletedLeavesNoAttachment == Spec => []DeletedHasNoAttachment
<1>1. IInv => DeletedHasNoAttachment
  BY DEF IInv, Contents, Content, DeletedHasNoAttachment
<1>. QED  BY <1>1, Inductive, PTL

=============================================================================
