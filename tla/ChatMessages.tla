---------------------------- MODULE ChatMessages ----------------------------
(***************************************************************************)
(* The messages of a chat room and the files attached to them:             *)
(* ChatService.sendMessage, updateMessage, deleteMessage and               *)
(* deleteMessageFile over chat_messages and chat_message_files, with       *)
(* gateways/files deleting the stored files meanwhile.                     *)
(*                                                                         *)
(* Neither service opens a transaction: as in ChatRooms, every statement   *)
(* is an action and a request is a slot that knows its next statement. A   *)
(* slot serves one request. assertRoomAccess lets a request begin or       *)
(* rejects it before anything is written; who is in the room is ChatRooms' *)
(* matter, so here any request may begin. Deletion is soft: a row is gone  *)
(* for every query, and nothing brings it back.                            *)
(***************************************************************************)

CONSTANTS
  Users,      \* users of the application
  Messages,   \* uids of chat messages, used and unused
  OldMessages,\* messages sent before the behaviour begins
  Files,      \* uids of stored files
  Requests,   \* requests that may come
  Before      \* marks the attachments of old messages

ASSUME MessagesAssumption ==
  /\ OldMessages \subseteq Messages
  /\ Before \notin Requests

VARIABLES
  message,    \* message[m]: the row of chat_messages
  attached,   \* rows of chat_message_files that are not deleted
  file,       \* file[f]: the row of stored_files
  req,        \* req[p]: the request in slot p
  marred,     \* history: messages on which a request failed or met another
  exposed     \* history: files attached while they were being deleted

vars == <<message, attached, file, req, marred, exposed>>

(* A row of chat_message_files, by the request that inserted it.           *)
Attachment == [msg : Messages, file : Files, by : Requests \cup {Before}]

RowsOf(m) == {a \in attached : a.msg = m}

Message == [state : {"none", "live", "deleted"}, sender : Users, text : BOOLEAN]

File == [owner : Users, live : BOOLEAN]

Stages ==
  {"insert", "writeText", "precheck", "detach", "check", "attach",
   "destroyRows", "destroyMessage", "findRow", "destroyRow",
   "countAttachments", "destroyFile"}

New  == [phase |-> "new"]
Done == [phase |-> "done"]

(* text, files: the payload; had, last: the message as the request read it *)
(* (it had a text; it had at most one attachment); row: what findOne found;*)
(* checked: the files that the check under way has found so far.           *)
Pending ==
  [phase : Stages, user : Users, msgs : SUBSET Messages, text : BOOLEAN,
   files : SUBSET Files, had : BOOLEAN, last : BOOLEAN, row : SUBSET Attachment,
   checked : SUBSET Files]

Pend(phase, u, ms, text, files) ==
  [phase |-> phase, user |-> u, msgs |-> ms, text |-> text, files |-> files,
   had |-> FALSE, last |-> FALSE, row |-> {}, checked |-> {}]

At(p, phase) == req[p].phase = phase

Busy(p) == req[p].phase \notin {"new", "done"}

WorksOn(p, m) == Busy(p) /\ m \in req[p].msgs

Goto(p, phase) == req' = [req EXCEPT ![p].phase = phase]

Answer(p) == req' = [req EXCEPT ![p] = Done]

(* The messages of p that another request works on too.                    *)
Contended(p, ms) == {m \in ms : \E q \in Requests \ {p} : WorksOn(q, m)}

(* An old message has a text or a file of its sender.                      *)
Init ==
  /\ file \in [Files -> [owner : Users, live : {TRUE}]]
  /\ message \in [Messages -> Message]
  /\ \A m \in Messages :
       IF m \in OldMessages
         THEN message[m].state = "live"
         ELSE /\ message[m].state = "none" /\ ~message[m].text
              /\ message[m].sender = CHOOSE u \in Users : TRUE
  /\ attached \in SUBSET [msg : OldMessages, file : Files, by : {Before}]
  /\ \A a \in attached : file[a.file].owner = message[a.msg].sender
  /\ \A m \in OldMessages : message[m].text \/ RowsOf(m) # {}
  /\ req = [p \in Requests |-> New]
  /\ marred = {}
  /\ exposed = {}

(* assertValidMessagePayload                                               *)
ValidPayload(text, files) == text \/ files # {}

(* findMessageForUserAction                                                *)
MayEdit(u, m) == message[m].state = "live" /\ message[m].sender = u

-----------------------------------------------------------------------------
(* sendMessage: INSERT the message, check that its files exist and belong  *)
(* to the sender, INSERT the attachments.                                  *)

SendMessage(p) ==
  /\ At(p, "new")
  /\ \E u \in Users, text \in BOOLEAN, files \in SUBSET Files :
       /\ ValidPayload(text, files)
       /\ req' = [req EXCEPT ![p] = Pend("insert", u, {}, text, files)]
  /\ UNCHANGED <<message, attached, file, marred, exposed>>

InsertMessage(p) ==
  /\ At(p, "insert")
  /\ \E m \in Messages :
       /\ message[m].state = "none"
       /\ message' = [message EXCEPT ![m] =
            [state |-> "live", sender |-> req[p].user, text |-> req[p].text]]
       /\ IF req[p].files = {}
            THEN Answer(p)
            ELSE req' = [req EXCEPT ![p].phase = "check", ![p].msgs = {m}]
  /\ UNCHANGED <<attached, file, marred, exposed>>

(* assertMessageFilesOwnedByUser: one SELECT for each file, all at once, so *)
(* that they end in any order; the first that finds nothing rejects the    *)
(* request, which leaves what it has written so far. The others write      *)
(* nothing.                                                                *)
OwnedByUser(f, u) == file[f].live /\ file[f].owner = u

Checked(r, f, next) ==
  IF r.files = r.checked \cup {f}
    THEN [r EXCEPT !.phase = next, !.checked = {}]
    ELSE [r EXCEPT !.checked = @ \cup {f}]

(* The files that p attaches unless another file rejects it.               *)
ToAttach(p) ==
  {f \in Files : \/ At(p, "attach") /\ f \in req[p].files
                 \/ At(p, "check") /\ f \in req[p].checked}

Deleting(f) == \E q \in Requests : At(q, "destroyFile") /\ f \in req[q].files

(* Defect: any file that exists may be attached.                           *)
CheckFilesExist(p) ==
  /\ At(p, "check")
  /\ \E f \in req[p].files \ req[p].checked :
       IF file[f].live
         THEN /\ req' = [req EXCEPT ![p] = Checked(req[p], f, "attach")]
              /\ exposed' = exposed \cup {g \in {f} : Deleting(g)}
              /\ UNCHANGED marred
         ELSE /\ Answer(p)
              /\ marred' = marred \cup req[p].msgs
              /\ UNCHANGED exposed
  /\ UNCHANGED <<message, attached, file>>

CheckFiles(p) ==
  /\ At(p, "check")
  /\ \E f \in req[p].files \ req[p].checked :
       IF OwnedByUser(f, req[p].user)
         THEN /\ req' = [req EXCEPT ![p] = Checked(req[p], f, "attach")]
              /\ exposed' = exposed \cup {g \in {f} : Deleting(g)}
              /\ UNCHANGED marred
         ELSE /\ Answer(p)
              /\ marred' = marred \cup req[p].msgs
              /\ UNCHANGED exposed
  /\ UNCHANGED <<message, attached, file>>

AttachFiles(p) ==
  /\ At(p, "attach")
  /\ attached' = attached \cup [msg : req[p].msgs, file : req[p].files, by : {p}]
  /\ Answer(p)
  /\ UNCHANGED <<message, file, marred, exposed>>

-----------------------------------------------------------------------------
(* updateMessage: write the text, check the files, delete the attachments, *)
(* check the files again, INSERT the new attachments.                      *)

UpdateMessage(p) ==
  /\ At(p, "new")
  /\ \E u \in Users, m \in Messages, text \in BOOLEAN, files \in SUBSET Files :
       /\ MayEdit(u, m)
       /\ ValidPayload(text, files)
       /\ req' = [req EXCEPT ![p] =
            [Pend("writeText", u, {m}, text, files) EXCEPT !.had = message[m].text]]
       /\ marred' = marred \cup Contended(p, {m})
  /\ UNCHANGED <<message, attached, file, exposed>>

(* Nothing is written when the text is the one that was read; two texts    *)
(* that are not empty may be equal or not.                                 *)
WriteText(p) ==
  /\ At(p, "writeText")
  /\ \/ /\ req[p].text \/ req[p].had
        /\ \E m \in req[p].msgs :
             message' = [message EXCEPT ![m].text = req[p].text]
     \/ /\ req[p].text = req[p].had
        /\ UNCHANGED message
  /\ Goto(p, IF req[p].files = {} THEN "detach" ELSE "precheck")
  /\ UNCHANGED <<attached, file, marred, exposed>>

PrecheckFiles(p) ==
  /\ At(p, "precheck")
  /\ \E f \in req[p].files \ req[p].checked :
       IF OwnedByUser(f, req[p].user)
         THEN /\ req' = [req EXCEPT ![p] = Checked(req[p], f, "detach")]
              /\ UNCHANGED marred
         ELSE /\ Answer(p)
              /\ marred' = marred \cup req[p].msgs
  /\ UNCHANGED <<message, attached, file, exposed>>

DetachFiles(p) ==
  /\ At(p, "detach")
  /\ attached' = {a \in attached : a.msg \notin req[p].msgs}
  /\ IF req[p].files = {} THEN Answer(p) ELSE Goto(p, "check")
  /\ UNCHANGED <<message, file, marred, exposed>>

-----------------------------------------------------------------------------
(* deleteMessage: delete the attachments, then the message.                *)

DeleteMessage(p) ==
  /\ At(p, "new")
  /\ \E u \in Users, m \in Messages :
       /\ MayEdit(u, m)
       /\ req' = [req EXCEPT ![p] = Pend("destroyRows", u, {m}, FALSE, {})]
       /\ marred' = marred \cup Contended(p, {m})
  /\ UNCHANGED <<message, attached, file, exposed>>

(* Defect: one row is deleted, as findOne and destroy would.               *)
DestroyOneRow(p) ==
  /\ At(p, "destroyRows")
  /\ \/ \E a \in attached : a.msg \in req[p].msgs /\ attached' = attached \ {a}
     \/ (\A a \in attached : a.msg \notin req[p].msgs) /\ UNCHANGED attached
  /\ Goto(p, "destroyMessage")
  /\ UNCHANGED <<message, file, marred, exposed>>

DestroyRows(p) ==
  /\ At(p, "destroyRows")
  /\ attached' = {a \in attached : a.msg \notin req[p].msgs}
  /\ Goto(p, "destroyMessage")
  /\ UNCHANGED <<message, file, marred, exposed>>

DestroyMessage(p) ==
  /\ At(p, "destroyMessage")
  /\ \E m \in req[p].msgs : message' = [message EXCEPT ![m].state = "deleted"]
  /\ Answer(p)
  /\ UNCHANGED <<attached, file, marred, exposed>>

-----------------------------------------------------------------------------
(* deleteMessageFile: read the message with its attachments, find the one  *)
(* row, refuse to take the last content of the message, delete the row.    *)

(* Defect: off by one, `files.length < 1'.                                 *)
DeleteMessageFileOffByOne(p) ==
  /\ At(p, "new")
  /\ \E u \in Users, m \in Messages, f \in Files :
       /\ MayEdit(u, m)
       /\ req' = [req EXCEPT ![p] =
            [Pend("findRow", u, {m}, FALSE, {f}) EXCEPT
               !.last = ~message[m].text /\ RowsOf(m) = {}]]
       /\ marred' = marred \cup Contended(p, {m})
  /\ UNCHANGED <<message, attached, file, exposed>>

(* An attachment whose stored file is deleted is still a row of the        *)
(* message: the include of storedFile is a LEFT JOIN.                      *)
DeleteMessageFile(p) ==
  /\ At(p, "new")
  /\ \E u \in Users, m \in Messages, f \in Files :
       /\ MayEdit(u, m)
       /\ req' = [req EXCEPT ![p] =
            [Pend("findRow", u, {m}, FALSE, {f}) EXCEPT
               !.last = ~message[m].text
                        /\ \A a, b \in RowsOf(m) : a = b]]
       /\ marred' = marred \cup Contended(p, {m})
  /\ UNCHANGED <<message, attached, file, exposed>>

(* Not found, or the last content: the request is rejected.                *)
FindRow(p) ==
  /\ At(p, "findRow")
  /\ \/ \E a \in attached :
          /\ ~req[p].last
          /\ a.msg \in req[p].msgs /\ a.file \in req[p].files
          /\ req' = [req EXCEPT ![p].phase = "destroyRow", ![p].row = {a}]
     \/ /\ \/ req[p].last
           \/ \A a \in attached :
                a.msg \notin req[p].msgs \/ a.file \notin req[p].files
        /\ Answer(p)
  /\ UNCHANGED <<message, attached, file, marred, exposed>>

DestroyRow(p) ==
  /\ At(p, "destroyRow")
  /\ attached' = attached \ req[p].row
  /\ Answer(p)
  /\ UNCHANGED <<message, file, marred, exposed>>

-----------------------------------------------------------------------------
(* FileStorageService.delete of gateways/files, by the file's owner or a   *)
(* superadministrator.                                                     *)

DeleteFile(p) ==
  /\ At(p, "new")
  /\ \E u \in Users, f \in Files :
       /\ file[f].live
       /\ req' = [req EXCEPT ![p] = Pend("countAttachments", u, {}, FALSE, {f})]
  /\ UNCHANGED <<message, attached, file, marred, exposed>>

(* Defect: the attachments are not counted.                                *)
CountNoAttachments(p) ==
  /\ At(p, "countAttachments")
  /\ Goto(p, "destroyFile")
  /\ exposed' = exposed \cup {f \in req[p].files : \E q \in Requests : f \in ToAttach(q)}
  /\ UNCHANGED <<message, attached, file, marred>>

CountAttachments(p) ==
  /\ At(p, "countAttachments")
  /\ IF \E a \in attached : a.file \in req[p].files
       THEN Answer(p) /\ UNCHANGED exposed
       ELSE /\ Goto(p, "destroyFile")
            /\ exposed' = exposed \cup {f \in req[p].files :
                                        \E q \in Requests : f \in ToAttach(q)}
  /\ UNCHANGED <<message, attached, file, marred>>

DestroyFile(p) ==
  /\ At(p, "destroyFile")
  /\ \E f \in req[p].files : file' = [file EXCEPT ![f].live = FALSE]
  /\ Answer(p)
  /\ UNCHANGED <<message, attached, marred, exposed>>

-----------------------------------------------------------------------------
(* A statement fails, or the worker dies.                                  *)
FailRequest(p) ==
  /\ Busy(p)
  /\ Answer(p)
  /\ marred' = marred \cup req[p].msgs
  /\ UNCHANGED <<message, attached, file, exposed>>

Serve(p) ==
  \/ SendMessage(p)
  \/ InsertMessage(p)
  \/ CheckFiles(p)
  \/ AttachFiles(p)
  \/ UpdateMessage(p)
  \/ WriteText(p)
  \/ PrecheckFiles(p)
  \/ DetachFiles(p)
  \/ DeleteMessage(p)
  \/ DestroyRows(p)
  \/ DestroyMessage(p)
  \/ DeleteMessageFile(p)
  \/ FindRow(p)
  \/ DestroyRow(p)
  \/ DeleteFile(p)
  \/ CountAttachments(p)
  \/ DestroyFile(p)

Next == \E p \in Requests : Serve(p) \/ FailRequest(p)

Spec == Init /\ [][Next]_vars

(* The same with no failing statement and no dying worker.                 *)
SoundSpec == Init /\ [][\E p \in Requests : Serve(p)]_vars

-----------------------------------------------------------------------------
(* Properties                                                              *)

TypeOK ==
  /\ message \in [Messages -> Message]
  /\ attached \subseteq Attachment
  /\ file \in [Files -> File]
  /\ req \in [Requests -> {New, Done} \cup Pending]
  /\ marred \subseteq Messages
  /\ exposed \subseteq Files

(* Whatever overlaps, nobody attaches a file of somebody else.             *)
OnlyOwnFiles ==
  \A a \in attached : file[a.file].owner = message[a.msg].sender

(* A file is deleted under an attachment only if the SELECT that found it   *)
(* for this attachment came after the count and before the DELETE, or the  *)
(* count between that SELECT and the INSERT: both then saw nothing wrong.  *)
NoDanglingAttachment ==
  \A a \in attached : file[a.file].live \/ a.file \in exposed

(* Without failures, rejections or overlapping requests of its sender, a   *)
(* message always keeps a text or a file.                                  *)
EmptyOnlyWhenMarred ==
  \A m \in Messages :
    (message[m].state = "live" /\ ~message[m].text /\ RowsOf(m) = {})
      => m \in marred \/ \E p \in Requests : WorksOn(p, m)

(* Likewise, a deleted message leaves no attachment to hold a file.        *)
DeletedHasNoAttachment ==
  \A m \in Messages :
    message[m].state = "deleted" => RowsOf(m) = {} \/ m \in marred

(* "A message must contain a text or a file", as soon as no request works  *)
(* on it. It does not hold: sendMessage inserts the message before it      *)
(* checks the files.                                                       *)
MessageHasContent ==
  \A m \in Messages :
    (message[m].state = "live" /\ \A p \in Requests : ~WorksOn(p, m))
      => message[m].text \/ RowsOf(m) # {}

=============================================================================
