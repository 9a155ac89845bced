---------------------------- MODULE DocumentEditor ----------------------------
(***************************************************************************)
(* A document as its owner edits it: DocumentEditorView with its autosave, *)
(* and the requests getDocument and updateDocument of gateways/files.      *)
(*                                                                         *)
(* The content stands for contentJson, contentHtml and the page margins,   *)
(* which are always sent together. A reader who may not manage the         *)
(* document saves nothing and is not modelled.                             *)
(***************************************************************************)
EXTENDS Naturals, Null

CONSTANTS
  Docs,      \* documents
  Contents,  \* what a document can hold
  Titles,    \* the titles it can have
  DocLoads,  \* getDocument requests at a time: 1..n
  DocSaves   \* updateDocument requests at a time: 1..n

DocRows == [content : Contents, title : Titles, final : BOOLEAN, dated : BOOLEAN]

ShownDocs == [uid : Docs, title : Titles, final : BOOLEAN]

Editors == [uid : Docs, content : Contents]

RunningLoads == [uid : Docs, step : {"asked", "read"}, row : DocRows \cup {None}]

(* old: the row read, then the row answered; heard: the view that asked is *)
(* still there.                                                            *)
RunningSaves ==
  [uid : Docs, content : Contents, title : Titles, final : BOOLEAN,
   step : {"asked", "read", "written"}, old : DocRows \cup {None}, heard : BOOLEAN]

ASSUME EditorAssumption ==
  /\ None \notin Docs \cup DocRows \cup ShownDocs \cup Editors
  /\ None \notin RunningLoads \cup RunningSaves
  /\ DocLoads \subseteq Nat /\ DocSaves \subseteq Nat

VARIABLES
  row,       \* row[d] of stored_documents
  route,     \* the document of the address, or None: the view is gone
  document,  \* the ref of the view, or None
  editor,    \* its editor, or None
  dirty,     \* isDirty
  timer,     \* the timer of the autosave is set
  saving,    \* isSaving
  attaching, \* an attachment is being uploaded
  docLoad,   \* docLoad[l]: a getDocument in progress, or None
  docSave,   \* docSave[s]: an updateDocument in progress, or None
  redated,   \* history: finalizedAt of some row has been moved
  docCrossed \* history: what is shown may not be what is kept, see Properties

editorVars == <<row, route, document, editor, dirty, timer, saving, attaching,
                docLoad, docSave, redated, docCrossed>>

EditorInit ==
  /\ row \in [Docs -> DocRows] /\ \A d \in Docs : ~row[d].final /\ ~row[d].dated
  /\ route = None /\ document = None /\ editor = None
  /\ dirty = FALSE /\ timer = FALSE /\ saving = FALSE /\ attaching = FALSE
  /\ docLoad = [l \in DocLoads |-> None]
  /\ docSave = [s \in DocSaves |-> None]
  /\ redated = FALSE /\ docCrossed = FALSE

DocLoading == \E l \in DocLoads : docLoad[l] # None

SavesRunning == \E s \in DocSaves : docSave[s] # None

DocUnsaved == dirty \/ timer \/ attaching \/ SavesRunning

LoadAt(l, step) == docLoad[l] # None /\ docLoad[l].step = step

SaveAt(s, step) == docSave[s] # None /\ docSave[s].step = step

Open == document # None /\ editor # None

-----------------------------------------------------------------------------
(* Opening and leaving                                                     *)

(* loadDocument. The watcher of the address starts it, and neither the     *)
(* timer nor the editor of the document left is touched.                   *)
Navigate(l, d) ==
  /\ d # route
  /\ docLoad[l] = None /\ \A k \in DocLoads : k < l => docLoad[k] # None
  /\ route' = d
  /\ docLoad' = [docLoad EXCEPT ![l] = [uid |-> d, step |-> "asked", row |-> None]]
  /\ docCrossed' = (docCrossed \/ DocUnsaved)
  /\ UNCHANGED <<row, document, editor, dirty, timer, saving, attaching, docSave, redated>>

LoadRead(l) ==
  /\ LoadAt(l, "asked")
  /\ docLoad' = [docLoad EXCEPT ![l].step = "read", ![l].row = row[docLoad[l].uid]]
  /\ UNCHANGED <<row, route, document, editor, dirty, timer, saving, attaching,
                 docSave, redated, docCrossed>>

(* createEditor. Whatever is shown is replaced, even by an answer for a    *)
(* document that has been left.                                            *)
LoadShown(l) ==
  LET x == docLoad[l] IN
  /\ LoadAt(l, "read")
  /\ document' = [uid |-> x.uid, title |-> x.row.title, final |-> x.row.final]
  /\ editor' = [uid |-> x.uid, content |-> x.row.content]
  /\ docLoad' = [docLoad EXCEPT ![l] = None]
  /\ docCrossed' = (docCrossed \/ (x.uid # route /\
                   ~\E k \in DocLoads \ {l} : docLoad[k] # None /\ docLoad[k].uid = route))
  /\ UNCHANGED <<row, route, dirty, timer, saving, attaching, docSave, redated>>

DocLoadFails(l) ==
  /\ docLoad[l] # None
  /\ docLoad' = [docLoad EXCEPT ![l] = None]
  /\ docCrossed' = TRUE
  /\ UNCHANGED <<row, route, document, editor, dirty, timer, saving, attaching, docSave, redated>>

(* The view is destroyed, its timer stopped; what is under way goes on and *)
(* answers to nobody. The next view starts from nothing.                   *)
Leave ==
  /\ route # None
  /\ route' = None /\ document' = None /\ editor' = None
  /\ dirty' = FALSE /\ timer' = FALSE /\ saving' = FALSE /\ attaching' = FALSE
  /\ docLoad' = [l \in DocLoads |-> None]
  /\ docSave' = [s \in DocSaves |->
       IF docSave[s] = None THEN None ELSE [docSave[s] EXCEPT !.heard = FALSE]]
  /\ docCrossed' = (docCrossed \/ DocUnsaved)
  /\ UNCHANGED <<row, redated>>

-----------------------------------------------------------------------------
(* Editing and saving                                                      *)

(* markChanged after a change of the text, of its pages or of the margins. *)
(* The timer starts again.                                                 *)
MarkChanged(content) ==
  /\ editor' = [editor EXCEPT !.content = content]
  /\ dirty' = TRUE
  /\ timer' = TRUE
  /\ docCrossed' = (docCrossed \/ DocLoading)

Edit(content) ==
  /\ Open /\ content # editor.content
  /\ MarkChanged(content)
  /\ UNCHANGED <<row, route, document, saving, attaching, docLoad, docSave, redated>>

(* The payload is taken from the refs as they are now.                     *)
BeginSave(s, title, final) ==
  /\ docSave[s] = None /\ \A t \in DocSaves : t < s => docSave[t] # None
  /\ docSave' = [docSave EXCEPT ![s] =
       [uid |-> document.uid, content |-> editor.content, title |-> title, final |-> final,
        step |-> "asked", old |-> None, heard |-> TRUE]]
  /\ saving' = TRUE
  /\ docCrossed' = (docCrossed \/ DocLoading \/ SavesRunning)

AutosaveFires(s) ==
  /\ Open /\ timer
  /\ timer' = FALSE
  /\ BeginSave(s, document.title, FALSE)
  /\ UNCHANGED <<row, route, document, editor, dirty, attaching, docLoad, redated>>

(* saveDocument by the button, which isSaving disables; the timer stays.   *)
SaveButton(s) ==
  /\ Open /\ ~saving
  /\ BeginSave(s, document.title, FALSE)
  /\ UNCHANGED <<row, route, document, editor, dirty, timer, attaching, docLoad, redated>>

(* renameDocument saves at once, even while something is being saved.      *)
Rename(s, title) ==
  /\ Open /\ title # document.title
  /\ document' = [document EXCEPT !.title = title]
  /\ BeginSave(s, title, FALSE)
  /\ UNCHANGED <<row, route, editor, dirty, timer, attaching, docLoad, redated>>

(* Confirmed in a dialog that was offered for a draft; the document may    *)
(* have become final since, so nothing is required of it here.             *)
Finalize(s) ==
  /\ Open /\ ~saving
  /\ BeginSave(s, document.title, TRUE)
  /\ UNCHANGED <<row, route, document, editor, dirty, timer, attaching, docLoad, redated>>

(* insertAttachment borrows isSaving while the file is uploaded, and       *)
(* inserts it into the editor there is then.                               *)
Attach ==
  /\ Open /\ ~saving /\ ~attaching
  /\ attaching' = TRUE
  /\ saving' = TRUE
  /\ UNCHANGED <<row, route, document, editor, dirty, timer, docLoad, docSave, redated, docCrossed>>

Attached(content) ==
  /\ attaching /\ content # editor.content
  /\ attaching' = FALSE
  /\ saving' = FALSE
  /\ MarkChanged(content)
  /\ UNCHANGED <<row, route, document, docLoad, docSave, redated>>

AttachFails ==
  /\ attaching
  /\ attaching' = FALSE
  /\ saving' = FALSE
  /\ UNCHANGED <<row, route, document, editor, dirty, timer, docLoad, docSave, redated, docCrossed>>

-----------------------------------------------------------------------------
(* updateDocument in the gateway                                           *)

SaveRead(s) ==
  /\ SaveAt(s, "asked")
  /\ docSave' = [docSave EXCEPT ![s].step = "read", ![s].old = row[docSave[s].uid]]
  /\ UNCHANGED <<row, route, document, editor, dirty, timer, saving, attaching,
                 docLoad, redated, docCrossed>>

(* resolveDocumentPatch over the row as it was read. finalizedAt is a new  *)
(* date only if that row was a draft.                                      *)
DocPatched(q) ==
  [content |-> q.content, title |-> q.title, final |-> q.final \/ q.old.final,
   dated |-> q.old.dated \/ (q.final /\ ~q.old.final)]

(* Only the columns that differ from the row read are written; the answer  *)
(* is that row patched, not the row there is now.                          *)
SaveWrite(s) ==
  LET q == docSave[s]
      new == DocPatched(q)
      now == row[q.uid] IN
  /\ SaveAt(s, "read")
  /\ row' = [row EXCEPT ![q.uid] =
       [c \in DOMAIN now |-> IF new[c] # q.old[c] THEN new[c] ELSE now[c]]]
  /\ docSave' = [docSave EXCEPT ![s].step = "written", ![s].old = new]
  /\ redated' = (redated \/ (now.dated /\ q.final /\ ~q.old.final))
  /\ UNCHANGED <<route, document, editor, dirty, timer, saving, attaching, docLoad, docCrossed>>

(* Defect: the answer also stops the timer.                                *)
SaveAnsweredStopsTimer(s) ==
  LET q == docSave[s] IN
  /\ SaveAt(s, "written")
  /\ docSave' = [docSave EXCEPT ![s] = None]
  /\ IF q.heard
       THEN /\ document' = [uid |-> q.uid, title |-> q.old.title, final |-> q.old.final]
            /\ dirty' = FALSE /\ saving' = FALSE /\ timer' = FALSE
       ELSE UNCHANGED <<document, dirty, saving, timer>>
  /\ UNCHANGED <<row, route, editor, attaching, docLoad, redated, docCrossed>>

(* The document becomes the one answered, whichever is open, and counts as *)
(* saved, whatever was typed since.                                        *)
SaveAnswered(s) ==
  LET q == docSave[s] IN
  /\ SaveAt(s, "written")
  /\ docSave' = [docSave EXCEPT ![s] = None]
  /\ IF q.heard
       THEN /\ document' = [uid |-> q.uid, title |-> q.old.title, final |-> q.old.final]
            /\ dirty' = FALSE /\ saving' = FALSE
       ELSE UNCHANGED <<document, dirty, saving>>
  /\ UNCHANGED <<row, route, editor, timer, attaching, docLoad, redated, docCrossed>>

(* Nothing tries again: the next change or the button saves.               *)
SaveFails(s) ==
  /\ docSave[s] # None
  /\ docSave' = [docSave EXCEPT ![s] = None]
  /\ saving' = (saving /\ ~docSave[s].heard)
  /\ docCrossed' = TRUE
  /\ UNCHANGED <<row, route, document, editor, dirty, timer, attaching, docLoad, redated>>

-----------------------------------------------------------------------------

EditorNext ==
  \/ Leave \/ Attach \/ AttachFails
  \/ \E c \in Contents : Edit(c) \/ Attached(c)
  \/ \E l \in DocLoads :
       \/ \E d \in Docs : Navigate(l, d)
       \/ LoadRead(l) \/ LoadShown(l) \/ DocLoadFails(l)
  \/ \E s \in DocSaves :
       \/ AutosaveFires(s) \/ SaveButton(s) \/ Finalize(s)
       \/ \E t \in Titles : Rename(s, t)
       \/ SaveRead(s) \/ SaveWrite(s) \/ SaveAnswered(s) \/ SaveFails(s)

EditorSpec == EditorInit /\ [][EditorNext]_editorVars

-----------------------------------------------------------------------------
(* Properties                                                              *)

(* The rows, the refs of the view and the steps of the requests there are. *)
EditorTypeOK ==
  /\ row \in [Docs -> DocRows]
  /\ route \in Docs \cup {None}
  /\ document \in ShownDocs \cup {None}
  /\ editor \in Editors \cup {None}
  /\ dirty \in BOOLEAN /\ timer \in BOOLEAN /\ saving \in BOOLEAN /\ attaching \in BOOLEAN
  /\ redated \in BOOLEAN /\ docCrossed \in BOOLEAN
  /\ docLoad \in [DocLoads -> RunningLoads \cup {None}]
  /\ docSave \in [DocSaves -> RunningSaves \cup {None}]

(* When no request is under way and no timer set, the gateway holds what   *)
(* the editor shows, under the title and the status shown, and nothing     *)
(* counts as unsaved: what was typed while a save was under way is saved   *)
(* by a later one. A final document has its date, and the date stays.      *)
(* docCrossed names what can spoil it: saves that overlap, changes while a *)
(* document is being loaded, a document left with something unsaved, a     *)
(* request that failed, a late answer for a document that was left.        *)
SavedWhenQuiet ==
  /\ \A d \in Docs : row[d].final => row[d].dated
  /\ ~docCrossed => ~redated
  /\ Open /\ ~DocLoading /\ ~SavesRunning /\ ~timer /\ ~attaching /\ ~docCrossed =>
       /\ document.uid = route /\ editor.uid = route
       /\ row[route].content = editor.content
       /\ row[route].title = document.title /\ row[route].final = document.final
       /\ ~dirty /\ ~saving

=============================================================================
