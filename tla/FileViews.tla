------------------------------- MODULE FileViews -------------------------------
(***************************************************************************)
(* The files as somebody sees them: FilesView of the monolith with its     *)
(* store, its reloads and its requests, the controller of gateways/files   *)
(* that serves them and the events it sends through the chat gateway.      *)
(*                                                                         *)
(* One owner's files are looked at, by the owner, by a superadministrator  *)
(* or by another user. FileAccess has the way up the folders, FileFolders  *)
(* the races of moves and deletions: something is put into a folder, or an *)
(* empty folder deleted, in one step here.                                 *)
(***************************************************************************)
EXTENDS Naturals, FiniteSets, Null

CONSTANTS
  Folders, Files, Documents,  \* what the owner can have
  Place,      \* Place[i]: the folder it is, or will be created, in; or Root
  Root,       \* the owner's files that are in no folder
  Overview,   \* the list of the owners of files
  Texts,      \* titles and descriptions
  FileLoads,  \* lists being loaded at a time: 1..n
  Calls,      \* other requests of the view at a time
  Workers,    \* bulkOperationConcurrency
  MaxEvents   \* events on their way at a time

Items == Folders \cup Files \cup Documents

Places == Folders \cup {Root}

Tables == {Folders, Files, Documents}

Rows == [public : BOOLEAN, text : Texts]

Patches == [text : Texts] \cup [public : BOOLEAN]

Lists == [Items -> Rows \cup {None}]

RunningLists ==
  [of : Places \cup {Overview}, step : {"asked", "lists"}, left : SUBSET Tables, rows : Lists,
   old : BOOLEAN]

(* read: the instance an update has found; many: of runLimited; heard: the *)
(* view that asked is still there; told: an event is sent; old: the item   *)
(* has been changed since the answer, or since what the answer was made of *)
(* was read.                                                               *)
CallOf(ops, rows, reads, steps) ==
  [op : ops, item : Items, row : rows, read : reads, many : BOOLEAN, step : steps,
   heard : BOOLEAN, told : BOOLEAN, old : BOOLEAN]

RunningCalls ==
  CallOf({"create"}, Rows, {None}, {"asked", "done"})
  \cup CallOf({"update"}, Patches, {None}, {"asked"})
  \cup CallOf({"update"}, Patches, Rows, {"found"})
  \cup CallOf({"update"}, Rows, {None}, {"done"})
  \cup CallOf({"delete"}, {<<>>}, {None}, {"asked", "found"})
  \cup CallOf({"delete"}, {None}, {None}, {"done"})

BulkOf(op, rows) ==
  [op : {op}, row : rows, todo : SUBSET Items, workers : 0..Workers, heard : BOOLEAN]

RunningBulks == BulkOf("update", Patches) \cup BulkOf("delete", {<<>>})

ASSUME FilesAssumption ==
  /\ None \notin Places \cup {Overview} \cup Rows \cup RunningLists \cup RunningCalls
                  \cup RunningBulks
  /\ Overview \notin Places
  /\ \A t, u \in Tables : t = u \/ t \cap u = {}
  /\ Place \in [Items -> Places]
  /\ FileLoads \subseteq Nat /\ IsFiniteSet(Calls) /\ Workers \in Nat
  /\ MaxEvents \in Nat

VARIABLES
  viewer,    \* "owner", "super" or "other"
  kept,      \* kept[i]: the row [public, text], or None
  place,     \* the address of the view: a place, Overview, or None: it is gone
  shown,     \* the store: [of, rows]
  missed,    \* history: since the view last asked for a list, one could not be loaded
  picked,    \* selectedTileKeys
  downloading, \* isBulkDownloading
  lists,     \* lists[l]: a list being loaded, or None
  call,      \* call[c]: a request that changes something, or None
  bulk,      \* runLimited at work: [op, row, todo, workers, heard], or None
  naming,    \* isFolderSubmitting, isDocumentSubmitting, or an upload under way:
             \* one thing is created at a time
  field,     \* the upload field that started the upload is still there
  soon,      \* the timer of useFilesRealtimeReload is set
  connected, \* the socket of the view
  events,    \* events on their way to the socket
  apart      \* history: what is shown may not be what is kept, see Properties

fileVs == <<viewer, kept, place, shown, missed, picked, downloading, lists, call, bulk,
            naming, field, soon, connected, events, apart>>

NoRows == [i \in Items |-> None]

There(p) == p \in Folders => kept[p] # None

FilesInit ==
  /\ viewer \in {"owner", "super", "other"}
  /\ kept \in [Items -> {None} \cup [public : BOOLEAN, text : Texts]]
  /\ \A i \in Items : kept[i] # None => There(Place[i])
  /\ place = None /\ shown = [of |-> None, rows |-> NoRows]
  /\ missed = FALSE /\ picked = {} /\ downloading = FALSE
  /\ lists = [l \in FileLoads |-> None]
  /\ call = [c \in Calls |-> None]
  /\ bulk = None /\ naming = FALSE /\ field = FALSE
  /\ soon = FALSE /\ connected = TRUE /\ events = 0
  /\ apart = FALSE

CanManage == viewer \in {"owner", "super"}

ShownItems == {i \in Items : shown.rows[i] # None}

(* The items chosen, those of them that are still listed.                  *)
Chosen == picked \cap ShownItems

ListsLoading == \E l \in FileLoads : lists[l] # None

ListAt(l, step) == lists[l] # None /\ lists[l].step = step

CallAt(c, step) == call[c] # None /\ call[c].step = step

-----------------------------------------------------------------------------
(* Loading                                                                 *)

(* The request of loadContent.                                             *)
AsksList(l, p) ==
  /\ lists[l] = None /\ \A k \in FileLoads : k < l => lists[k] # None
  /\ lists' = [lists EXCEPT ![l] =
       [of |-> p, step |-> "asked", left |-> Tables, rows |-> NoRows, old |-> FALSE]]

(* loadContent. While a list is loaded nothing but a notice is shown, and  *)
(* the field of an upload is destroyed. The message of a list that failed  *)
(* is cleared here, but by bulkDownloadSelected too, which loads nothing:  *)
(* missed is kept in its place.                                            *)
Load(l, p) ==
  /\ AsksList(l, p)
  /\ missed' = FALSE
  /\ field' = FALSE

(* clearSelection and loadContent.                                         *)
Reload(l) == picked' = {} /\ Load(l, place)

(* The view is mounted, or its address changes: by a link of the header, a *)
(* folder, a user, the buttons of the browser.                             *)
Goes(l, p) ==
  /\ p # place /\ p # None
  /\ place' = p
  /\ picked' = {} /\ Load(l, p)
  /\ UNCHANGED <<viewer, kept, shown, downloading, call, bulk, naming, soon, connected,
                 events, apart>>

(* changeOwnersPage, and updateOwnersPageSize when the viewport changes.   *)
ChangesPage(l) ==
  /\ place = Overview
  /\ Load(l, Overview)
  /\ UNCHANGED <<viewer, kept, place, shown, picked, downloading, call, bulk, naming, soon,
                 connected, events, apart>>

UnheardCall(q) == IF q = None THEN None ELSE [q EXCEPT !.heard = FALSE]

(* The view is destroyed, its timer cleared. The store stays as it is, and *)
(* the requests, their callbacks and runLimited go on.                     *)
GoesAway ==
  /\ place # None
  /\ place' = None /\ picked' = {} /\ missed' = FALSE /\ downloading' = FALSE
  /\ soon' = FALSE /\ naming' = FALSE /\ field' = FALSE
  /\ bulk' = IF bulk = None THEN None ELSE [bulk EXCEPT !.heard = FALSE]
  /\ call' = [c \in Calls |-> UnheardCall(call[c])]
  /\ UNCHANGED <<viewer, kept, shown, lists, connected, events, apart>>

MayOpen(f) == kept[f] # None /\ (CanManage \/ kept[f].public)

MayList(i) == kept[i] # None /\ (CanManage \/ kept[i].public)

Answered(l) == lists' = [lists EXCEPT ![l] = None]

FileListFails(l) ==
  /\ Answered(l)
  /\ missed' = (missed \/ place # None)
  /\ UNCHANGED <<viewer, kept, place, shown, picked, downloading, call, bulk, naming,
                 field, soon, connected, events, apart>>

(* resolveCurrentFolder. The list of the owners is not looked into.        *)
OpensFolder(l) ==
  LET p == lists[l].of IN
  /\ ListAt(l, "asked")
  /\ IF p \in Folders /\ ~MayOpen(p)
       THEN FileListFails(l)
       ELSE /\ lists' = [lists EXCEPT ![l] =
                 [lists[l] EXCEPT !.step = "lists",
                                  !.left = IF p = Overview THEN {} ELSE @]]
            /\ UNCHANGED <<viewer, kept, place, shown, missed, picked, downloading, call,
                           bulk, naming, field, soon, connected, events, apart>>

(* The three tables are read in parallel, what is private kept back.       *)
ReadsTable(l, table) ==
  /\ ListAt(l, "lists") /\ table \in lists[l].left
  /\ lists' = [lists EXCEPT ![l] =
       [lists[l] EXCEPT !.left = @ \ {table},
                        !.rows = [i \in Items |->
                           IF i \in table /\ Place[i] = lists[l].of /\ MayList(i)
                           THEN kept[i] ELSE @[i]]]]
  /\ UNCHANGED <<viewer, kept, place, shown, missed, picked, downloading, call, bulk,
                 naming, field, soon, connected, events, apart>>

(* setContent and setOwners, whatever the view's address is by now: the    *)
(* answers come in any order and the last one stays.                       *)
Shows(l) ==
  LET x == lists[l] IN
  /\ ListAt(l, "lists") /\ x.left = {}
  /\ shown' = [of |-> x.of, rows |-> x.rows]
  /\ lists' = [k \in FileLoads |->
       IF k = l \/ lists[k] = None THEN None
       ELSE [lists[k] EXCEPT !.old = @ \/ lists[k].step # "asked"]]
  /\ apart' = (apart \/ x.old \/ (x.of # place /\ place # None /\
                 ~\E k \in FileLoads \ {l} : lists[k] # None /\ lists[k].of = place))
  /\ UNCHANGED <<viewer, kept, place, missed, picked, downloading, call, bulk, naming,
                 field, soon, connected, events>>

(* A statement or the connection fails; the list stays as it was, with a   *)
(* message above it.                                                       *)
ListAbandoned(l) == lists[l] # None /\ FileListFails(l)

-----------------------------------------------------------------------------
(* Choosing                                                                *)

ToggleOne(i) ==
  /\ CanManage /\ place # None /\ i \in ShownItems
  /\ picked' = (picked \ {i}) \cup ({i} \ picked)
  /\ UNCHANGED <<viewer, kept, place, shown, missed, downloading, lists, call, bulk,
                 naming, field, soon, connected, events, apart>>

(* Everything, or nothing when everything is chosen.                       *)
ToggleAll ==
  /\ CanManage /\ place # None /\ ShownItems # {}
  /\ picked' = IF Chosen = ShownItems THEN {} ELSE ShownItems
  /\ UNCHANGED <<viewer, kept, place, shown, missed, downloading, lists, call, bulk,
                 naming, field, soon, connected, events, apart>>

(* bulkDownloadSelected: documents are opened in windows of their own, for *)
(* files an archive is asked for.                                          *)
Downloads ==
  LET clears == Chosen \cap Files = {} IN
  /\ place # None /\ ~downloading /\ Chosen \ Folders # {}
  /\ downloading' = ~clears
  /\ picked' = IF clears THEN {} ELSE picked
  /\ UNCHANGED <<viewer, kept, place, shown, missed, lists, call, bulk, naming, field,
                 soon, connected, events, apart>>

(* The archive has come, and clears what is chosen by now, or has not.     *)
Downloaded ==
  /\ downloading
  /\ downloading' = FALSE
  /\ picked' \in {{}, picked}
  /\ UNCHANGED <<viewer, kept, place, shown, missed, lists, call, bulk, naming, field,
                 soon, connected, events, apart>>

-----------------------------------------------------------------------------
(* Asking for a change                                                     *)

Begin(c, op, i, row, many) ==
  /\ call[c] = None
  /\ call' = [call EXCEPT ![c] =
       [op |-> op, item |-> i, row |-> row, read |-> None, many |-> many, step |-> "asked",
        heard |-> TRUE, told |-> FALSE, old |-> FALSE]]

(* renameFolder, renameFile, renameDocument and the deletions, once their  *)
(* dialog has been confirmed. The list may have changed under the dialog.  *)
Asks(c, op, i, row) ==
  /\ CanManage /\ place \in Places
  /\ Begin(c, op, i, row, FALSE)
  /\ UNCHANGED <<viewer, kept, place, shown, missed, picked, downloading, lists, bulk,
                 naming, field, soon, connected, events, apart>>

Renames(c, i, text) == Asks(c, "update", i, [text |-> text])

Deletes(c, i) == Asks(c, "delete", i, <<>>)

(* createFolder, createDocument and an upload: into the folder of the      *)
(* address, or into the root from the list of the owners.                  *)
Creates(c, i, row) ==
  /\ viewer = "owner" /\ ~naming
  /\ \/ place \in Places /\ Place[i] = place
     \/ place = Overview /\ Place[i] = Root /\ i \in Folders
  /\ i \in Files => row.public
  /\ kept[i] = None /\ \A d \in Calls : call[d] # None => call[d].item # i
  /\ Begin(c, "create", i, row, FALSE)
  /\ naming' = TRUE
  /\ field' = (i \in Files)
  /\ UNCHANGED <<viewer, kept, place, shown, missed, picked, downloading, lists, bulk,
                 soon, connected, events, apart>>

(* bulkSetVisibility and bulkDeleteSelected: runLimited over what is       *)
(* chosen. One at a time is looked at.                                     *)
BeginsBulk(op, row) ==
  /\ CanManage /\ place # None /\ bulk = None /\ Chosen # {}
  /\ \A c \in Calls : call[c] # None => ~call[c].many
  /\ bulk' = [op |-> op, row |-> row, todo |-> Chosen, workers |-> Workers, heard |-> TRUE]
  /\ UNCHANGED <<viewer, kept, place, shown, missed, picked, downloading, lists, call,
                 naming, field, soon, connected, events, apart>>

Busy == {c \in Calls : call[c] # None /\ call[c].many}

(* A worker takes the next task.                                           *)
TakesTask(c, i) ==
  /\ bulk # None /\ i \in bulk.todo
  /\ Cardinality(Busy) < bulk.workers
  /\ Begin(c, bulk.op, i, bulk.row, TRUE)
  /\ bulk' = [bulk EXCEPT !.todo = @ \ {i}]
  /\ UNCHANGED <<viewer, kept, place, shown, missed, picked, downloading, lists, naming,
                 field, soon, connected, events, apart>>

(* Where loadContent of a view that is gone looks: in one's own files,     *)
(* which for a superadministrator are not those looked at.                 *)
Elsewhere == IF place # None THEN place ELSE IF viewer = "owner" THEN Root ELSE Overview

(* All tasks have succeeded: clearSelection and loadContent.               *)
EndsBulk(l) ==
  /\ bulk # None /\ bulk.todo = {} /\ Busy = {}
  /\ bulk.workers = Workers
  /\ bulk' = None
  /\ IF bulk.heard THEN Reload(l)
                   ELSE AsksList(l, Elsewhere) /\ UNCHANGED <<picked, missed, field>>
  /\ UNCHANGED <<viewer, kept, place, shown, downloading, call, naming, soon, connected,
                 events, apart>>

(* After a failure the other workers go on; nothing is loaded again.       *)
GivesUpBulk ==
  /\ bulk # None /\ bulk.workers < Workers /\ Busy = {}
  /\ bulk.todo = {} \/ bulk.workers = 0
  /\ bulk' = None
  /\ UNCHANGED <<viewer, kept, place, shown, missed, picked, downloading, lists, call,
                 naming, field, soon, connected, events, apart>>

-----------------------------------------------------------------------------
(* What the gateway does                                                   *)

Empty(f) == \A i \in Items : Place[i] = f => kept[i] = None

Told(i) == i \notin Documents /\ connected

(* notifyFileEvent and FileEventsController: nobody waits for the event,   *)
(* the chat gateway refuses those of documents, and a socket that is away  *)
(* does not get it.                                                        *)
Announces(i) ==
  /\ Told(i) => events < MaxEvents
  /\ events' = IF Told(i) THEN events + 1 ELSE events

(* The place is looked at, or its list under way.                          *)
Watched(i) ==
  place = Place[i] \/ \E l \in FileLoads : lists[l] # None /\ lists[l].of = Place[i]

(* Answers on their way that were made before the item was changed again.  *)
Outdated(q, i) ==
  IF q # None /\ q.step = "done" /\ q.item = i THEN [q EXCEPT !.old = TRUE] ELSE q

(* findFolder and its like, with the right to change what is found: the    *)
(* instance is read in a statement of its own.                             *)
FindsRow(c) ==
  LET q == call[c] IN
  /\ CallAt(c, "asked") /\ q.op # "create" /\ kept[q.item] # None
  /\ call' = [call EXCEPT ![c] =
       [q EXCEPT !.step = "found", !.read = IF q.op = "update" THEN kept[q.item] ELSE None]]
  /\ UNCHANGED <<viewer, kept, place, shown, missed, picked, downloading, lists, bulk,
                 naming, field, soon, connected, events, apart>>

(* assertCanUseFolder and an INSERT.                                       *)
CanCreate(q) ==
  q.op = "create" /\ q.step = "asked" /\ kept[q.item] = None /\ There(Place[q.item])

(* An UPDATE or a DELETE succeeds though the row has gone meanwhile.       *)
CanUpdate(q) == q.op = "update" /\ q.step = "found"

(* A folder has to be empty.                                               *)
CanDelete(q) ==
  q.op = "delete" /\ q.step = "found" /\ (q.item \in Folders => Empty(q.item))

(* resolveFolderPatch and its like: the columns sent are set.              *)
Patched(row, patch) == [k \in DOMAIN row |-> IF k \in DOMAIN patch THEN patch[k] ELSE row[k]]

(* Those of them that differ from the instance read are written.           *)
Written(row, read, patch) ==
  [k \in DOMAIN row |->
     IF k \in DOMAIN patch /\ patch[k] # read[k] THEN patch[k] ELSE row[k]]

(* What is answered: of an update the instance read, with the columns set. *)
AnswerOf(q) ==
  CASE q.op = "create" -> q.row
    [] q.op = "delete" -> None
    [] q.op = "update" -> Patched(q.read, q.row)

(* A request takes effect, its answer and its event are on their way.      *)
PerformsCall(c) ==
  LET q == call[c] IN
  /\ q # None
  /\ CanCreate(q) \/ CanUpdate(q) \/ CanDelete(q)
  /\ kept' = [kept EXCEPT ![q.item] =
       IF q.op = "update" THEN IF @ = None THEN None ELSE Written(@, q.read, q.row)
                          ELSE AnswerOf(q)]
  /\ call' = [d \in Calls |->
       IF d = c THEN [q EXCEPT !.step = "done", !.row = AnswerOf(q), !.read = None,
                               !.told = Told(q.item), !.old = AnswerOf(q) # kept'[q.item]]
                ELSE Outdated(call[d], q.item)]
  /\ Announces(q.item)
  /\ UNCHANGED <<viewer, place, shown, missed, picked, downloading, lists, bulk, naming,
                 field, soon, connected, apart>>

(* The request is refused (the item is gone, the folder not empty, the     *)
(* file attached to a message), a statement or the connection fails.       *)
CallFails(c) ==
  LET q == call[c] IN
  /\ q # None
  /\ call' = [call EXCEPT ![c] = None]
  /\ naming' = (naming /\ ~(q.heard /\ q.op = "create"))
  /\ field' = (field /\ ~(q.heard /\ q.op = "create"))
  /\ bulk' = IF bulk # None /\ q.many THEN [bulk EXCEPT !.workers = @ - 1] ELSE bulk
  /\ apart' = (apart \/ q.step = "done")
  /\ UNCHANGED <<viewer, kept, place, shown, missed, picked, downloading, lists, soon,
                 connected, events>>

(* Another session of the owner, or a superadministrator, changes it.      *)
OthersChange(i, row) ==
  /\ row # kept[i]
  /\ kept[i] = None => There(Place[i])
  /\ row = None /\ i \in Folders => Empty(i)
  /\ \A c \in Calls : CallAt(c, "asked") /\ call[c].op = "create" => call[c].item # i
  /\ kept' = [kept EXCEPT ![i] = row]
  /\ call' = [c \in Calls |-> Outdated(call[c], i)]
  /\ Announces(i)
  /\ apart' = (apart \/ (~Told(i) /\ Watched(i)))
  /\ UNCHANGED <<viewer, place, shown, missed, picked, downloading, lists, bulk, naming,
                 field, soon, connected>>

-----------------------------------------------------------------------------
(* Answers and events                                                      *)

(* The store takes the row answered: an item created is added whatever     *)
(* list is shown, one changed or deleted only if it is listed.             *)
Committed(q) ==
  [shown EXCEPT !.rows[q.item] =
     IF q.op = "create" \/ (q.op = "update" /\ @ # None) THEN q.row
     ELSE IF q.op = "delete" THEN None ELSE @]

(* An answer that may not say what is kept, that a list read before will   *)
(* overwrite with no event to come, or that adds to another list.          *)
Spoils(q) ==
  \/ q.old
  \/ ~q.told /\ ListsLoading
  \/ q.op = "create" /\ place # Place[q.item]

(* An answer nothing waits for but the store, or the next task of          *)
(* runLimited.                                                             *)
ChangeAnswered(c) ==
  LET q == call[c] IN
  /\ CallAt(c, "done") /\ (q.op # "create" \/ (q.item \in Files /\ ~q.heard))
  /\ shown' = Committed(q)
  /\ call' = [call EXCEPT ![c] = None]
  /\ apart' = (apart \/ Spoils(q))
  /\ UNCHANGED <<viewer, kept, place, missed, picked, downloading, lists, bulk, naming,
                 field, soon, connected, events>>

(* A folder is created: the dialog closes and the list is loaded again, or *)
(* the view goes from the list of the owners to one's own files, also when *)
(* the view that asked is gone.                                            *)
FolderCreated(c, l) ==
  LET q == call[c] IN
  /\ CallAt(c, "done") /\ q.op = "create" /\ q.item \in Folders
  /\ shown' = Committed(q)
  /\ call' = [call EXCEPT ![c] = None]
  /\ naming' = (naming /\ ~q.heard)
  /\ IF place = Overview
       THEN place' = Root /\ picked' = {} /\ Load(l, Root)
       ELSE /\ place' = place /\ picked' = picked
            /\ IF q.heard THEN Load(l, place)
                          ELSE AsksList(l, Elsewhere) /\ UNCHANGED <<missed, field>>
  /\ apart' = (apart \/ Spoils(q))
  /\ UNCHANGED <<viewer, kept, downloading, bulk, soon, connected, events>>

(* A document is created: its editor opens, whatever was looked at.        *)
DocumentCreated(c) ==
  LET q == call[c] IN
  /\ CallAt(c, "done") /\ q.op = "create" /\ q.item \in Documents
  /\ shown' = Committed(q)
  /\ call' = [d \in Calls |-> IF d = c THEN None ELSE UnheardCall(call[d])]
  /\ place' = None /\ picked' = {} /\ missed' = FALSE /\ naming' = FALSE /\ field' = FALSE
  /\ soon' = FALSE /\ downloading' = FALSE
  /\ bulk' = IF bulk = None THEN None ELSE [bulk EXCEPT !.heard = FALSE]
  /\ apart' = (apart \/ Spoils(q))
  /\ UNCHANGED <<viewer, kept, lists, connected, events>>

(* A file is uploaded: its field, if it is still there, has the list       *)
(* loaded again; one that was destroyed tells nobody.                      *)
Uploaded(c, l) ==
  LET q == call[c] IN
  /\ CallAt(c, "done") /\ q.op = "create" /\ q.heard /\ q.item \in Files
  /\ shown' = Committed(q)
  /\ call' = [call EXCEPT ![c] = None]
  /\ naming' = FALSE
  /\ IF field THEN Load(l, place) ELSE UNCHANGED <<lists, missed, field>>
  /\ apart' = (apart \/ Spoils(q))
  /\ UNCHANGED <<viewer, kept, place, picked, downloading, bulk, soon, connected, events>>

(* Defect: no timer is set while a list is being loaded.                   *)
EventArrivesUnlessLoading ==
  /\ events > 0
  /\ events' = events - 1
  /\ soon' = (soon \/ (place # None /\ ~ListsLoading))
  /\ UNCHANGED <<viewer, kept, place, shown, missed, picked, downloading, lists, call,
                 bulk, naming, field, connected, apart>>

(* Every event sets the timer anew.                                        *)
EventArrives ==
  /\ events > 0
  /\ events' = events - 1
  /\ soon' = (soon \/ place # None)
  /\ UNCHANGED <<viewer, kept, place, shown, missed, picked, downloading, lists, call,
                 bulk, naming, field, connected, apart>>

(* 150 ms without an event.                                                *)
TimerFires(l) ==
  /\ soon
  /\ soon' = FALSE
  /\ Reload(l)
  /\ UNCHANGED <<viewer, kept, place, shown, downloading, call, bulk, naming, connected,
                 events, apart>>

(* The connection is lost with what is on its way. Nothing is loaded when  *)
(* it is back.                                                             *)
Disconnects ==
  /\ connected
  /\ connected' = FALSE /\ events' = 0
  /\ apart' = (apart \/ (events > 0 /\ (place # None \/ ListsLoading)))
  /\ UNCHANGED <<viewer, kept, place, shown, missed, picked, downloading, lists, call,
                 bulk, naming, field, soon>>

Connects ==
  /\ ~connected
  /\ connected' = TRUE
  /\ UNCHANGED <<viewer, kept, place, shown, missed, picked, downloading, lists, call,
                 bulk, naming, field, soon, events, apart>>

-----------------------------------------------------------------------------

FilesNext ==
  \/ GoesAway \/ ToggleAll \/ Downloads \/ Downloaded \/ GivesUpBulk
  \/ EventArrives \/ Disconnects \/ Connects
  \/ \E l \in FileLoads :
       \/ \E p \in Places \cup {Overview} : Goes(l, p)
       \/ ChangesPage(l) \/ OpensFolder(l) \/ Shows(l) \/ ListAbandoned(l)
       \/ EndsBulk(l) \/ TimerFires(l)
       \/ \E table \in Tables : ReadsTable(l, table)
       \/ \E c \in Calls : FolderCreated(c, l) \/ Uploaded(c, l)
  \/ \E i \in Items :
       \/ ToggleOne(i)
       \/ \E row \in Rows \cup {None} : OthersChange(i, row)
       \/ \E c \in Calls :
            \/ \E t \in Texts : Renames(c, i, t)
            \/ \E row \in Rows : Creates(c, i, row)
            \/ Deletes(c, i) \/ TakesTask(c, i)
  \/ \E p \in BOOLEAN : BeginsBulk("update", [public |-> p])
  \/ BeginsBulk("delete", <<>>)
  \/ \E c \in Calls :
       FindsRow(c) \/ PerformsCall(c) \/ CallFails(c) \/ ChangeAnswered(c) \/ DocumentCreated(c)

FilesSpec == FilesInit /\ [][FilesNext]_fileVs

-----------------------------------------------------------------------------
(* Properties                                                              *)

(* The rows, the store, the requests there are.                            *)
FilesTypeOK ==
  /\ viewer \in {"owner", "super", "other"} /\ kept \in Lists
  /\ place \in Places \cup {Overview, None}
  /\ shown \in [of : Places \cup {Overview, None}, rows : Lists]
  /\ picked \subseteq Items /\ events \in 0..MaxEvents
  /\ missed \in BOOLEAN /\ downloading \in BOOLEAN /\ naming \in BOOLEAN
  /\ field \in BOOLEAN /\ soon \in BOOLEAN /\ connected \in BOOLEAN /\ apart \in BOOLEAN
  /\ lists \in [FileLoads -> RunningLists \cup {None}]
  /\ call \in [Calls -> RunningCalls \cup {None}]
  /\ bulk \in RunningBulks \cup {None}

(* When nothing is under way and the list was loaded when it was last      *)
(* asked for, the view of a folder shows what the viewer may see of what   *)
(* is kept in it, whatever other message it shows, though changes of       *)
(* others come by events that say nothing, tables are read one after the   *)
(* other and the answers of changes go into the store on their own. apart  *)
(* names what can spoil it: a list that overtook a newer one or came for   *)
(* an address that was left, an answer of a change that met a list being   *)
(* loaded, an answer made before another change of the item or of an       *)
(* instance read before one (a column it did not set is stale), an event   *)
(* that was lost, and changes of documents by others, for which no event   *)
(* is passed on.                                                           *)
FilesShownAreKept ==
  /\ place \in Places /\ ~ListsLoading /\ ~missed /\ ~soon /\ events = 0 /\ ~apart
  /\ \A c \in Calls : call[c] = None
  => /\ shown.of = place
     /\ shown.rows = [i \in Items |-> IF Place[i] = place /\ MayList(i) THEN kept[i] ELSE None]

=============================================================================
