---------------------------- MODULE FileFolders -----------------------------
(***************************************************************************)
(* The folder tree of gateways/files: createFolder, updateFolder and       *)
(* deleteFolder of FileStorageService, and the files and documents that    *)
(* are created in folders, moved and deleted.                              *)
(*                                                                         *)
(* There is no transaction and no foreign key: a request checks the rows   *)
(* it needs with one SELECT after another and then writes one row, and     *)
(* other requests run between. The walk of isFolderDescendant up the tree  *)
(* is one SELECT per folder. A request that may not manage what it names   *)
(* is rejected before it writes; the users are left out.                   *)
(***************************************************************************)

CONSTANTS
  Folders,    \* uids of folders, used and unused
  Items,      \* uids of files and documents, used and unused
  Requests,   \* slots for requests in progress
  Root        \* parentFolderUid or folderUid is NULL

ASSUME FoldersAssumption == Root \notin Folders

VARIABLES
  folder,     \* folder[f]: the row of stored_file_folders
  item,       \* item[x]: the row of stored_files or stored_documents
  req,        \* req[p]: the request in slot p
  overlaps    \* history: the kinds of overlap there have been

vars == <<folder, item, req, overlaps>>

Places == Folders \cup {Root}

Row == [state : {"none", "live", "deleted"}, in : Places]

Unused == [state |-> "none", in |-> Root]

FolderLive(f) == folder[f].state = "live"

ItemLive(x) == item[x].state = "live"

(* counts: those deleteFolder has still to wait for; empty: the ones it    *)
(* has were zero; at: the folder a walk reads next, else the root.         *)
Pending ==
  [phase  : {"checkPlace", "walk", "write", "count", "destroy"},
   kind   : {"createFolder", "moveFolder", "createItem", "moveItem", "deleteFolder"},
   it     : Folders \cup Items, to : Places, at : Places,
   counts : SUBSET {"folders", "items"}, empty : BOOLEAN]

Idle == [phase |-> "idle"]

Pend(phase, kind, it, to) ==
  [phase |-> phase, kind |-> kind, it |-> it, to |-> to, at |-> Root,
   counts |-> {"folders", "items"}, empty |-> TRUE]

At(p, phase) == req[p].phase = phase

Busy(p) == ~At(p, "idle")

Goto(p, phase) == req' = [req EXCEPT ![p].phase = phase]

Answer(p) == req' = [req EXCEPT ![p] = Idle]

Init ==
  /\ folder = [f \in Folders |-> Unused]
  /\ item = [x \in Items |-> Unused]
  /\ req = [p \in Requests |-> Idle]
  /\ overlaps = {}

-----------------------------------------------------------------------------
(* Overlaps                                                                *)

Moving(p) == Busy(p) /\ req[p].kind = "moveFolder"

Placing(p) == Busy(p) /\ req[p].kind # "deleteFolder"

(* p writes the parent of a folder while another request checks that its   *)
(* own move makes no cycle.                                                *)
MovesOverlap(p) ==
  IF Moving(p) /\ \E q \in Requests \ {p} : Moving(q) THEN {"moves"} ELSE {}

(* p puts something in a folder that another request is deleting.          *)
PlaceOverlap(p) ==
  IF \E q \in Requests : /\ Busy(q) /\ req[q].kind = "deleteFolder"
                         /\ req[q].it = req[p].to
    THEN {"delete"} ELSE {}

(* p deletes a folder that another request is putting something in.        *)
DeleteOverlap(p) ==
  IF \E q \in Requests : Placing(q) /\ req[q].to = req[p].it
    THEN {"delete"} ELSE {}

-----------------------------------------------------------------------------
(* What is put in a folder: assertCanUseFolder reads the folder, then the  *)
(* row is inserted, or updated in the column that names the folder.        *)

(* Nothing is read when the place is the root.                             *)
CheckPhase(to) == IF to = Root THEN "write" ELSE "checkPlace"

CreateFolder(p) ==
  /\ At(p, "idle")
  /\ \E f \in Folders, to \in Places :
       /\ folder[f].state = "none"
       /\ \A q \in Requests : Busy(q) => req[q].it # f
       /\ req' = [req EXCEPT ![p] = Pend(CheckPhase(to), "createFolder", f, to)]
  /\ UNCHANGED <<folder, item, overlaps>>

CreateItem(p) ==
  /\ At(p, "idle")
  /\ \E x \in Items, to \in Places :
       /\ item[x].state = "none"
       /\ \A q \in Requests : Busy(q) => req[q].it # x
       /\ req' = [req EXCEPT ![p] = Pend(CheckPhase(to), "createItem", x, to)]
  /\ UNCHANGED <<folder, item, overlaps>>

(* A column set to the value that was read is not written: a move to where *)
(* the row is has no effect and is left out.                               *)
MoveItem(p) ==
  /\ At(p, "idle")
  /\ \E x \in Items, to \in Places :
       /\ ItemLive(x)
       /\ to # item[x].in
       /\ req' = [req EXCEPT ![p] = Pend(CheckPhase(to), "moveItem", x, to)]
  /\ UNCHANGED <<folder, item, overlaps>>

(* A folder is not moved into itself. The walk starts at the new parent.   *)
MoveFolder(p) ==
  /\ At(p, "idle")
  /\ \E f \in Folders, to \in Places :
       /\ to # f
       /\ FolderLive(f)
       /\ to # folder[f].in
       /\ req' = [req EXCEPT ![p] = Pend(CheckPhase(to), "moveFolder", f, to)]
  /\ UNCHANGED <<folder, item, overlaps>>

CheckPlace(p) ==
  /\ At(p, "checkPlace")
  /\ IF FolderLive(req[p].to)
       THEN IF req[p].kind = "moveFolder"
              THEN req' = [req EXCEPT ![p].phase = "walk", ![p].at = req[p].to]
              ELSE Goto(p, "write")
       ELSE Answer(p)
  /\ UNCHANGED <<folder, item, overlaps>>

(* Defect: only the new parent itself is looked at.                        *)
WalkOneStep(p) ==
  LET f == req[p].at IN
  /\ At(p, "walk")
  /\ IF ~FolderLive(f) \/ folder[f].in = req[p].it
       THEN Answer(p)
       ELSE Goto(p, "write")
  /\ UNCHANGED <<folder, item, overlaps>>

(* Defect: a folder that is gone is read over and over.                    *)
WalkInsists(p) ==
  LET f == req[p].at IN
  /\ At(p, "walk")
  /\ \/ /\ FolderLive(f)
        /\ folder[f].in = req[p].it
        /\ Answer(p)
     \/ /\ FolderLive(f)
        /\ folder[f].in = Root
        /\ req' = [req EXCEPT ![p].phase = "write", ![p].at = Root]
     \/ /\ FolderLive(f)
        /\ folder[f].in \in Folders \ {req[p].it}
        /\ req' = [req EXCEPT ![p].at = folder[f].in]
     \/ /\ ~FolderLive(f)
        /\ UNCHANGED req
  /\ UNCHANGED <<folder, item, overlaps>>

(* isFolderDescendant: a missing folder and the folder itself reject the   *)
(* move, the root allows it, any other parent is read next.                *)
Walk(p) ==
  LET f == req[p].at IN
  /\ At(p, "walk")
  /\ \/ /\ ~FolderLive(f) \/ folder[f].in = req[p].it
        /\ Answer(p)
     \/ /\ FolderLive(f)
        /\ folder[f].in = Root
        /\ req' = [req EXCEPT ![p].phase = "write", ![p].at = Root]
     \/ /\ FolderLive(f)
        /\ folder[f].in \in Folders \ {req[p].it}
        /\ req' = [req EXCEPT ![p].at = folder[f].in]
  /\ UNCHANGED <<folder, item, overlaps>>

(* An update finds its row by primary key, deleted or not.                 *)
Write(p) ==
  LET r == req[p] IN
  /\ At(p, "write")
  /\ \/ /\ r.kind = "createFolder"
        /\ folder' = [folder EXCEPT ![r.it] = [state |-> "live", in |-> r.to]]
        /\ UNCHANGED item
     \/ /\ r.kind = "moveFolder"
        /\ folder' = [folder EXCEPT ![r.it].in = r.to]
        /\ UNCHANGED item
     \/ /\ r.kind = "createItem"
        /\ item' = [item EXCEPT ![r.it] = [state |-> "live", in |-> r.to]]
        /\ UNCHANGED folder
     \/ /\ r.kind = "moveItem"
        /\ item' = [item EXCEPT ![r.it].in = r.to]
        /\ UNCHANGED folder
  /\ Answer(p)
  /\ overlaps' = overlaps \cup MovesOverlap(p) \cup PlaceOverlap(p)

-----------------------------------------------------------------------------
(* Deletion                                                                *)

DeleteFolder(p) ==
  /\ At(p, "idle")
  /\ \E f \in Folders :
       /\ FolderLive(f)
       /\ req' = [req EXCEPT ![p] = Pend("count", "deleteFolder", f, Root)]
  /\ UNCHANGED <<folder, item, overlaps>>

(* Defect: the folders in the folder are not counted.                      *)
CountItemsOnly(p) ==
  LET f == req[p].it IN
  /\ At(p, "count")
  /\ \E c \in req[p].counts :
       req' = [req EXCEPT
         ![p].counts = @ \ {c},
         ![p].empty  = @ /\ (c = "items" => ~\E x \in Items : ItemLive(x) /\ item[x].in = f)]
  /\ UNCHANGED <<folder, item, overlaps>>

(* assertFolderIsEmpty counts in parallel. Files and documents are counted *)
(* in two tables; here both are items.                                     *)
Count(p) ==
  LET f == req[p].it IN
  /\ At(p, "count")
  /\ \E c \in req[p].counts :
       req' = [req EXCEPT
         ![p].counts = @ \ {c},
         ![p].empty  = @ /\ IF c = "items"
                              THEN ~\E x \in Items : ItemLive(x) /\ item[x].in = f
                              ELSE ~\E g \in Folders : FolderLive(g) /\ folder[g].in = f]
  /\ UNCHANGED <<folder, item, overlaps>>

DestroyFolder(p) ==
  /\ At(p, "count")
  /\ req[p].counts = {}
  /\ IF req[p].empty
       THEN /\ folder' = [folder EXCEPT ![req[p].it].state = "deleted"]
            /\ overlaps' = overlaps \cup DeleteOverlap(p)
       ELSE UNCHANGED <<folder, overlaps>>
  /\ Answer(p)
  /\ UNCHANGED item

(* delete and deleteDocument, once the file is known to be free.           *)
DeleteItem ==
  /\ \E x \in Items :
       /\ ItemLive(x)
       /\ item' = [item EXCEPT ![x].state = "deleted"]
  /\ UNCHANGED <<folder, req, overlaps>>

-----------------------------------------------------------------------------
(* A SELECT fails, or the worker dies: nothing was written yet.            *)
FailRequest(p) ==
  /\ Busy(p)
  /\ Answer(p)
  /\ UNCHANGED <<folder, item, overlaps>>

NewRequest(p) ==
  CreateFolder(p) \/ CreateItem(p) \/ MoveItem(p) \/ MoveFolder(p) \/ DeleteFolder(p)

Statement(p) ==
  CheckPlace(p) \/ Walk(p) \/ Write(p) \/ Count(p) \/ DestroyFolder(p)

Next ==
  \/ \E p \in Requests : NewRequest(p) \/ Statement(p) \/ FailRequest(p)
  \/ DeleteItem

Spec == Init /\ [][Next]_vars

FairSpec == Spec /\ \A p \in Requests : WF_vars(Statement(p))

-----------------------------------------------------------------------------
(* Properties                                                              *)

TypeOK ==
  /\ folder \in [Folders -> Row]
  /\ item \in [Items -> Row]
  /\ req \in [Requests -> {Idle} \cup Pending]
  /\ overlaps \subseteq {"moves", "delete"}

(* "A folder cannot be moved into a nested folder": no folder is above     *)
(* itself. A cycle is a set of folders each with its parent in the set. It *)
(* does not hold when two folders are moved at once.                       *)
Acyclic ==
  ~\E S \in SUBSET {f \in Folders : FolderLive(f)} :
      S # {} /\ \A f \in S : folder[f].in \in S

(* The walk of each move is enough as long as moves come one at a time,    *)
(* whatever is created, moved in or deleted around it.                     *)
AcyclicUnlessMovesOverlap == Acyclic \/ "moves" \in overlaps

(* What is in a folder is in one that exists, unless something was being   *)
(* put there while the folder was being deleted: both saw nothing wrong.   *)
PlacedUnlessDeleteOverlaps ==
  \/ /\ \A f \in Folders :
          FolderLive(f) /\ folder[f].in # Root => FolderLive(folder[f].in)
     /\ \A x \in Items :
          ItemLive(x) /\ item[x].in # Root => FolderLive(item[x].in)
  \/ "delete" \in overlaps

(* Every request ends: the walk up the tree reaches the root, unless moves *)
(* that overlapped have closed a cycle it goes round for ever.             *)
RequestsEnd ==
  \A p \in Requests : Busy(p) ~> (~Busy(p) \/ "moves" \in overlaps)

=============================================================================
