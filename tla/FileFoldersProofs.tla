-------------------------- MODULE FileFoldersProofs ---------------------------
(***************************************************************************)
(* Theorems about FileFolders, for every set of folders, items and         *)
(* requests.                                                               *)
(***************************************************************************)
EXTENDS FileFolders, TLAPS

-----------------------------------------------------------------------------
(* What a request has in hand                                              *)

FolderKinds == {"createFolder", "moveFolder", "deleteFolder"}

Known(f) == f = Root \/ folder[f].state # "none"

(* The phase of a request agrees with its kind, it has checked the place   *)
(* it writes, and a folder that is to be created is its own.               *)
Fits(p) ==
  Busy(p) =>
    /\ req[p].it \in IF req[p].kind \in FolderKinds THEN Folders ELSE Items
    /\ At(p, "count") <=> req[p].kind = "deleteFolder"
    /\ At(p, "walk") => req[p].kind = "moveFolder" /\ req[p].at \in Folders
    /\ At(p, "checkPlace") => req[p].to \in Folders
    /\ req[p].phase \in {"walk", "write"} => Known(req[p].to)
    /\ req[p].kind \in {"moveFolder", "deleteFolder"} => folder[req[p].it].state # "none"
    /\ req[p].kind = "createFolder" =>
         /\ folder[req[p].it].state = "none"
         /\ \A q \in Requests \ {p} :
              Busy(q) /\ req[q].kind = "createFolder" => req[q].it # req[p].it

Rows ==
  /\ \A p \in Requests : Fits(p)
  /\ \A f \in Folders : folder[f].state # "none" => Known(folder[f].in)

-----------------------------------------------------------------------------
(* Moves that come one at a time                                           *)

(* The folders that the walk of a move has read, seen, lead from the new   *)
(* parent to the folder it reads next, and the moved folder is not one of  *)
(* them.                                                                   *)
Walked(p) ==
  Moving(p) =>
    /\ req[p].to # req[p].it
    /\ At(p, "walk") => req[p].at # req[p].it
    /\ At(p, "write") => req[p].at = Root
    /\ req[p].phase \in {"walk", "write"} =>
         \E seen \in SUBSET (Folders \ {req[p].it}) :
           /\ req[p].to \in seen \cup {req[p].at}
           /\ \A g \in seen : /\ folder[g].state # "none"
                              /\ folder[g].in \in seen \cup {req[p].at}

Walks == "moves" \in overlaps \/ (Acyclic /\ \A p \in Requests : Walked(p))

-----------------------------------------------------------------------------
(* Deletions of folders that nothing is put in meanwhile                   *)

NoFolderIn(f) == \A g \in Folders : FolderLive(g) => folder[g].in # f

NoItemIn(f) == \A x \in Items : ItemLive(x) => item[x].in # f

(* The place that was checked still exists; what was counted is still so.  *)
Checked(p) ==
  Busy(p) =>
    /\ req[p].phase \in {"walk", "write"} /\ req[p].to # Root => FolderLive(req[p].to)
    /\ At(p, "count") /\ req[p].empty =>
         /\ "folders" \notin req[p].counts => NoFolderIn(req[p].it)
         /\ "items" \notin req[p].counts => NoItemIn(req[p].it)

AllPlaced ==
  /\ \A f \in Folders : FolderLive(f) /\ folder[f].in # Root => FolderLive(folder[f].in)
  /\ \A x \in Items : ItemLive(x) /\ item[x].in # Root => FolderLive(item[x].in)

Deletions == "delete" \in overlaps \/ (AllPlaced /\ \A p \in Requests : Checked(p))

IInv == TypeOK /\ Rows /\ Walks /\ Deletions

-----------------------------------------------------------------------------
(* Slots                                                                   *)

Slot == {Idle} \cup Pending

LEMMA BusySlot ==
  ASSUME TypeOK, NEW p \in Requests
  PROVE  /\ Busy(p) <=> req[p] \in Pending
         /\ Busy(p) <=> req[p].phase \in {"checkPlace", "walk", "write", "count", "destroy"}
         /\ ~Busy(p) <=> req[p] = Idle
         /\ req[p] \in Pending => /\ req[p].to \in Places
                                  /\ req[p].at \in Places
                                  /\ req[p].it \in Folders \cup Items
                                  /\ req[p].counts \subseteq {"folders", "items"}
                                  /\ req[p].empty \in BOOLEAN
<1>1. req[p] \in {Idle} \cup Pending
  BY DEF TypeOK
<1>2. Idle.phase = "idle"
  BY DEF Idle
<1>3. req[p] \in Pending =>
        req[p].phase \in {"checkPlace", "walk", "write", "count", "destroy"}
  BY DEF Pending
<1>. QED  BY <1>1, <1>2, <1>3 DEF Busy, At, Pending

LEMMA StartSlot ==
  ASSUME TypeOK, NEW p \in Requests, NEW r \in Slot, req' = [req EXCEPT ![p] = r]
  PROVE  /\ req' \in [Requests -> Slot]
         /\ req'[p] = r
         /\ \A q \in Requests \ {p} : req'[q] = req[q]
BY DEF TypeOK, Slot

LEMMA AnswerSlot ==
  ASSUME TypeOK, NEW p \in Requests, Answer(p)
  PROVE  /\ req' \in [Requests -> Slot]
         /\ req'[p].phase = "idle"
         /\ \A q \in Requests \ {p} : req'[q] = req[q]
BY DEF TypeOK, Slot, Answer, Idle

(* A request begins.                                                       *)
LEMMA NewSlot ==
  ASSUME TypeOK, NEW p \in Requests, NewRequest(p)
  PROVE  /\ req' \in [Requests -> Slot]
         /\ \A q \in Requests \ {p} : req'[q] = req[q]
         /\ UNCHANGED <<folder, item, overlaps>>
         /\ Busy(p)'
         /\ req'[p].it \in IF req'[p].kind \in FolderKinds THEN Folders ELSE Items
         /\ req'[p].kind = "createFolder" =>
              /\ folder[req'[p].it].state = "none"
              /\ \A q \in Requests : Busy(q) => req[q].it # req'[p].it
         /\ req'[p].kind \in {"moveFolder", "deleteFolder"} =>
              folder[req'[p].it].state # "none"
         /\ req'[p].kind = "moveFolder" => req'[p].to # req'[p].it
         /\ req'[p].kind # "deleteFolder" =>
              /\ req'[p].to \in Places
              /\ req'[p].phase = CheckPhase(req'[p].to)
         /\ req'[p].kind = "deleteFolder" =>
              req'[p].phase = "count" /\ req'[p].counts = {"folders", "items"}
         /\ req'[p].at = Root
<1>. /\ Root \in Places
     /\ \A to : CheckPhase(to) \in {"write", "checkPlace"}
  BY DEF Places, CheckPhase
<1>1. CASE CreateFolder(p)
  <2>1. PICK f \in Folders, to \in Places :
          /\ folder[f].state = "none"
          /\ \A q \in Requests : Busy(q) => req[q].it # f
          /\ req' = [req EXCEPT ![p] = Pend(CheckPhase(to), "createFolder", f, to)]
    BY <1>1 DEF CreateFolder
  <2>2. PICK r : r = Pend(CheckPhase(to), "createFolder", f, to)
    OBVIOUS
  <2>3. /\ r \in Slot /\ r.phase = CheckPhase(to) /\ r.kind = "createFolder"
        /\ r.it = f /\ r.to = to /\ r.at = Root
    BY <2>2 DEF Pend, Pending, Slot
  <2>4. /\ req'[p] = r /\ req' \in [Requests -> Slot]
        /\ \A q \in Requests \ {p} : req'[q] = req[q]
    BY <2>1, <2>2, <2>3, StartSlot
  <2>. QED  BY <1>1, <2>1, <2>3, <2>4 DEF CreateFolder, Busy, At, FolderKinds
<1>2. CASE CreateItem(p)
  <2>1. PICK x \in Items, to \in Places :
          req' = [req EXCEPT ![p] = Pend(CheckPhase(to), "createItem", x, to)]
    BY <1>2 DEF CreateItem
  <2>2. PICK r : r = Pend(CheckPhase(to), "createItem", x, to)
    OBVIOUS
  <2>3. /\ r \in Slot /\ r.phase = CheckPhase(to) /\ r.kind = "createItem"
        /\ r.it = x /\ r.to = to /\ r.at = Root
    BY <2>2 DEF Pend, Pending, Slot
  <2>. QED  BY <1>2, <2>1, <2>2, <2>3, StartSlot DEF CreateItem, Busy, At, FolderKinds
<1>3. CASE MoveItem(p)
  <2>1. PICK x \in Items, to \in Places :
          req' = [req EXCEPT ![p] = Pend(CheckPhase(to), "moveItem", x, to)]
    BY <1>3 DEF MoveItem
  <2>2. PICK r : r = Pend(CheckPhase(to), "moveItem", x, to)
    OBVIOUS
  <2>3. /\ r \in Slot /\ r.phase = CheckPhase(to) /\ r.kind = "moveItem"
        /\ r.it = x /\ r.to = to /\ r.at = Root
    BY <2>2 DEF Pend, Pending, Slot
  <2>. QED  BY <1>3, <2>1, <2>2, <2>3, StartSlot DEF MoveItem, Busy, At, FolderKinds
<1>4. CASE MoveFolder(p)
  <2>1. PICK f \in Folders, to \in Places :
          /\ to # f /\ folder[f].state # "none"
          /\ req' = [req EXCEPT ![p] = Pend(CheckPhase(to), "moveFolder", f, to)]
    BY <1>4 DEF MoveFolder, FolderLive
  <2>2. PICK r : r = Pend(CheckPhase(to), "moveFolder", f, to)
    OBVIOUS
  <2>3. /\ r \in Slot /\ r.phase = CheckPhase(to) /\ r.kind = "moveFolder"
        /\ r.it = f /\ r.to = to /\ r.at = Root
    BY <2>2 DEF Pend, Pending, Slot
  <2>. QED  BY <1>4, <2>1, <2>2, <2>3, StartSlot DEF MoveFolder, Busy, At, FolderKinds
<1>5. CASE DeleteFolder(p)
  <2>1. PICK f \in Folders :
          /\ folder[f].state # "none"
          /\ req' = [req EXCEPT ![p] = Pend("count", "deleteFolder", f, Root)]
    BY <1>5 DEF DeleteFolder, FolderLive
  <2>2. PICK r : r = Pend("count", "deleteFolder", f, Root)
    OBVIOUS
  <2>3. /\ r \in Slot /\ r.phase = "count" /\ r.kind = "deleteFolder"
        /\ r.it = f /\ r.at = Root /\ r.counts = {"folders", "items"}
    BY <2>2 DEF Pend, Pending, Slot
  <2>. QED  BY <1>5, <2>1, <2>2, <2>3, StartSlot DEF DeleteFolder, Busy, At, FolderKinds
<1>. QED  BY <1>1, <1>2, <1>3, <1>4, <1>5 DEF NewRequest

(* A request goes on: what its step leaves of its slot.                    *)
LEMMA StepSlot ==
  ASSUME TypeOK, NEW p \in Requests, Statement(p), ~Answer(p)
  PROVE  /\ req' \in [Requests -> Slot]
         /\ \A q \in Requests \ {p} : req'[q] = req[q]
         /\ UNCHANGED <<folder, item, overlaps>>
         /\ Busy(p) /\ Busy(p)'
         /\ req'[p].kind = req[p].kind /\ req'[p].it = req[p].it /\ req'[p].to = req[p].to
         /\ \/ /\ CheckPlace(p) /\ req'[p].phase = "walk" /\ req'[p].at = req[p].to
               /\ req[p].kind = "moveFolder"
            \/ /\ CheckPlace(p) /\ req'[p].phase = "write"
               /\ req[p].kind # "moveFolder"
            \/ /\ Walk(p) /\ req'[p].phase = "write" /\ req'[p].at = Root
               /\ FolderLive(req[p].at) /\ folder[req[p].at].in = Root
            \/ /\ Walk(p) /\ req'[p].phase = "walk" /\ req'[p].at = folder[req[p].at].in
               /\ FolderLive(req[p].at) /\ req'[p].at \in Folders \ {req[p].it}
            \/ /\ Count(p) /\ req'[p].phase = "count"
               /\ \E c \in {"folders", "items"} :
                    /\ req'[p].counts = req[p].counts \ {c}
                    /\ req'[p].empty =>
                         /\ req[p].empty
                         /\ c = "folders" => NoFolderIn(req[p].it)
                         /\ c = "items" => NoItemIn(req[p].it)
<1>. req \in [Requests -> Slot]
  BY DEF TypeOK, Slot
<1>1. CASE CheckPlace(p)
  <2>1. req[p] \in Pending /\ req[p].to \in Places
    BY <1>1, BusySlot DEF CheckPlace, At
  <2>2. CASE req' = [req EXCEPT ![p].phase = "walk", ![p].at = req[p].to]
             /\ req[p].kind = "moveFolder"
    <3>1. PICK r \in Slot : r = [req[p] EXCEPT !.phase = "walk", !.at = req[p].to]
      BY <2>1 DEF Slot, Pending
    <3>2. req'[p] = r /\ \A q \in Requests \ {p} : req'[q] = req[q]
      BY <2>1, <2>2, <3>1 DEF Pending
    <3>3. req' = [req EXCEPT ![p] = r]
      BY <2>1, <2>2, <3>1 DEF Pending
    <3>. QED  BY <1>1, <2>1, <2>2, <3>1, <3>2, <3>3, StartSlot DEF CheckPlace, Busy, At, Pending
  <2>3. CASE Goto(p, "write") /\ req[p].kind # "moveFolder"
    <3>1. PICK r \in Slot : r = [req[p] EXCEPT !.phase = "write"]
      BY <2>1 DEF Slot, Pending
    <3>2. req' = [req EXCEPT ![p] = r]
      BY <2>3, <3>1 DEF Goto
    <3>. QED  BY <1>1, <2>1, <2>3, <3>1, <3>2, StartSlot DEF CheckPlace, Busy, At, Pending
  <2>. QED  BY <1>1, <2>2, <2>3 DEF CheckPlace
<1>2. CASE Walk(p)
  <2>1. req[p] \in Pending
    BY <1>2, BusySlot DEF Walk, At
  <2>2. CASE /\ req' = [req EXCEPT ![p].phase = "write", ![p].at = Root]
             /\ FolderLive(req[p].at) /\ folder[req[p].at].in = Root
    <3>1. PICK r \in Slot : r = [req[p] EXCEPT !.phase = "write", !.at = Root]
      BY <2>1 DEF Slot, Pending, Places
    <3>2. req' = [req EXCEPT ![p] = r]
      BY <2>1, <2>2, <3>1 DEF Pending
    <3>. QED  BY <1>2, <2>1, <2>2, <3>1, <3>2, StartSlot DEF Walk, Busy, At, Pending
  <2>3. CASE /\ req' = [req EXCEPT ![p].at = folder[req[p].at].in]
             /\ FolderLive(req[p].at) /\ folder[req[p].at].in \in Folders \ {req[p].it}
    <3>1. PICK r \in Slot : r = [req[p] EXCEPT !.at = folder[req[p].at].in]
      BY <2>1, <2>3 DEF Slot, Pending, Places
    <3>2. req' = [req EXCEPT ![p] = r]
      BY <2>3, <3>1
    <3>3. req[p].phase = "walk"
      BY <1>2 DEF Walk, At
    <3>. QED  BY <1>2, <2>1, <2>3, <3>1, <3>2, <3>3, StartSlot DEF Walk, Busy, At, Pending
  <2>. QED  BY <1>2, <2>2, <2>3 DEF Walk
<1>3. CASE Count(p)
  <2>1. req[p] \in Pending /\ req[p].phase = "count"
    BY <1>3, BusySlot DEF Count, At
  <2>2. PICK c \in {"folders", "items"} :
          req' = [req EXCEPT
            ![p].counts = @ \ {c},
            ![p].empty  = @ /\ IF c = "items"
                   THEN ~\E x \in Items : ItemLive(x) /\ item[x].in = req[p].it
                   ELSE ~\E g \in Folders : FolderLive(g) /\ folder[g].in = req[p].it]
    BY <1>3, <2>1, BusySlot DEF Count
  <2>3. PICK b \in BOOLEAN :
          b = (req[p].empty
               /\ IF c = "items"
                    THEN ~\E x \in Items : ItemLive(x) /\ item[x].in = req[p].it
                    ELSE ~\E g \in Folders : FolderLive(g) /\ folder[g].in = req[p].it)
    OBVIOUS
  <2>4. b => /\ req[p].empty
             /\ c = "folders" => NoFolderIn(req[p].it)
             /\ c = "items" => NoItemIn(req[p].it)
    BY <2>3 DEF NoFolderIn, NoItemIn
  <2>5. PICK r \in Slot : r = [req[p] EXCEPT !.counts = req[p].counts \ {c}, !.empty = b]
    BY <2>1, BusySlot DEF Slot, Pending
  <2>6. req' = [req EXCEPT ![p] = r]
    <3>1. req' = [req EXCEPT ![p].counts = req[p].counts \ {c}, ![p].empty = b]
      BY <2>2, <2>3
    <3>. QED  BY <2>1, <2>5, <3>1 DEF Pending
  <2>7. /\ req'[p] = r /\ req' \in [Requests -> Slot]
        /\ \A q \in Requests \ {p} : req'[q] = req[q]
    BY <2>6, StartSlot
  <2>8. /\ r.phase = "count" /\ r.kind = req[p].kind /\ r.it = req[p].it /\ r.to = req[p].to
        /\ r.counts = req[p].counts \ {c} /\ r.empty = b
    BY <2>1, <2>5 DEF Pending
  <2>9. UNCHANGED <<folder, item, overlaps>>
    BY <1>3 DEF Count
  <2>. QED  BY <1>3, <2>1, <2>4, <2>7, <2>8, <2>9 DEF Busy, At
<1>. QED
  BY <1>1, <1>2, <1>3 DEF Statement, Write, DestroyFolder

-----------------------------------------------------------------------------
(* What the steps write                                                    *)

LEMMA StepCases ==
  ASSUME TypeOK, NEW p \in Requests, NewRequest(p) \/ Statement(p) \/ FailRequest(p)
  PROVE  \/ NewRequest(p)
         \/ Statement(p) /\ ~Answer(p)
         \/ Answer(p) /\ UNCHANGED <<folder, item, overlaps>>
         \/ Write(p)
         \/ DestroyFolder(p) /\ req[p].empty
BY DEF Statement, CheckPlace, Walk, Count, DestroyFolder, FailRequest

LEMMA WriteRows ==
  ASSUME TypeOK, NEW p \in Requests, Fits(p), Write(p)
  PROVE  /\ Answer(p) /\ Busy(p)
         /\ overlaps' = overlaps \cup MovesOverlap(p) \cup PlaceOverlap(p)
         /\ folder' \in [Folders -> Row] /\ item' \in [Items -> Row]
         /\ req[p].kind # "deleteFolder" /\ req[p].to \in Places
         /\ \/ /\ req[p].kind = "createFolder" /\ req[p].it \in Folders
               /\ folder'[req[p].it].state = "live" /\ folder'[req[p].it].in = req[p].to
               /\ \A g \in Folders \ {req[p].it} : folder'[g] = folder[g]
               /\ UNCHANGED item
            \/ /\ req[p].kind = "moveFolder" /\ req[p].it \in Folders
               /\ folder'[req[p].it].state = folder[req[p].it].state
               /\ folder'[req[p].it].in = req[p].to
               /\ \A g \in Folders \ {req[p].it} : folder'[g] = folder[g]
               /\ UNCHANGED item
            \/ /\ req[p].kind \in {"createItem", "moveItem"} /\ UNCHANGED folder
               /\ \A x \in Items :
                    item'[x] = item[x] \/ (x = req[p].it /\ item'[x].in = req[p].to)
<1>1. /\ req[p] \in Pending /\ req[p].phase = "write" /\ Busy(p) /\ req[p].to \in Places
      /\ req[p].it \in IF req[p].kind \in FolderKinds THEN Folders ELSE Items
      /\ req[p].kind # "deleteFolder"
  BY BusySlot DEF Write, At, Fits
<1>2. /\ Answer(p) /\ overlaps' = overlaps \cup MovesOverlap(p) \cup PlaceOverlap(p)
  BY DEF Write
<1>3. CASE req[p].kind = "createFolder"
  <2>1. /\ folder' = [folder EXCEPT ![req[p].it] = [state |-> "live", in |-> req[p].to]]
        /\ UNCHANGED item
    BY <1>3 DEF Write
  <2>. QED  BY <1>1, <1>2, <1>3, <2>1 DEF TypeOK, Row, FolderKinds
<1>4. CASE req[p].kind = "moveFolder"
  <2>1. folder' = [folder EXCEPT ![req[p].it].in = req[p].to] /\ UNCHANGED item
    BY <1>4 DEF Write
  <2>. QED  BY <1>1, <1>2, <1>4, <2>1 DEF TypeOK, Row, FolderKinds
<1>5. CASE req[p].kind = "createItem"
  <2>1. /\ item' = [item EXCEPT ![req[p].it] = [state |-> "live", in |-> req[p].to]]
        /\ UNCHANGED folder
    BY <1>5 DEF Write
  <2>. QED  BY <1>1, <1>2, <1>5, <2>1 DEF TypeOK, Row, FolderKinds
<1>6. CASE req[p].kind = "moveItem"
  <2>1. item' = [item EXCEPT ![req[p].it].in = req[p].to] /\ UNCHANGED folder
    BY <1>6 DEF Write
  <2>. QED  BY <1>1, <1>2, <1>6, <2>1 DEF TypeOK, Row, FolderKinds
<1>. QED  BY <1>3, <1>4, <1>5, <1>6 DEF Write

LEMMA DestroyRows ==
  ASSUME TypeOK, NEW p \in Requests, Fits(p), DestroyFolder(p), req[p].empty
  PROVE  /\ Answer(p) /\ Busy(p) /\ At(p, "count") /\ req[p].counts = {}
         /\ overlaps' = overlaps \cup DeleteOverlap(p)
         /\ folder' \in [Folders -> Row] /\ UNCHANGED item
         /\ req[p].kind = "deleteFolder" /\ req[p].it \in Folders
         /\ folder'[req[p].it].state = "deleted"
         /\ folder'[req[p].it].in = folder[req[p].it].in
         /\ \A g \in Folders \ {req[p].it} : folder'[g] = folder[g]
<1>1. /\ Busy(p) /\ At(p, "count") /\ req[p].kind = "deleteFolder" /\ req[p].it \in Folders
      /\ req[p].counts = {}
  BY DEF DestroyFolder, Fits, At, Busy, FolderKinds
<1>2. /\ folder' = [folder EXCEPT ![req[p].it].state = "deleted"]
      /\ overlaps' = overlaps \cup DeleteOverlap(p) /\ Answer(p) /\ UNCHANGED item
  BY DEF DestroyFolder
<1>. QED  BY <1>1, <1>2 DEF TypeOK, Row

LEMMA StepTypes ==
  ASSUME TypeOK, NEW p \in Requests, Fits(p),
         NewRequest(p) \/ Statement(p) \/ FailRequest(p)
  PROVE  TypeOK'
<1>1. CASE NewRequest(p)
  BY <1>1, NewSlot DEF TypeOK, Slot
<1>2. CASE Statement(p) /\ ~Answer(p)
  BY <1>2, StepSlot DEF TypeOK, Slot
<1>3. CASE Answer(p) /\ UNCHANGED <<folder, item, overlaps>>
  BY <1>3, AnswerSlot DEF TypeOK, Slot
<1>4. CASE Write(p)
  BY <1>4, WriteRows, AnswerSlot DEF TypeOK, Slot, MovesOverlap, PlaceOverlap
<1>5. CASE DestroyFolder(p) /\ req[p].empty
  BY <1>5, DestroyRows, AnswerSlot DEF TypeOK, Slot, DeleteOverlap
<1>. QED  BY <1>1, <1>2, <1>3, <1>4, <1>5, StepCases

(* A folder that has been created stays known.                             *)
LEMMA KnownKept ==
  ASSUME TypeOK, NEW p \in Requests, Fits(p),
         NewRequest(p) \/ Statement(p) \/ FailRequest(p)
  PROVE  /\ \A f \in Folders : folder[f].state # "none" => folder'[f].state # "none"
         /\ \A f \in Folders : folder[f].state = "none" /\ folder'[f].state # "none" =>
              Write(p) /\ req[p].kind = "createFolder" /\ req[p].it = f
<1>1. CASE UNCHANGED folder
  BY <1>1
<1>2. CASE Write(p)
  BY <1>2, WriteRows DEF Fits, Busy
<1>3. CASE DestroyFolder(p) /\ req[p].empty
  BY <1>3, DestroyRows DEF Fits
<1>. QED  BY <1>1, <1>2, <1>3, StepCases, NewSlot, StepSlot

LEMMA OtherSlots ==
  ASSUME TypeOK, NEW p \in Requests, Fits(p),
         NewRequest(p) \/ Statement(p) \/ FailRequest(p)
  PROVE  \A q \in Requests \ {p} : req'[q] = req[q]
BY StepCases, NewSlot, StepSlot, AnswerSlot, WriteRows, DestroyRows

-----------------------------------------------------------------------------
LEMMA StepRows ==
  ASSUME TypeOK, Rows, NEW p \in Requests, NewRequest(p) \/ Statement(p) \/ FailRequest(p)
  PROVE  Rows'
<1>0. Fits(p) /\ \A q \in Requests : Fits(q)
  BY DEF Rows
<1>1. \A q \in Requests \ {p} : req'[q] = req[q]
  BY <1>0, OtherSlots
<1>2. \A f \in Folders : folder[f].state # "none" => folder'[f].state # "none"
  BY <1>0, KnownKept
<1>3. \A f \in Folders : folder[f].state = "none" /\ folder'[f].state # "none" =>
        Write(p) /\ req[p].kind = "createFolder" /\ req[p].it = f
  BY <1>0, KnownKept
<1>4. ASSUME NEW q \in Requests \ {p}, Busy(q)
      PROVE  /\ req[q].it \in IF req[q].kind \in FolderKinds THEN Folders ELSE Items
             /\ req[q].kind \in {"moveFolder", "deleteFolder"} =>
                  folder'[req[q].it].state # "none"
             /\ req[q].kind = "createFolder" => folder'[req[q].it].state = "none"
             /\ req[q].phase \in {"walk", "write"} => Known(req[q].to)'
  <2>1. req[q].to \in Places
    BY <1>4, BusySlot
  <2>2. Write(p) => Busy(p)
    BY DEF Write, Busy, At
  <2>3. req[q].it \in IF req[q].kind \in FolderKinds THEN Folders ELSE Items
    BY <1>0, <1>4 DEF Fits
  <2>4. req[q].kind \in {"moveFolder", "deleteFolder"} => folder'[req[q].it].state # "none"
    BY <1>0, <1>2, <1>4, <2>3 DEF Fits, FolderKinds
  <2>5. req[q].kind = "createFolder" => folder'[req[q].it].state = "none"
    BY <1>0, <1>3, <1>4, <2>2, <2>3 DEF Fits, FolderKinds
  <2>6. req[q].phase \in {"walk", "write"} => Known(req[q].to)'
    <3>1. SUFFICES ASSUME req[q].phase \in {"walk", "write"}, req[q].to # Root
                   PROVE  folder'[req[q].to].state # "none"
      BY <1>1 DEF Known
    <3>2. req[q].to \in Folders /\ folder[req[q].to].state # "none"
      BY <1>0, <1>4, <2>1, <3>1 DEF Fits, Known, Places
    <3>. QED  BY <1>2, <3>2
  <2>. QED  BY <2>3, <2>4, <2>5, <2>6
<1>5. ASSUME NEW q \in Requests \ {p}
      PROVE  Fits(q)'
  <2>1. SUFFICES ASSUME Busy(q)  PROVE Fits(q)'
    BY <1>1, <1>5 DEF Fits, Busy, At
  <2>2. ASSUME req[q].kind = "createFolder", Busy(p)', req'[p].kind = "createFolder"
        PROVE  req'[p].it # req[q].it
    <3>1. CASE NewRequest(p)
      BY <2>1, <2>2, <3>1, NewSlot
    <3>2. CASE Statement(p) /\ ~Answer(p)
      BY <1>0, <2>1, <2>2, <3>2, StepSlot DEF Fits
    <3>3. CASE Answer(p)
      BY <2>2, <3>3, AnswerSlot DEF Busy, At
    <3>. QED  BY <1>0, <3>1, <3>2, <3>3, StepCases, WriteRows, DestroyRows
  <2>. QED  BY <1>0, <1>1, <1>4, <2>1, <2>2 DEF Fits, Busy, At
<1>6. Fits(p)'
  <2>1. CASE NewRequest(p)
    <3>1. /\ Busy(p)' /\ UNCHANGED folder
          /\ \A q \in Requests \ {p} : req'[q] = req[q]
          /\ req'[p].it \in IF req'[p].kind \in FolderKinds THEN Folders ELSE Items
          /\ req'[p].kind = "createFolder" =>
               /\ folder[req'[p].it].state = "none"
               /\ \A q \in Requests : Busy(q) => req[q].it # req'[p].it
          /\ req'[p].kind \in {"moveFolder", "deleteFolder"} =>
               folder[req'[p].it].state # "none"
          /\ req'[p].kind # "deleteFolder" =>
               req'[p].to \in Places /\ req'[p].phase = CheckPhase(req'[p].to)
          /\ req'[p].kind = "deleteFolder" => req'[p].phase = "count"
      BY <2>1, NewSlot
    <3>. QED  BY <3>1 DEF Fits, Busy, At, CheckPhase, Known, Places
  <2>2. CASE Statement(p) /\ ~Answer(p)
    <3>1. /\ Busy(p) /\ UNCHANGED folder
          /\ req'[p].kind = req[p].kind /\ req'[p].it = req[p].it /\ req'[p].to = req[p].to
      BY <2>2, StepSlot
    <3>2. /\ req'[p].phase = "count" <=> req[p].kind = "deleteFolder"
          /\ req'[p].phase # "checkPlace"
          /\ req'[p].phase = "walk" => req[p].kind = "moveFolder" /\ req'[p].at \in Folders
          /\ req'[p].phase \in {"walk", "write"} => Known(req[p].to)
      <4>1. CASE CheckPlace(p)
        <5>1. /\ req[p].phase = "checkPlace" /\ folder[req[p].to].state # "none"
              /\ req[p].to \in Folders /\ req[p].kind # "deleteFolder"
          <6>1. FolderLive(req[p].to) /\ req[p].phase = "checkPlace"
            BY <2>2, <4>1 DEF CheckPlace, At
          <6>. QED  BY <1>0, <3>1, <6>1 DEF Fits, At, FolderLive
        <5>2. /\ ~Walk(p) /\ ~Count(p)
          BY <5>1 DEF Walk, Count, At
        <5>. QED  BY <2>2, <5>1, <5>2, StepSlot DEF Known
      <4>2. CASE Walk(p)
        <5>1. /\ req[p].phase = "walk" /\ ~CheckPlace(p) /\ ~Count(p)
          BY <4>2 DEF Walk, CheckPlace, Count, At
        <5>. QED  BY <1>0, <2>2, <3>1, <5>1, StepSlot DEF Fits, At
      <4>3. CASE Count(p)
        <5>1. /\ req[p].phase = "count" /\ ~CheckPlace(p) /\ ~Walk(p)
          BY <4>3 DEF Walk, CheckPlace, Count, At
        <5>. QED  BY <1>0, <2>2, <3>1, <5>1, StepSlot DEF Fits, At
      <4>. QED  BY <2>2, <4>1, <4>2, <4>3, StepSlot
    <3>. QED  BY <1>0, <1>1, <3>1, <3>2 DEF Fits, Busy, At, Known
  <2>3. CASE Answer(p)
    BY <2>3, AnswerSlot DEF Fits, Busy, At
  <2>. QED  BY <1>0, <2>1, <2>2, <2>3, StepCases, WriteRows, DestroyRows
<1>7. ASSUME NEW f \in Folders, folder'[f].state # "none"
      PROVE  Known(folder[f].in)'
  <2>1. CASE folder'[f].in = folder[f].in /\ folder[f].state # "none"
    <3>1. folder[f].in \in Places /\ Known(folder[f].in)
      BY <2>1 DEF Rows, TypeOK, Row
    <3>. QED  BY <1>2, <2>1, <3>1 DEF Known, Places
  <2>2. CASE Write(p) /\ folder'[f].in = req[p].to
    <3>1. req[p].phase = "write" /\ Busy(p)
      BY <2>2 DEF Write, At, Busy
    <3>2. Known(req[p].to) /\ req[p].to \in Places
      BY <1>0, <3>1, BusySlot DEF Fits
    <3>. QED  BY <1>2, <2>2, <3>2 DEF Known, Places
  <2>3. CASE UNCHANGED folder
    BY <1>7, <2>1, <2>3
  <2>4. CASE Write(p)
    BY <1>0, <1>7, <2>1, <2>2, <2>4, WriteRows
  <2>5. CASE DestroyFolder(p) /\ req[p].empty
    <3>1. /\ req[p].it \in Folders /\ req[p].kind = "deleteFolder" /\ Busy(p)
          /\ folder'[f].in = folder[f].in
          /\ f # req[p].it => folder'[f] = folder[f]
      BY <1>0, <2>5, DestroyRows
    <3>2. folder[req[p].it].state # "none"
      BY <1>0, <3>1 DEF Fits
    <3>. QED  BY <1>7, <2>1, <3>1, <3>2
  <2>. QED  BY <2>3, <2>4, <2>5, StepCases, NewSlot, StepSlot
<1>. QED  BY <1>5, <1>6, <1>7 DEF Rows

-----------------------------------------------------------------------------
(* Moves one at a time                                                     *)

(* Folders of which each has its parent among them.                        *)
Cycle(S) == /\ S \subseteq {f \in Folders : FolderLive(f)} /\ S # {}
            /\ \A f \in S : folder[f].in \in S

LEMMA AcyclicMeans == Acyclic <=> \A S \in SUBSET Folders : ~Cycle(S)
BY DEF Acyclic, Cycle

(* While one request moves a folder no other writes a parent.              *)
LEMMA ParentsKept ==
  ASSUME TypeOK, Rows, NEW p \in Requests, NewRequest(p) \/ Statement(p) \/ FailRequest(p),
         NEW q \in Requests \ {p}, Moving(q), "moves" \notin overlaps',
         NEW g \in Folders, folder[g].state # "none"
  PROVE  folder'[g].in = folder[g].in /\ folder'[g].state # "none"
<1>0. Fits(p)
  BY DEF Rows
<1>1. folder'[g].state # "none"
  BY <1>0, KnownKept
<1>2. CASE UNCHANGED folder
  BY <1>1, <1>2
<1>3. CASE Write(p)
  <2>1. ~Moving(p)
    BY <1>0, <1>3, WriteRows DEF MovesOverlap
  <2>2. req[p].kind # "moveFolder"
    BY <1>0, <1>3, <2>1, WriteRows DEF Moving
  <2>3. req[p].kind = "createFolder" => g # req[p].it
    BY <1>0, <1>3, WriteRows DEF Fits
  <2>. QED  BY <1>0, <1>1, <1>3, <2>2, <2>3, WriteRows
<1>4. CASE DestroyFolder(p) /\ req[p].empty
  BY <1>0, <1>1, <1>4, DestroyRows
<1>. QED  BY <1>0, <1>2, <1>3, <1>4, StepCases, NewSlot, StepSlot

LEMMA OthersWalked ==
  ASSUME TypeOK, Rows, NEW p \in Requests, NewRequest(p) \/ Statement(p) \/ FailRequest(p),
         NEW q \in Requests \ {p}, Walked(q), "moves" \notin overlaps'
  PROVE  Walked(q)'
<1>1. req'[q] = req[q]
  BY OtherSlots DEF Rows
<1>2. SUFFICES ASSUME Moving(q)  PROVE Walked(q)'
  BY <1>1 DEF Walked, Moving, Busy, At
<1>3. \A g \in Folders : folder[g].state # "none" =>
        folder'[g].in = folder[g].in /\ folder'[g].state # "none"
  BY <1>2, ParentsKept
<1>4. ASSUME req[q].phase \in {"walk", "write"}
      PROVE  \E seen \in SUBSET (Folders \ {req[q].it}) :
               /\ req[q].to \in seen \cup {req[q].at}
               /\ \A g \in seen : /\ folder'[g].state # "none"
                                  /\ folder'[g].in \in seen \cup {req[q].at}
  <2>1. PICK seen \in SUBSET (Folders \ {req[q].it}) :
          /\ req[q].to \in seen \cup {req[q].at}
          /\ \A g \in seen : /\ folder[g].state # "none"
                             /\ folder[g].in \in seen \cup {req[q].at}
    BY <1>2, <1>4 DEF Walked
  <2>2. \A g \in seen : /\ folder'[g].state # "none"
                        /\ folder'[g].in \in seen \cup {req[q].at}
    BY <1>3, <2>1
  <2>. QED  BY <2>1, <2>2
<1>. QED  BY <1>1, <1>2, <1>4 DEF Walked, Moving, Busy, At

(* The walk adds the folder it has read to those it has seen.              *)
LEMMA StepWalked ==
  ASSUME TypeOK, Rows, NEW p \in Requests, NewRequest(p) \/ Statement(p) \/ FailRequest(p),
         Walked(p)
  PROVE  Walked(p)'
<1>0. Fits(p)
  BY DEF Rows
<1>1. CASE NewRequest(p)
  <2>1. SUFFICES ASSUME req'[p].kind = "moveFolder"  PROVE Walked(p)'
    BY DEF Walked, Moving
  <2>2. /\ req'[p].to # req'[p].it /\ req'[p].at = Root
        /\ req'[p].phase = CheckPhase(req'[p].to)
    BY <1>1, <2>1, NewSlot
  <2>3. /\ req'[p].phase # "walk"
        /\ req'[p].phase = "write" => req'[p].to \in {} \cup {req'[p].at}
    BY <2>2 DEF CheckPhase
  <2>4. {} \in SUBSET (Folders \ {req'[p].it})
    OBVIOUS
  <2>. QED  BY <2>2, <2>3, <2>4 DEF Walked, At
<1>2. CASE Statement(p) /\ ~Answer(p)
  <2>1. SUFFICES ASSUME req[p].kind = "moveFolder"  PROVE Walked(p)'
    BY <1>2, StepSlot DEF Walked, Moving
  <2>2. /\ Busy(p) /\ Moving(p) /\ UNCHANGED folder
        /\ req'[p].kind = req[p].kind /\ req'[p].it = req[p].it /\ req'[p].to = req[p].to
        /\ req[p].to # req[p].it
    BY <1>2, <2>1, StepSlot DEF Moving, Walked
  <2>3. CASE CheckPlace(p)
    <3>1. req[p].phase = "checkPlace" /\ ~Walk(p) /\ ~Count(p)
      BY <2>3 DEF CheckPlace, Walk, Count, At
    <3>2. req'[p].phase = "walk" /\ req'[p].at = req[p].to
      BY <1>2, <2>1, <3>1, StepSlot
    <3>3. {} \in SUBSET (Folders \ {req[p].it}) /\ req[p].to \in {} \cup {req'[p].at}
      BY <3>2
    <3>. QED  BY <2>2, <3>2, <3>3 DEF Walked, At
  <2>4. CASE Walk(p)
    <3>1. /\ req[p].phase = "walk" /\ ~CheckPlace(p) /\ ~Count(p)
          /\ req[p].at \in Folders /\ req[p].at # req[p].it
      BY <1>0, <2>2, <2>4 DEF CheckPlace, Walk, Count, At, Fits, Walked
    <3>2. /\ FolderLive(req[p].at) /\ req'[p].at = folder[req[p].at].in
          /\ \/ req'[p].phase = "write" /\ req'[p].at = Root
             \/ req'[p].phase = "walk" /\ req'[p].at # req[p].it
      BY <1>2, <3>1, StepSlot
    <3>3. PICK seen \in SUBSET (Folders \ {req[p].it}) :
            /\ req[p].to \in seen \cup {req[p].at}
            /\ \A g \in seen : /\ folder[g].state # "none"
                               /\ folder[g].in \in seen \cup {req[p].at}
      BY <2>2, <3>1 DEF Walked
    <3>4. PICK more \in SUBSET (Folders \ {req[p].it}) : more = seen \cup {req[p].at}
      BY <3>1, <3>3
    <3>5. /\ req[p].to \in more \cup {req'[p].at}
          /\ \A g \in more : /\ folder[g].state # "none"
                             /\ folder[g].in \in more \cup {req'[p].at}
      BY <3>2, <3>3, <3>4 DEF FolderLive
    <3>. QED  BY <2>2, <3>2, <3>5 DEF Walked, At
  <2>5. CASE Count(p)
    BY <1>0, <2>1, <2>2, <2>5 DEF Count, At, Fits
  <2>. QED  BY <1>2, <2>3, <2>4, <2>5, StepSlot
<1>3. CASE Answer(p)
  BY <1>3, AnswerSlot DEF Walked, Moving, Busy, At
<1>. QED  BY <1>0, <1>1, <1>2, <1>3, StepCases, WriteRows, DestroyRows

LEMMA StepAcyclic ==
  ASSUME TypeOK, Rows, Acyclic, NEW p \in Requests, Walked(p),
         NewRequest(p) \/ Statement(p) \/ FailRequest(p)
  PROVE  Acyclic'
<1>0. Fits(p) /\ \A S \in SUBSET Folders : ~Cycle(S)
  BY AcyclicMeans DEF Rows
<1>1. SUFFICES ASSUME NEW S \in SUBSET Folders, Cycle(S)'
               PROVE  FALSE
  BY DEF Acyclic, Cycle
<1>2. /\ S # {} /\ \A f \in S : folder'[f].state = "live" /\ folder'[f].in \in S
  BY <1>1 DEF Cycle, FolderLive
<1>3. ~UNCHANGED folder
  BY <1>0, <1>2 DEF Cycle, FolderLive
<1>4. CASE DestroyFolder(p) /\ req[p].empty
  <2>1. \A f \in S : folder'[f] = folder[f]
    BY <1>0, <1>2, <1>4, DestroyRows
  <2>. QED  BY <1>0, <1>2, <2>1 DEF Cycle, FolderLive
<1>5. CASE Write(p)
  <2>0. /\ req[p].phase = "write" /\ Busy(p) /\ req[p].to \in Places /\ Known(req[p].to)
    BY <1>0, <1>5, BusySlot DEF Write, At, Fits, Busy
  <2>1. PICK f \in Folders : f = req[p].it
    BY <1>0, <1>3, <1>5, WriteRows
  <2>2. /\ \A g \in Folders \ {f} : folder'[g] = folder[g]
        /\ folder'[f].in = req[p].to
    BY <1>0, <1>3, <1>5, <2>1, WriteRows
  <2>3. f \in S
    BY <1>0, <1>2, <2>2 DEF Cycle, FolderLive
  <2>4. req[p].to \in S
    BY <1>2, <2>2, <2>3
  <2>5. CASE req[p].kind = "createFolder"
    <3>1. folder[f].state = "none"
      BY <1>0, <2>0, <2>1, <2>5 DEF Fits
    <3>2. req[p].to # f
      BY <2>0, <3>1, FoldersAssumption DEF Known
    <3>3. ASSUME NEW g \in S \ {f}
          PROVE  folder[g].state = "live" /\ folder[g].in \in S \ {f}
      <4>1. folder[g].state = "live" /\ folder[g].in \in S
        BY <1>2, <2>2, <3>3
      <4>2. Known(folder[g].in)
        BY <4>1 DEF Rows
      <4>. QED  BY <3>1, <4>1, <4>2, FoldersAssumption DEF Known
    <3>4. Cycle(S \ {f})
      BY <2>4, <3>2, <3>3 DEF Cycle, FolderLive
    <3>. QED  BY <1>0, <3>4
  <2>6. CASE req[p].kind = "moveFolder"
    <3>1. PICK seen \in SUBSET (Folders \ {f}) :
            /\ req[p].to \in seen \cup {Root}
            /\ \A g \in seen : folder[g].in \in seen \cup {Root}
      BY <2>0, <2>1, <2>6 DEF Walked, Moving, At
    <3>2. ASSUME NEW g \in S \cap seen
          PROVE  folder[g].state = "live" /\ folder[g].in \in S \cap seen
      BY <1>2, <2>2, <3>1, <3>2, FoldersAssumption
    <3>3. req[p].to \in S \cap seen
      BY <2>4, <3>1, FoldersAssumption
    <3>4. Cycle(S \cap seen)
      BY <3>2, <3>3 DEF Cycle, FolderLive
    <3>. QED  BY <1>0, <3>4
  <2>. QED  BY <1>0, <1>3, <1>5, <2>5, <2>6, WriteRows
<1>. QED  BY <1>3, <1>4, <1>5, StepCases, NewSlot, StepSlot

LEMMA StepWalks ==
  ASSUME TypeOK, Rows, Walks, NEW p \in Requests,
         NewRequest(p) \/ Statement(p) \/ FailRequest(p)
  PROVE  Walks'
<1>1. Fits(p)
  BY DEF Rows
<1>2. overlaps \subseteq overlaps'
  BY <1>1, StepCases, NewSlot, StepSlot, WriteRows, DestroyRows
<1>3. CASE "moves" \in overlaps'
  BY <1>3 DEF Walks
<1>4. CASE "moves" \notin overlaps'
  <2>1. Acyclic /\ \A q \in Requests : Walked(q)
    BY <1>2, <1>4 DEF Walks
  <2>. QED  BY <1>4, <2>1, OthersWalked, StepWalked, StepAcyclic DEF Walks
<1>. QED  BY <1>3, <1>4

-----------------------------------------------------------------------------
(* Deletions without overlap                                               *)

(* What a step puts in a folder it puts where its request says.            *)
LEMMA PutWhere ==
  ASSUME TypeOK, Rows, NEW p \in Requests, NewRequest(p) \/ Statement(p) \/ FailRequest(p)
  PROVE  /\ \A g \in Folders : FolderLive(g)' =>
              \/ FolderLive(g) /\ folder'[g].in = folder[g].in
              \/ Write(p) /\ folder'[g].in = req[p].to
         /\ \A x \in Items : ItemLive(x)' =>
              \/ ItemLive(x) /\ item'[x].in = item[x].in
              \/ Write(p) /\ item'[x].in = req[p].to
         /\ \A g \in Folders : FolderLive(g) /\ ~FolderLive(g)' =>
              DestroyFolder(p) /\ req[p].empty /\ req[p].it = g
<1>0. Fits(p)
  BY DEF Rows
<1>1. CASE UNCHANGED <<folder, item>>
  BY <1>1 DEF FolderLive, ItemLive
<1>2. CASE Write(p)
  BY <1>0, <1>2, WriteRows DEF FolderLive, ItemLive
<1>3. CASE DestroyFolder(p) /\ req[p].empty
  BY <1>0, <1>3, DestroyRows DEF FolderLive, ItemLive
<1>. QED  BY <1>1, <1>2, <1>3, StepCases, NewSlot, StepSlot

(* Had p met the deletion or the placing of q, it would be recorded.       *)
LEMMA OthersChecked ==
  ASSUME TypeOK, Rows, NEW p \in Requests, NewRequest(p) \/ Statement(p) \/ FailRequest(p),
         NEW q \in Requests \ {p}, Checked(q), "delete" \notin overlaps'
  PROVE  Checked(q)'
<1>0. Fits(p) /\ Fits(q) /\ req'[q] = req[q]
  BY OtherSlots DEF Rows
<1>1. SUFFICES ASSUME Busy(q)  PROVE Checked(q)'
  BY <1>0 DEF Checked, Busy, At
<1>2. ASSUME req[q].phase \in {"walk", "write"}, req[q].to # Root
      PROVE  FolderLive(req[q].to)'
  <2>1. FolderLive(req[q].to) /\ req[q].to \in Folders /\ Placing(q)
    BY <1>0, <1>1, <1>2, BusySlot DEF Checked, Places, Placing, Fits, At
  <2>2. ~(DestroyFolder(p) /\ req[p].empty /\ req[p].it = req[q].to)
    BY <1>0, <2>1, DestroyRows DEF DeleteOverlap
  <2>. QED  BY <1>0, <2>1, <2>2, PutWhere DEF FolderLive
<1>3. ASSUME At(q, "count")
      PROVE  ~(Write(p) /\ req[p].to = req[q].it)
  BY <1>0, <1>1, <1>3, WriteRows DEF PlaceOverlap, Fits
<1>4. ASSUME At(q, "count"), NoFolderIn(req[q].it)
      PROVE  NoFolderIn(req[q].it)'
  <2>1. \A g \in Folders : FolderLive(g)' => folder'[g].in # req[q].it
    BY <1>3, <1>4, PutWhere DEF NoFolderIn
  <2>. QED  BY <1>0, <2>1 DEF NoFolderIn, FolderLive
<1>5. ASSUME At(q, "count"), NoItemIn(req[q].it)
      PROVE  NoItemIn(req[q].it)'
  <2>1. \A x \in Items : ItemLive(x)' => item'[x].in # req[q].it
    BY <1>3, <1>5, PutWhere DEF NoItemIn
  <2>. QED  BY <1>0, <2>1 DEF NoItemIn, ItemLive
<1>. QED  BY <1>0, <1>1, <1>2, <1>4, <1>5 DEF Checked, Busy, At

LEMMA StepChecked ==
  ASSUME TypeOK, Rows, NEW p \in Requests, NewRequest(p) \/ Statement(p) \/ FailRequest(p),
         Checked(p)
  PROVE  Checked(p)'
<1>0. Fits(p)
  BY DEF Rows
<1>1. CASE NewRequest(p)
  BY <1>1, NewSlot DEF Checked, At, CheckPhase
<1>2. CASE Statement(p) /\ ~Answer(p)
  <2>1. /\ Busy(p) /\ UNCHANGED <<folder, item>>
        /\ req'[p].kind = req[p].kind /\ req'[p].it = req[p].it /\ req'[p].to = req[p].to
    BY <1>2, StepSlot
  <2>2. CASE CheckPlace(p)
    <3>1. req[p].phase = "checkPlace" /\ FolderLive(req[p].to) /\ ~Walk(p) /\ ~Count(p)
      BY <1>2, <2>2 DEF CheckPlace, Walk, Count, At
    <3>2. req'[p].phase \in {"walk", "write"}
      BY <1>2, <3>1, StepSlot
    <3>. QED  BY <2>1, <3>1, <3>2 DEF Checked, At, FolderLive
  <2>3. CASE Walk(p)
    <3>1. req[p].phase = "walk" /\ ~CheckPlace(p) /\ ~Count(p)
      BY <2>3 DEF CheckPlace, Walk, Count, At
    <3>2. req'[p].phase \in {"walk", "write"}
      BY <1>2, <3>1, StepSlot
    <3>. QED  BY <2>1, <3>1, <3>2 DEF Checked, At, FolderLive
  <2>4. CASE Count(p)
    <3>1. req[p].phase = "count" /\ ~CheckPlace(p) /\ ~Walk(p)
      BY <2>4 DEF CheckPlace, Walk, Count, At
    <3>2. PICK c \in {"folders", "items"} :
            /\ req'[p].counts = req[p].counts \ {c}
            /\ req'[p].empty => /\ req[p].empty
                                /\ c = "folders" => NoFolderIn(req[p].it)
                                /\ c = "items" => NoItemIn(req[p].it)
      BY <1>2, <3>1, StepSlot
    <3>3. req'[p].phase = "count"
      BY <1>2, <3>1, StepSlot
    <3>. QED
      BY <2>1, <3>1, <3>2, <3>3
      DEF Checked, At, NoFolderIn, NoItemIn, FolderLive, ItemLive
  <2>. QED  BY <1>2, <2>2, <2>3, <2>4, StepSlot
<1>3. CASE Answer(p)
  BY <1>3, AnswerSlot DEF Checked, Busy, At
<1>. QED  BY <1>0, <1>1, <1>2, <1>3, StepCases, WriteRows, DestroyRows

LEMMA StepPlaced ==
  ASSUME TypeOK, Rows, AllPlaced, NEW p \in Requests, Checked(p),
         NewRequest(p) \/ Statement(p) \/ FailRequest(p)
  PROVE  AllPlaced'
<1>0. Fits(p)
  BY DEF Rows
<1>1. Write(p) => req[p].to = Root \/ FolderLive(req[p].to)
  BY DEF Write, Checked, Busy, At
<1>2. Write(p) => ~DestroyFolder(p)
  BY DEF Write, DestroyFolder, At
<1>3. DestroyFolder(p) /\ req[p].empty => NoFolderIn(req[p].it) /\ NoItemIn(req[p].it)
  BY <1>0, DestroyRows DEF Checked
<1>4. req[p] \in Pending => req[p].to \in Places
  BY BusySlot
<1>5. Write(p) => req[p].to \in Places
  BY <1>4, BusySlot DEF Write, Busy, At
<1>6. ASSUME NEW g \in Folders, FolderLive(g)', folder'[g].in # Root
      PROVE  FolderLive(folder[g].in)'
  <2>1. CASE FolderLive(g) /\ folder'[g].in = folder[g].in
    <3>1. folder[g].in \in Folders /\ FolderLive(folder[g].in)
      BY <1>6, <2>1 DEF AllPlaced, TypeOK, Row, Places
    <3>2. ~(DestroyFolder(p) /\ req[p].empty /\ req[p].it = folder[g].in)
      BY <1>3, <2>1 DEF NoFolderIn
    <3>. QED  BY <2>1, <3>1, <3>2, PutWhere DEF FolderLive
  <2>2. CASE Write(p) /\ folder'[g].in = req[p].to
    <3>1. req[p].to \in Folders /\ FolderLive(req[p].to)
      BY <1>1, <1>5, <1>6, <2>2 DEF Places
    <3>. QED  BY <1>2, <2>2, <3>1, PutWhere DEF FolderLive
  <2>. QED  BY <1>6, <2>1, <2>2, PutWhere
<1>7. ASSUME NEW x \in Items, ItemLive(x)', item'[x].in # Root
      PROVE  FolderLive(item[x].in)'
  <2>1. CASE ItemLive(x) /\ item'[x].in = item[x].in
    <3>1. item[x].in \in Folders /\ FolderLive(item[x].in)
      BY <1>7, <2>1 DEF AllPlaced, TypeOK, Row, Places
    <3>2. ~(DestroyFolder(p) /\ req[p].empty /\ req[p].it = item[x].in)
      BY <1>3, <2>1 DEF NoItemIn
    <3>. QED  BY <2>1, <3>1, <3>2, PutWhere DEF FolderLive
  <2>2. CASE Write(p) /\ item'[x].in = req[p].to
    <3>1. req[p].to \in Folders /\ FolderLive(req[p].to)
      BY <1>1, <1>5, <1>7, <2>2 DEF Places
    <3>. QED  BY <1>2, <2>2, <3>1, PutWhere DEF FolderLive
  <2>. QED  BY <1>7, <2>1, <2>2, PutWhere
<1>. QED  BY <1>6, <1>7 DEF AllPlaced

LEMMA StepDeletions ==
  ASSUME TypeOK, Rows, Deletions, NEW p \in Requests,
         NewRequest(p) \/ Statement(p) \/ FailRequest(p)
  PROVE  Deletions'
<1>1. Fits(p)
  BY DEF Rows
<1>2. overlaps \subseteq overlaps'
  BY <1>1, StepCases, NewSlot, StepSlot, WriteRows, DestroyRows
<1>3. CASE "delete" \in overlaps'
  BY <1>3 DEF Deletions
<1>4. CASE "delete" \notin overlaps'
  <2>1. AllPlaced /\ \A q \in Requests : Checked(q)
    BY <1>2, <1>4 DEF Deletions
  <2>. QED  BY <1>4, <2>1, OthersChecked, StepChecked, StepPlaced DEF Deletions
<1>. QED  BY <1>3, <1>4

-----------------------------------------------------------------------------
LEMMA DeleteItemStep == IInv /\ DeleteItem => IInv'
<1>. SUFFICES ASSUME IInv, DeleteItem  PROVE IInv'
  OBVIOUS
<1>1. PICK x \in Items : item' = [item EXCEPT ![x].state = "deleted"]
  BY DEF DeleteItem
<1>2. UNCHANGED <<folder, req, overlaps>>
  BY DEF DeleteItem
<1>3. /\ item' \in [Items -> Row]
      /\ \A y \in Items : item'[y].in = item[y].in /\ (ItemLive(y)' => ItemLive(y))
  <2>1. item \in [Items -> Row]
    BY DEF IInv, TypeOK
  <2>2. item'[x].in = item[x].in /\ item'[x].state = "deleted"
    BY <1>1, <2>1 DEF Row
  <2>3. \A y \in Items \ {x} : item'[y] = item[y]
    BY <1>1, <2>1
  <2>. QED  BY <1>1, <2>1, <2>2, <2>3 DEF Row, ItemLive
<1>4. TypeOK' /\ Rows' /\ Walks'
  <2>1. TypeOK' /\ Rows'
    BY <1>2, <1>3 DEF IInv, TypeOK, Rows, Fits, Known, Busy, At
  <2>2. Walks'
    BY <1>2 DEF IInv, Walks, Walked, Acyclic, FolderLive, Moving, Busy, At
  <2>. QED  BY <2>1, <2>2
<1>5. Deletions'
  BY <1>2, <1>3
  DEF IInv, Deletions, AllPlaced, Checked, NoFolderIn, NoItemIn, FolderLive, Busy, At
<1>. QED  BY <1>4, <1>5 DEF IInv

LEMMA InitIInv == Init => IInv
<1>. SUFFICES ASSUME Init  PROVE IInv
  OBVIOUS
<1>1. TypeOK
  BY DEF Init, TypeOK, Unused, Row, Places
<1>2. /\ \A p \in Requests : req[p].phase = "idle"
      /\ \A f \in Folders : folder[f].state = "none"
      /\ \A x \in Items : item[x].state = "none"
  BY DEF Init, Idle, Unused
<1>3. Rows
  BY <1>2 DEF Rows, Fits, Busy, At
<1>4. Walks
  BY <1>2 DEF Walks, Acyclic, Walked, Moving, Busy, At, FolderLive
<1>5. Deletions
  BY <1>2 DEF Deletions, AllPlaced, Checked, Busy, At, FolderLive, ItemLive
<1>. QED  BY <1>1, <1>3, <1>4, <1>5 DEF IInv

LEMMA Inductive == Spec => []IInv
<1>1. IInv /\ [Next]_vars => IInv'
  <2>1. ASSUME IInv, NEW p \in Requests, NewRequest(p) \/ Statement(p) \/ FailRequest(p)
        PROVE  IInv'
    <3>1. Fits(p)
      BY <2>1 DEF IInv, Rows
    <3>. QED  BY <2>1, <3>1, StepTypes, StepRows, StepWalks, StepDeletions DEF IInv
  <2>2. ASSUME IInv, UNCHANGED vars
        PROVE  IInv'
    BY <2>2
    DEF vars, IInv, TypeOK, Rows, Fits, Known, Walks, Walked, Acyclic, Deletions, AllPlaced,
        Checked, NoFolderIn, NoItemIn, FolderLive, ItemLive, Moving, Busy, At
  <2>. QED  BY <2>1, <2>2, DeleteItemStep DEF Next
<1>. QED  BY <1>1, InitIInv, PTL DEF Spec

(* Every variable keeps its type: the statements of a request come in the  *)
(* order of its kind, and its rows are those of its own table.             *)
THEOREM TypeCorrect == Spec => []TypeOK
<1>1. IInv => TypeOK
  BY DEF IInv
<1>. QED  BY <1>1, Inductive, PTL

(* Until two moves overlap, no folder is above itself: the walk of         *)
(* isFolderDescendant is enough although everything else goes on around    *)
(* it, however many folders there are.                                     *)
THEOREM NoCycleUnlessMovesOverlap == Spec => []AcyclicUnlessMovesOverlap
<1>1. IInv => AcyclicUnlessMovesOverlap
  BY DEF IInv, Walks, AcyclicUnlessMovesOverlap
<1>. QED  BY <1>1, Inductive, PTL

(* What is in a folder is in one that exists, until something is put in a  *)
(* folder while it is deleted: the counts of assertFolderIsEmpty, made in  *)
(* any order, are enough for everything else.                              *)
THEOREM PlacedUnlessDeleteOverlap == Spec => []PlacedUnlessDeleteOverlaps
<1>1. IInv => PlacedUnlessDeleteOverlaps
  BY DEF IInv, Deletions, AllPlaced, PlacedUnlessDeleteOverlaps
<1>. QED  BY <1>1, Inductive, PTL

=============================================================================
