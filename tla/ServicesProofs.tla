---------------------------- MODULE ServicesProofs ----------------------------
(***************************************************************************)
(* Theorems about three of the modules that MCServices checks: Uploads,    *)
(* for every number of parts, FileAccess, for all sets of folders, files,  *)
(* archives and readers, and Sessions, for all sets of sessions, tabs and  *)
(* requests under way; and about LogCollectorClient, the client of the log *)
(* collector in the logger of every process, for any numbers of sockets,   *)
(* attempts, timers and lines.                                             *)
(***************************************************************************)
EXTENDS Uploads, FileAccess, Sessions, LogCollectorClient, FiniteSetTheorems, SequenceTheorems,
        TLAPS

-----------------------------------------------------------------------------
(* Uploads                                                                 *)

(* A path is noted before its file is there.                               *)
Paths ==
  /\ content \subseteq written
  /\ \A p \in Parts :
       /\ part[p] \in {"absent", "mkdir", "opening"} => p \notin content
       /\ part[p] = "opening" => p \in written

(* Nothing is removed but by a clean-up, after which the controller is not *)
(* called; until then every part that is being or was written has its file. *)
FilesKept ==
  /\ removing # {} => phase = "cleaning"
  /\ phase \in {"parsing", "parsed", "called", "answered"} =>
       \A p \in Parts : part[p] \in {"writing", "done"} => p \in content

(* Who has called the controller.                                          *)
Called == phase \in {"called", "answered"} \/ \E p \in Parts : create[p] # "none"

(* The controller is called when all parts have ended, and creates a row   *)
(* for each that is whole.                                                 *)
Controlled ==
  /\ phase = "parsed" \/ Called => \A p \in Parts : part[p] \in {"absent", "done"}
  /\ Called =>
       /\ phase \in {"called", "answered", "rejected"}
       /\ \A p \in Parts : part[p] = "done" <=> create[p] # "none"
       /\ \A p \in Parts : create[p] # "none" => p \in content
  /\ rows = {p \in Parts : create[p] \in {"previewing", "created"}}
  /\ phase = "answered" => \A p \in Parts : create[p] \in {"none", "created"}

(* A clean-up leaves no file that it was to remove.                        *)
FilesCleaned ==
  /\ phase = "cleaning" => content \subseteq removing \cup late
  /\ phase = "rejected" => content \subseteq late \cup {p \in Parts : create[p] # "none"}

UploadInv == UploadTypeOK /\ Paths /\ FilesKept /\ Controlled /\ FilesCleaned

LEMMA InitUploadInv == UploadInit => UploadInv
<1>. SUFFICES ASSUME UploadInit PROVE UploadInv
  OBVIOUS
<1>1. UploadTypeOK
  BY DEF UploadInit, UploadTypeOK, Phases
<1>2. Paths /\ FilesKept /\ FilesCleaned
  BY DEF UploadInit, Paths, FilesKept, FilesCleaned
<1>3. Controlled
  BY DEF UploadInit, Controlled, Called
<1>. QED  BY <1>1, <1>2, <1>3 DEF UploadInv

(* What one part does, or the parser.                                      *)
PartStep(p) ==
  \/ BeginPart(p) \/ DirectoryMade(p) \/ DirectoryFails(p) \/ Opened(p)
  \/ OpenFails(p) \/ Written(p) \/ WriteFails(p)

CreateStep(p) == FolderUsable(p) \/ InsertRow(p) \/ Preview(p) \/ CreateFails(p)

LEMMA UploadTypes == UploadTypeOK /\ UploadNext => UploadTypeOK'
<1>. SUFFICES ASSUME UploadTypeOK, UploadNext PROVE UploadTypeOK'
  OBVIOUS
<1>. USE DEF UploadTypeOK
<1>1. phase' \in Phases
  BY DEF UploadNext, Malformed, ClientLeaves, Parsed, Reject, InvalidPayload, CallController,
     AnswerUpload, BeginPart, DirectoryMade, DirectoryFails, Opened, OpenFails, Written,
     WriteFails, Unlink, FolderUsable, InsertRow, Preview, CreateFails, UploadFails, Phases
<1>2. ASSUME NEW p \in Parts, PartStep(p) PROVE UploadTypeOK'
  BY <1>1, <1>2 DEF PartStep, BeginPart, DirectoryMade, DirectoryFails, Opened, OpenFails,
     Written, WriteFails, UploadFails
<1>3. ASSUME NEW p \in Parts, CreateStep(p) PROVE UploadTypeOK'
  BY <1>1, <1>3 DEF CreateStep, FolderUsable, InsertRow, Preview, CreateFails
<1>4. ASSUME NEW p \in Parts, Unlink(p) PROVE UploadTypeOK'
  BY <1>1, <1>4 DEF Unlink
<1>5. CASE Malformed \/ ClientLeaves \/ Parsed \/ Reject \/ AnswerUpload \/ InvalidPayload
  BY <1>1, <1>5 DEF Malformed, ClientLeaves, Parsed, Reject, AnswerUpload, InvalidPayload, UploadFails
<1>6. CASE CallController
  BY <1>1, <1>6 DEF CallController
<1>. QED  BY <1>2, <1>3, <1>4, <1>5, <1>6 DEF UploadNext, PartStep, CreateStep

(* A step of a part.                                                       *)
LEMMA PartSteps ==
  ASSUME UploadInv, NEW p \in Parts, PartStep(p)
  PROVE  UploadInv'
<1>. USE DEF PartStep, UploadInv
<1>0. UploadTypeOK'
  BY UploadTypes DEF UploadNext
<1>1. part[p] \notin {"done", "failed"} /\ UNCHANGED <<create, rows>>
  BY DEF BeginPart, DirectoryMade, DirectoryFails, Opened, OpenFails, Written, WriteFails
<1>2. \A q \in Parts \ {p} : part'[q] = part[q]
  BY DEF UploadTypeOK, BeginPart, DirectoryMade, DirectoryFails, Opened, OpenFails, Written,
     WriteFails
<1>3. \/ UNCHANGED <<phase, removing>>
      \/ /\ phase = "parsing" /\ phase' = "cleaning" /\ removing' = written
         /\ UNCHANGED <<content, written, late>>
  BY DEF BeginPart, DirectoryMade, DirectoryFails, Opened, OpenFails, Written, WriteFails, UploadFails
<1>4. Paths'
  BY DEF UploadTypeOK, Paths, BeginPart, DirectoryMade, DirectoryFails, Opened, OpenFails,
     Written, WriteFails
<1>5. FilesKept'
  <2>1. CASE Opened(p) \/ Written(p)
    BY <2>1 DEF UploadTypeOK, FilesKept, Opened, Written
  <2>2. CASE ~Opened(p) /\ ~Written(p)
    <3>1. part'[p] \notin {"writing", "done"} /\ content' = content
      BY <2>2 DEF UploadTypeOK, BeginPart, DirectoryMade, DirectoryFails, OpenFails, WriteFails
    <3>. QED  BY <1>2, <1>3, <3>1 DEF FilesKept
  <2>. QED  BY <2>1, <2>2
<1>6. Controlled'
  <2>1. ~Called'
    <3>1. ~Called
      <4>1. CASE part[p] = "absent"
        BY <4>1 DEF Controlled, Called, BeginPart, DirectoryMade, DirectoryFails, Opened,
           OpenFails, Written, WriteFails
      <4>2. CASE part[p] # "absent"  BY <1>1, <4>2 DEF Controlled
      <4>. QED  BY <4>1, <4>2
    <3>. QED  BY <1>1, <1>3, <3>1 DEF Called
  <2>2. phase' # "parsed"
    <3>1. phase # "parsed"
      <4>1. CASE part[p] = "absent"
        BY <4>1 DEF BeginPart, DirectoryMade, DirectoryFails, Opened, OpenFails, Written,
           WriteFails
      <4>2. CASE part[p] # "absent"  BY <1>1, <4>2 DEF Controlled
      <4>. QED  BY <4>1, <4>2
    <3>. QED  BY <1>3, <3>1
  <2>. QED  BY <1>1, <2>1, <2>2 DEF Controlled, Called
<1>7. FilesCleaned'
  <2>1. CASE Opened(p)
    BY <1>1, <2>1 DEF FilesCleaned, FilesKept, Opened
  <2>2. CASE ~Opened(p)
    <3>1. UNCHANGED <<content, late>>
      BY <2>2 DEF BeginPart, DirectoryMade, DirectoryFails, OpenFails, Written, WriteFails
    <3>. QED  BY <1>1, <1>3, <3>1 DEF FilesCleaned, Paths
  <2>. QED  BY <2>1, <2>2
<1>. QED  BY <1>0, <1>4, <1>5, <1>6, <1>7

(* A step of a row that is created.                                        *)
LEMMA CreateSteps ==
  ASSUME UploadInv, NEW p \in Parts, CreateStep(p)
  PROVE  UploadInv'
<1>. USE DEF CreateStep, UploadInv
<1>0. UploadTypeOK'
  BY UploadTypes DEF UploadNext
<1>1. /\ create[p] \in {"checking", "inserting", "previewing"}
      /\ create' \in [Parts -> {"none", "checking", "inserting", "previewing", "created",
                                "failed"}]
      /\ create'[p] # "none" /\ \A q \in Parts \ {p} : create'[q] = create[q]
      /\ UNCHANGED <<part, content, written, removing, late>>
      /\ phase' = phase \/ phase' = "rejected"
  BY DEF UploadTypeOK, FolderUsable, InsertRow, Preview, CreateFails
<1>2. Called /\ phase # "answered" /\ p \in content
  BY <1>1 DEF Called, Controlled
<1>3. removing = {} /\ phase \in {"called", "rejected"}
  BY <1>2 DEF Controlled, FilesKept
<1>4. Paths' /\ FilesKept'
  BY <1>1, <1>3 DEF Paths, FilesKept
<1>5. rows' = {q \in Parts : create'[q] \in {"previewing", "created"}}
  <2>1. \A q : q \in rows' <=> q \in Parts /\ create'[q] \in {"previewing", "created"}
    <3>1. CASE FolderUsable(p) \/ CreateFails(p)
      BY <1>1, <3>1 DEF Controlled, UploadTypeOK, FolderUsable, CreateFails
    <3>2. CASE InsertRow(p)
      BY <1>1, <3>2 DEF Controlled, UploadTypeOK, InsertRow
    <3>3. CASE Preview(p)
      BY <1>1, <3>3 DEF Controlled, UploadTypeOK, Preview
    <3>. QED  BY <3>1, <3>2, <3>3
  <2>. QED  BY <2>1
<1>6. Controlled'
  BY <1>1, <1>2, <1>3, <1>5 DEF Controlled, Called
<1>7. FilesCleaned'
  BY <1>1, <1>2, <1>3 DEF FilesCleaned, Paths, Controlled, UploadTypeOK
<1>. QED  BY <1>0, <1>4, <1>6, <1>7

LEMMA StepUploadInv == UploadInv /\ [UploadNext]_uploadVars => UploadInv'
<1>. SUFFICES ASSUME UploadInv, [UploadNext]_uploadVars PROVE UploadInv'
  OBVIOUS
<1>. USE DEF UploadInv
<1>1. CASE UNCHANGED uploadVars
  BY <1>1 DEF uploadVars, UploadTypeOK, Paths, FilesKept, Controlled, Called, FilesCleaned
<1>2. CASE \E p \in Parts : PartStep(p)  BY <1>2, PartSteps
<1>3. CASE \E p \in Parts : CreateStep(p)  BY <1>3, CreateSteps
<1>4. ASSUME NEW p \in Parts, Unlink(p) PROVE UploadInv'
  <2>1. phase = "cleaning" /\ phase' = "cleaning"
    BY <1>4 DEF Unlink, FilesKept
  <2>2. ~Called /\ ~Called'
    BY <1>4, <2>1 DEF Unlink, Called, Controlled
  <2>3. UploadTypeOK'
    BY <1>4, UploadTypes DEF UploadNext
  <2>. QED  BY <1>4, <2>1, <2>2, <2>3 DEF Unlink, Paths, FilesKept, Controlled, FilesCleaned
<1>5. CASE Malformed \/ ClientLeaves \/ Parsed
  <2>1. UploadTypeOK'
    BY <1>5, UploadTypes DEF UploadNext
  <2>2. ~Called
    BY <1>5 DEF Malformed, ClientLeaves, Parsed, Called, Controlled
  <2>. QED
    BY <1>5, <2>1, <2>2
       DEF Malformed, ClientLeaves, Parsed, UploadFails, Paths, FilesKept, Controlled, Called, FilesCleaned
<1>6. CASE Reject
  <2>1. UploadTypeOK'
    BY <1>6, UploadTypes DEF UploadNext
  <2>2. ~Called
    BY <1>6 DEF Reject, Called, Controlled
  <2>. QED  BY <1>6, <2>1, <2>2 DEF Reject, Paths, FilesKept, Controlled, Called, FilesCleaned
<1>7. CASE InvalidPayload
  <2>1. UploadTypeOK'
    BY <1>7, UploadTypes DEF UploadNext
  <2>2. ~Called
    BY <1>7 DEF InvalidPayload, Called, Controlled
  <2>3. content \subseteq {p \in Parts : part[p] = "done"}
    BY <1>7 DEF InvalidPayload, Controlled, Paths, UploadTypeOK
  <2>. QED
    BY <1>7, <2>1, <2>2, <2>3 DEF InvalidPayload, Paths, FilesKept, Controlled, Called, FilesCleaned
<1>8. CASE CallController
  <2>1. UploadTypeOK'
    BY <1>8, UploadTypes DEF UploadNext
  <2>2. ~Called /\ removing = {} /\ \A p \in Parts : part[p] \in {"absent", "done"}
    BY <1>8 DEF CallController, Called, Controlled, FilesKept
  <2>3. \A p \in Parts : part[p] = "done" <=> p \in content
    BY <1>8, <2>2 DEF CallController, FilesKept, Paths
  <2>4. /\ UNCHANGED <<part, content, written, removing, rows, late>>
        /\ phase' \in {"called", "rejected"}
        /\ \A p \in Parts : create'[p] \in IF part[p] = "done" THEN {"checking", "failed"}
                                           ELSE {"none"}
    BY <1>8 DEF CallController
  <2>5. rows = {}
    BY <2>2 DEF Controlled, Called
  <2>6. Controlled'
    BY <2>2, <2>3, <2>4, <2>5 DEF Controlled, Called
  <2>7. Paths' /\ FilesKept'
    BY <2>2, <2>3, <2>4 DEF Paths, FilesKept
  <2>8. FilesCleaned'
    BY <2>2, <2>3, <2>4 DEF FilesCleaned, UploadTypeOK
  <2>. QED  BY <2>1, <2>6, <2>7, <2>8
<1>9. CASE AnswerUpload
  <2>1. UploadTypeOK'
    BY <1>9, UploadTypes DEF UploadNext
  <2>. QED
    BY <1>9, <2>1 DEF AnswerUpload, Paths, FilesKept, Controlled, Called, FilesCleaned
<1>. QED
  BY <1>1, <1>2, <1>3, <1>4, <1>5, <1>6, <1>7, <1>8, <1>9 DEF UploadNext, PartStep, CreateStep

(* The states of the parts, of the rows and of the request are in step.    *)
THEOREM UploadInductive == UploadSpec => []UploadInv
BY InitUploadInv, StepUploadInv, PTL DEF UploadSpec

(* Of a request that has been answered or rejected, however its parts fail *)
(* and overlap, every file on disk has a row, is about to get one or was   *)
(* refused one, or came when the clean-up had passed.                      *)
THEOREM FilesAccountedFor == UploadSpec => []UploadsAccountedFor
<1>1. UploadInv => UploadsAccountedFor
  <2>. SUFFICES ASSUME UploadInv PROVE UploadsAccountedFor
    OBVIOUS
  <2>. USE DEF UploadInv
  <2>1. rows \subseteq content
    BY DEF Controlled, Called
  <2>2. ASSUME phase \in {"answered", "rejected"}, NEW p \in content \ late
        PROVE  p \in rows \/ create[p] \in {"checking", "inserting", "failed"}
    <3>1. p \in Parts /\ create[p] # "none"
      <4>1. p \in Parts
        BY DEF UploadTypeOK
      <4>2. CASE phase = "rejected"  BY <2>2, <4>1, <4>2 DEF FilesCleaned
      <4>3. CASE phase = "answered"
        BY <2>2, <4>1, <4>3 DEF Controlled, Called, Paths, UploadTypeOK
      <4>. QED  BY <2>2, <4>1, <4>2, <4>3
    <3>. QED  BY <3>1 DEF Controlled, UploadTypeOK
  <2>. QED  BY <2>1, <2>2 DEF UploadsAccountedFor
<1>. QED  BY <1>1, UploadInductive, PTL

-----------------------------------------------------------------------------
(* FileAccess                                                              *)

(* The way up is a set of folders that it does not leave, ...              *)
LEMMA WayUp ==
  ASSUME NEW fs \in [Folders -> FolderRows], NEW f \in Folders \cup {None}
  PROVE  Way(fs, f) \in SUBSET Folders /\ Upward(fs, Way(fs, f)) /\ f \in Way(fs, f) \cup {None}
<1>1. Way(fs, f) \in SUBSET Folders /\ f \in Way(fs, f) \cup {None}
  BY DEF Way
<1>2. ASSUME NEW g \in Way(fs, f), fs[g].up # None
      PROVE  fs[g].up \in Way(fs, f)
  <2>1. g \in Folders /\ fs[g].up \in Folders
    BY <1>1, <1>2 DEF FolderRows
  <2>2. ASSUME NEW s \in SUBSET Folders, f \in s \cup {None}, Upward(fs, s)
        PROVE  fs[g].up \in s
    BY <1>2, <2>2 DEF Way, Upward
  <2> QED
    BY <2>1, <2>2 DEF Way
<1> QED
  BY <1>1, <1>2 DEF Upward

(* ... and the least of those with the folder it begins at.                *)
LEMMA WayLeast ==
  ASSUME NEW fs, NEW f, NEW s \in SUBSET Folders, f \in s \cup {None}, Upward(fs, s)
  PROVE  Way(fs, f) \subseteq s
  BY DEF Way

LEMMA WayNone ==
  ASSUME NEW fs
  PROVE  Way(fs, None) = {}
<1>1. Upward(fs, {}) /\ {} \in SUBSET Folders
  BY DEF Upward
<1> QED
  BY <1>1, WayLeast

(* One step further up.                                                    *)
LEMMA WayStep ==
  ASSUME NEW fs \in [Folders -> FolderRows], NEW f \in Folders
  PROVE  /\ fs[f].up \in Folders \cup {None}
         /\ Way(fs, f) = {f} \cup Way(fs, fs[f].up)
<1>1. fs[f].up \in Folders \cup {None} /\ f # None
  BY AccessAssumption DEF FolderRows
<1> DEFINE w == Way(fs, f)
           v == Way(fs, fs[f].up)
<1>2. w \in SUBSET Folders /\ Upward(fs, w) /\ f \in w
  BY <1>1, WayUp
<1>3. v \in SUBSET Folders /\ Upward(fs, v) /\ fs[f].up \in v \cup {None}
  BY <1>1, WayUp
<1>4. v \subseteq w
  <2>1. fs[f].up \in w \cup {None}
    BY <1>2 DEF Upward
  <2> QED
    BY <1>2, <2>1, WayLeast
<1>5. w \subseteq {f} \cup v
  <2>1. {f} \cup v \in SUBSET Folders /\ Upward(fs, {f} \cup v)
    BY <1>3 DEF Upward
  <2> QED
    BY <2>1, WayLeast
<1> QED
  BY <1>1, <1>2, <1>4, <1>5

(* The way up depends on its own folders only.                             *)
LEMMA WaySame ==
  ASSUME NEW fs \in [Folders -> FolderRows], NEW gs \in [Folders -> FolderRows],
         NEW f \in Folders \cup {None}, \A g \in Way(fs, f) : gs[g].up = fs[g].up
  PROVE  Way(gs, f) = Way(fs, f)
<1> DEFINE w == Way(fs, f)
           v == Way(gs, f)
<1>1. w \in SUBSET Folders /\ Upward(fs, w) /\ f \in w \cup {None}
  BY WayUp
<1>2. v \in SUBSET Folders /\ Upward(gs, v) /\ f \in v \cup {None}
  BY WayUp
<1>3. v \subseteq w
  <2>1. Upward(gs, w)
    BY <1>1 DEF Upward
  <2> QED
    BY <1>1, <2>1, WayLeast
<1>4. w \subseteq v
  <2>1. Upward(fs, v)
    BY <1>2, <1>3 DEF Upward
  <2> QED
    BY <1>2, <2>1, WayLeast
<1> QED
  BY <1>3, <1>4

NoCycles(fs) == \A f \in Folders : f \notin Way(fs, fs[f].up)

(* A move to a folder below itself being refused, there are no cycles.     *)
LEMMA MoveKeepsNoCycles ==
  ASSUME NEW fs \in [Folders -> FolderRows], NEW gs \in [Folders -> FolderRows], NoCycles(fs),
         NEW f \in Folders, f \notin Way(fs, gs[f].up), \A g \in Folders \ {f} : gs[g].up = fs[g].up
  PROVE  NoCycles(gs)
<1>1. \A g \in Folders : gs[g].up \in Folders \cup {None} /\ fs[g].up \in Folders \cup {None}
  BY DEF FolderRows
<1> DEFINE u == gs[f].up
           w == Way(fs, u)
<1>2. w \in SUBSET Folders /\ Upward(fs, w) /\ u \in w \cup {None}
  BY <1>1, WayUp
<1>3. Way(gs, u) = w
  BY <1>1, <1>2, WaySame
<1>4. ASSUME NEW h \in Folders, h # f, h \in Way(gs, gs[h].up) PROVE FALSE
  <2> DEFINE v == Way(fs, gs[h].up)
  <2>1. gs[h].up = fs[h].up /\ gs[h].up \in Folders \cup {None}
    BY <1>1, <1>4
  <2>2. v \in SUBSET Folders /\ Upward(fs, v) /\ gs[h].up \in v \cup {None} /\ h \notin v
    BY <2>1, WayUp DEF NoCycles
  <2>3. CASE f \notin v
    <3>1. Way(gs, gs[h].up) = v
      BY <2>1, <2>2, <2>3, WaySame
    <3> QED
      BY <3>1, <2>2, <1>4
  <2>4. CASE f \in v
    <3>1. v \cup w \in SUBSET Folders /\ Upward(gs, v \cup w)
      BY <1>2, <2>2 DEF Upward
    <3>2. Way(gs, gs[h].up) \subseteq v \cup w
      BY <3>1, <2>2, WayLeast
    <3>3. h \in w
      BY <3>2, <2>2, <1>4
    <3>4. fs[h].up \in w \cup {None}
      BY <3>3, <1>2 DEF Upward
    <3>5. v \subseteq w
      BY <3>4, <2>1, <1>2, WayLeast
    <3> QED
      BY <3>5, <2>4
  <2> QED
    BY <2>3, <2>4
<1> QED
  BY <1>3, <1>4 DEF NoCycles

Looks(r) == reading[r] # None /\ reading[r].op \in {"file", "archive"}

(* The folders a walk has seen are public and lead from the file to the    *)
(* folder read next, and are none of those still to be read.               *)
WalkedPublic(r) ==
  LET x == Head(reading[r].todo) IN
  /\ stored[x] # None /\ stored[x].public
  /\ \E s \in SUBSET Folders :
       /\ stored[x].up \in s \cup {reading[r].at}
       /\ s \cap Way(folder, reading[r].at) = {}
       /\ \A g \in s : folder[g].public /\ folder[g].up \in s \cup {reading[r].at}

(* A reader has noted all that was public meanwhile. With one change at    *)
(* most, if nothing on the rest of the way stops its walk, the file was    *)
(* public at one moment.                                                   *)
ReaderOK(r) ==
  /\ \A step \in {"clean", "find", "walk", "zip"} : RequestAt(r, step) => Looks(r)
  /\ Looks(r) => \A x \in Stored : PublicNow(x) => x \in history[r].public
  /\ Looks(r) /\ history[r].changes <= 1 => reading[r].granted \subseteq history[r].public
  /\ RequestAt(r, "walk") /\ history[r].changes = 0 => WalkedPublic(r)
  /\ RequestAt(r, "walk") /\ history[r].changes <= 1 =>
       \/ \E g \in Way(folder, reading[r].at) : ~folder[g].public
       \/ Head(reading[r].todo) \in history[r].public

AccessInv ==
  /\ AccessTypeOK
  /\ NoCycles(folder)
  /\ \A r \in Readings : ReaderOK(r)

LEMMA AccessStarts == AccessInit => AccessInv
<1> SUFFICES ASSUME AccessInit PROVE AccessInv
  OBVIOUS
<1>1. NoArchive \in ArchiveFiles /\ NoHistory \in Histories
  BY DEF NoArchive, ArchiveFiles, NoHistory, Histories
<1>2. AccessTypeOK
  BY <1>1 DEF AccessInit, AccessTypeOK, RequestAt
<1> QED
  BY <1>2 DEF AccessInit, AccessInv, NoCycles, ReaderOK, RequestAt, Looks

(* A reader whose request and history stay as they are, with the tree.     *)
LEMMA ReaderStays ==
  ASSUME NEW r \in Readings, ReaderOK(r),
         reading'[r] = reading[r], history'[r] = history[r], UNCHANGED <<folder, stored>>
  PROVE  ReaderOK(r)'
  BY DEF ReaderOK, Looks, RequestAt, PublicNow, WalkedPublic

(* A step of one reader, or one that is about archives only.               *)
LEMMA OneReader ==
  ASSUME AccessInv, NEW r \in Readings, NEW q \in Reading \cup {None}, NEW h \in Histories,
         reading' = [reading EXCEPT ![r] = q], history' = [history EXCEPT ![r] = h],
         q # None /\ q.step \in {"clean", "find", "walk"} => q.todo # <<>>,
         UNCHANGED <<folder, stored>>, archive' \in [Archives -> ArchiveFiles],
         ReaderOK(r)'
  PROVE  AccessInv'
<1>1. AccessTypeOK'
  BY DEF AccessInv, AccessTypeOK, RequestAt
<1>2. ASSUME NEW s \in Readings PROVE ReaderOK(s)'
  <2>1. s # r => reading'[s] = reading[s] /\ history'[s] = history[s]
    BY DEF AccessInv, AccessTypeOK
  <2> QED
    BY <2>1, ReaderStays DEF AccessInv
<1>3. NoCycles(folder)'
  BY DEF AccessInv, NoCycles
<1> QED
  BY <1>1, <1>2, <1>3 DEF AccessInv

LEMMA ArchivesOnly ==
  ASSUME AccessInv, UNCHANGED <<folder, stored, reading, history>>,
         archive' \in [Archives -> ArchiveFiles]
  PROVE  AccessInv'
<1>1. AccessTypeOK'
  BY DEF AccessInv, AccessTypeOK, RequestAt
<1>2. \A r \in Readings : ReaderOK(r)'
  BY ReaderStays DEF AccessInv
<1> QED
  BY <1>1, <1>2 DEF AccessInv, NoCycles

LEMMA FailsKeeps ==
  ASSUME AccessInv, NEW r \in Readings, Fails(r)
  PROVE  AccessInv'
<1>1. reading' = [reading EXCEPT ![r] = None] /\ UNCHANGED <<folder, stored, archive, history>>
  BY DEF Fails
<1>2. history' = [history EXCEPT ![r] = history[r]] /\ history[r] \in Histories
        /\ archive' \in [Archives -> ArchiveFiles] /\ reading'[r] = None
  BY <1>1 DEF AccessInv, AccessTypeOK
<1>3. ReaderOK(r)'
  BY <1>2 DEF ReaderOK, Looks, RequestAt
<1> QED
  BY <1>1, <1>2, <1>3, OneReader

LEMMA AsksKeeps ==
  ASSUME AccessInv, NEW r \in Readings, NEW u \in Readers, NEW op \in {"file", "archive"},
         NEW files \in Seq(Stored), files # <<>>, Asks(r, u, op, files)
  PROVE  AccessInv'
<1> DEFINE q == [op |-> op, by |-> u, todo |-> files, at |-> None, granted |-> {}, archive |-> None,
                 step |-> IF op = "archive" THEN "clean" ELSE "find"]
           h == [public |-> {x \in Stored : PublicNow(x)}, changes |-> 0]
<1>1. reading' = [reading EXCEPT ![r] = q] /\ history' = [history EXCEPT ![r] = h]
        /\ UNCHANGED <<folder, stored, archive>>
  BY DEF Asks
<1>2. q \in Reading /\ h \in Histories /\ q.step \in {"clean", "find"} /\ q.todo # <<>>
        /\ archive' \in [Archives -> ArchiveFiles]
  BY <1>1 DEF Reading, Histories, AccessInv, AccessTypeOK
<1>3. /\ reading'[r] = q /\ history'[r] = h
      /\ \A x \in Stored : PublicNow(x)' => x \in h.public
  BY <1>1 DEF AccessInv, AccessTypeOK, PublicNow
<1>4. ReaderOK(r)'
  <2>1. reading'[r].op = op /\ reading'[r].granted = {} /\ reading'[r].step \in {"clean", "find"}
    BY <1>2, <1>3
  <2>2. reading'[r] # None
    BY <1>2, <1>3, AccessAssumption
  <2> HIDE DEF q, h
  <2> QED
    BY <2>1, <2>2, <1>3 DEF ReaderOK, Looks, RequestAt
<1> HIDE DEF q, h
<1> QED
  BY <1>1, <1>2, <1>4, OneReader

LEMMA FindsKeeps ==
  ASSUME AccessInv, NEW r \in Readings, Finds(r)
  PROVE  AccessInv'
<1> DEFINE x == Head(reading[r].todo)
<1>1. RequestAt(r, "find") /\ reading[r] \in Reading /\ reading[r].step = "find"
        /\ reading[r].todo \in Seq(Stored) /\ reading[r].todo # <<>>
  BY DEF Finds, RequestAt, AccessInv, AccessTypeOK, Reading
<1>2. x \in Stored
  BY <1>1
<1>3. CASE stored[x] = None \/ ~stored[x].public
  BY <1>3, FailsKeeps DEF Finds
<1>4. CASE ~(stored[x] = None \/ ~stored[x].public)
  <2>1. stored[x] \in FolderRows /\ stored[x].up \in Folders \cup {None}
    BY <1>2, <1>4 DEF AccessInv, AccessTypeOK, FolderRows
  <2>2. PICK q : q = [reading[r] EXCEPT !.step = "walk", !.at = stored[x].up]
    OBVIOUS
  <2>3. q \in Reading /\ q.step = "walk" /\ q.at = stored[x].up /\ q.op = reading[r].op
          /\ q.todo = reading[r].todo /\ q.granted = reading[r].granted
    BY <1>1, <2>1, <2>2 DEF Reading
  <2>4. reading' = [reading EXCEPT ![r] = q] /\ UNCHANGED <<folder, stored, history, archive>>
    BY <1>4, <2>2 DEF Finds, Goes
  <2>5. reading'[r] = q /\ history'[r] = history[r] /\ q # None
    BY <2>3, <2>4, AccessAssumption DEF AccessInv, AccessTypeOK
  <2>6. ReaderOK(r) /\ Looks(r) /\ (PublicNow(x) => x \in history[r].public)
    BY <1>1, <1>2 DEF AccessInv, ReaderOK
  <2>7. Looks(r)' /\ RequestAt(r, "walk")'
    BY <2>3, <2>5, <2>6 DEF Looks, RequestAt
  <2>8. WalkedPublic(r)'
    <3>1. {} \in SUBSET Folders /\ stored[x].up \in {} \cup {q.at}
      BY <2>3
    <3> QED
      BY <3>1, <1>4, <2>3, <2>4, <2>5 DEF WalkedPublic
  <2>9. (\E g \in Way(folder, q.at) : ~folder[g].public) \/ x \in history[r].public
    BY <2>3, <2>6, <1>4 DEF PublicNow
  <2>10. ReaderOK(r)'
    <3>1. \A y \in Stored : PublicNow(y)' => y \in history'[r].public
      BY <2>4, <2>5, <2>6 DEF ReaderOK, PublicNow
    <3>2. history'[r].changes <= 1 => reading'[r].granted \subseteq history'[r].public
      BY <2>3, <2>5, <2>6 DEF ReaderOK
    <3>3. \/ \E g \in Way(folder, reading[r].at)' : ~folder'[g].public
          \/ Head(reading'[r].todo) \in history'[r].public
      BY <2>3, <2>4, <2>5, <2>9
    <3> QED
      BY <2>7, <2>8, <3>1, <3>2, <3>3 DEF ReaderOK
  <2>11. history' = [history EXCEPT ![r] = history[r]] /\ history[r] \in Histories
           /\ archive' \in [Archives -> ArchiveFiles]
    BY <2>4 DEF AccessInv, AccessTypeOK
  <2> QED
    BY <1>1, <2>3, <2>4, <2>10, <2>11, OneReader
<1> QED
  BY <1>3, <1>4

LEMMA WalksKeeps ==
  ASSUME AccessInv, NEW r \in Readings, Walks(r)
  PROVE  AccessInv'
<1> DEFINE x == Head(reading[r].todo)
           f == reading[r].at
<1>1. RequestAt(r, "walk") /\ reading[r] \in Reading /\ reading[r].step = "walk"
        /\ reading[r].todo \in Seq(Stored) /\ reading[r].todo # <<>> /\ f \in Folders
  BY DEF Walks, RequestAt, AccessInv, AccessTypeOK, Reading
<1>2. x \in Stored /\ folder \in [Folders -> FolderRows]
  BY <1>1 DEF AccessInv, AccessTypeOK
<1>3. CASE ~folder[f].public
  BY <1>3, FailsKeeps DEF Walks
<1>4. CASE folder[f].public
  <2>1. /\ folder[f].up \in Folders \cup {None}
        /\ Way(folder, f) = {f} \cup Way(folder, folder[f].up)
        /\ f \notin Way(folder, folder[f].up)
    BY <1>1, <1>2, WayStep DEF AccessInv, NoCycles
  <2>2. PICK q : q = [reading[r] EXCEPT !.at = folder[f].up]
    OBVIOUS
  <2>3. q \in Reading /\ q.step = "walk" /\ q.at = folder[f].up /\ q.op = reading[r].op
          /\ q.todo = reading[r].todo /\ q.granted = reading[r].granted
    BY <1>1, <2>1, <2>2 DEF Reading
  <2>4. reading' = [reading EXCEPT ![r] = q] /\ UNCHANGED <<folder, stored, history, archive>>
    BY <1>4, <2>2 DEF Walks, Goes
  <2>5. reading'[r] = q /\ history'[r] = history[r] /\ q # None
    BY <2>3, <2>4, AccessAssumption DEF AccessInv, AccessTypeOK
  <2>6. ReaderOK(r) /\ Looks(r)
    BY <1>1 DEF AccessInv, ReaderOK
  <2>7. Looks(r)' /\ RequestAt(r, "walk")'
    BY <2>3, <2>5, <2>6 DEF Looks, RequestAt
  <2>8. ASSUME history[r].changes = 0 PROVE WalkedPublic(r)'
    <3>1. WalkedPublic(r)
      BY <1>1, <2>6, <2>8 DEF ReaderOK
    <3>2. PICK s \in SUBSET Folders :
            /\ stored[x].up \in s \cup {f}
            /\ s \cap Way(folder, f) = {}
            /\ \A g \in s : folder[g].public /\ folder[g].up \in s \cup {f}
      BY <3>1 DEF WalkedPublic
    <3> DEFINE t == s \cup {f}
    <3>3. t \in SUBSET Folders /\ stored[x].up \in t \cup {q.at} /\ t \cap Way(folder, q.at) = {}
      BY <3>2, <1>1, <2>1, <2>3
    <3>4. \A g \in t : folder[g].public /\ folder[g].up \in t \cup {q.at}
      BY <3>2, <1>4, <2>3
    <3>5. stored[x] # None /\ stored[x].public
      BY <3>1 DEF WalkedPublic
    <3> HIDE DEF t
    <3> QED
      BY <3>3, <3>4, <3>5, <2>3, <2>4, <2>5 DEF WalkedPublic
  <2>9. ASSUME history[r].changes <= 1
        PROVE  (\E g \in Way(folder, q.at) : ~folder[g].public) \/ x \in history[r].public
    BY <2>1, <2>3, <2>6, <2>9, <1>1, <1>4 DEF ReaderOK
  <2>10. ReaderOK(r)'
    <3>1. \A y \in Stored : PublicNow(y)' => y \in history'[r].public
      BY <2>4, <2>5, <2>6 DEF ReaderOK, PublicNow
    <3>2. history'[r].changes <= 1 => reading'[r].granted \subseteq history'[r].public
      BY <2>3, <2>5, <2>6 DEF ReaderOK
    <3>3. history'[r].changes <= 1 =>
            \/ \E g \in Way(folder, reading[r].at)' : ~folder'[g].public
            \/ Head(reading'[r].todo) \in history'[r].public
      BY <2>3, <2>4, <2>5, <2>9
    <3> QED
      BY <2>5, <2>7, <2>8, <3>1, <3>2, <3>3 DEF ReaderOK
  <2>11. history' = [history EXCEPT ![r] = history[r]] /\ history[r] \in Histories
           /\ archive' \in [Archives -> ArchiveFiles]
    BY <2>4 DEF AccessInv, AccessTypeOK
  <2> QED
    BY <1>1, <2>3, <2>4, <2>10, <2>11, OneReader
<1> QED
  BY <1>3, <1>4

LEMMA GrantsKeeps ==
  ASSUME AccessInv, NEW r \in Readings, Grants(r)
  PROVE  AccessInv'
<1> DEFINE todo == reading[r].todo
           x == Head(todo)
<1>1. RequestAt(r, "walk") /\ reading[r] \in Reading /\ reading[r].step = "walk"
        /\ todo \in Seq(Stored) /\ todo # <<>> /\ reading[r].at = None
        /\ reading[r].granted \in SUBSET Stored
  BY DEF Grants, RequestAt, AccessInv, AccessTypeOK, Reading
<1>2. x \in Stored /\ Tail(todo) \in Seq(Stored) /\ (Len(todo) > 1 => Tail(todo) # <<>>)
  BY <1>1
<1>3. PICK step : step = IF Len(todo) > 1 THEN "find"
                         ELSE IF reading[r].op = "file" THEN "read" ELSE "zip"
  OBVIOUS
<1>4. PICK q : q = [reading[r] EXCEPT !.granted = reading[r].granted \cup {x},
                                      !.todo = Tail(todo), !.step = step]
  OBVIOUS
<1>5. q \in Reading /\ q.step = step /\ q.op = reading[r].op
        /\ q.todo = Tail(todo) /\ q.granted = reading[r].granted \cup {x}
  BY <1>1, <1>2, <1>3, <1>4 DEF Reading
<1>6. reading' = [reading EXCEPT ![r] = q] /\ UNCHANGED <<folder, stored, history, archive>>
  BY <1>3, <1>4 DEF Grants, Goes
<1>7. reading'[r] = q /\ history'[r] = history[r] /\ q # None
  BY <1>5, <1>6, AccessAssumption DEF AccessInv, AccessTypeOK
<1>8. ReaderOK(r) /\ Looks(r)
  BY <1>1 DEF AccessInv, ReaderOK
<1>9. Looks(r)' /\ ~RequestAt(r, "walk")'
  BY <1>3, <1>5, <1>7, <1>8 DEF Looks, RequestAt
<1>10. history[r].changes <= 1 => x \in history[r].public
  BY <1>1, <1>8, WayNone DEF ReaderOK
<1>11. ReaderOK(r)'
  <2>1. \A y \in Stored : PublicNow(y)' => y \in history'[r].public
    BY <1>6, <1>7, <1>8 DEF ReaderOK, PublicNow
  <2>2. history'[r].changes <= 1 => reading'[r].granted \subseteq history'[r].public
    BY <1>5, <1>7, <1>8, <1>10 DEF ReaderOK
  <2> QED
    BY <1>9, <2>1, <2>2 DEF ReaderOK
<1>12. history' = [history EXCEPT ![r] = history[r]] /\ history[r] \in Histories
         /\ archive' \in [Archives -> ArchiveFiles]
  BY <1>6 DEF AccessInv, AccessTypeOK
<1>13. q.step \in {"clean", "find", "walk"} => q.todo # <<>>
  BY <1>2, <1>3, <1>5
<1> QED
  BY <1>5, <1>6, <1>11, <1>12, <1>13, OneReader

(* A reader between its walks: what it was granted is all it keeps.        *)
LEMMA GoesKeeps ==
  ASSUME AccessInv, NEW r \in Readings, NEW q \in Reading, Looks(r), Goes(r, q),
         q.op = reading[r].op, q.granted = reading[r].granted, q.step # "walk",
         q.step \in {"clean", "find"} => q.todo # <<>>,
         archive' \in [Archives -> ArchiveFiles]
  PROVE  AccessInv'
<1>1. reading' = [reading EXCEPT ![r] = q] /\ UNCHANGED <<folder, stored, history>>
  BY DEF Goes
<1>2. reading'[r] = q /\ history'[r] = history[r] /\ q # None
        /\ history' = [history EXCEPT ![r] = history[r]] /\ history[r] \in Histories
  BY <1>1, AccessAssumption DEF AccessInv, AccessTypeOK
<1>3. ReaderOK(r)
  BY DEF AccessInv
<1>4. ReaderOK(r)'
  <2>1. Looks(r)' /\ ~RequestAt(r, "walk")'
    BY <1>2 DEF Looks, RequestAt
  <2>2. \A y \in Stored : PublicNow(y)' => y \in history'[r].public
    BY <1>1, <1>2, <1>3 DEF ReaderOK, PublicNow
  <2>3. history'[r].changes <= 1 => reading'[r].granted \subseteq history'[r].public
    BY <1>2, <1>3 DEF ReaderOK
  <2> QED
    BY <2>1, <2>2, <2>3 DEF ReaderOK
<1> QED
  BY <1>1, <1>2, <1>4, OneReader

LEMMA ArchivesGo ==
  ASSUME AccessInv, NEW a \in Archives, NEW parts \in SUBSET Kept
  PROVE  Removed(a, parts) \in ArchiveFiles
<1>1. archive[a] \in ArchiveFiles
  BY DEF AccessInv, AccessTypeOK
<1>2. PICK z \in BOOLEAN : z = (archive[a].zip /\ "zip" \notin parts)
  OBVIOUS
<1>3. PICK m \in BOOLEAN : m = (archive[a].meta /\ "meta" \notin parts)
  OBVIOUS
<1>4. Removed(a, parts) = [archive[a] EXCEPT !.zip = z, !.meta = m, !.old = archive[a].old \ parts]
  BY <1>2, <1>3 DEF Removed
<1> QED
  BY <1>1, <1>2, <1>3, <1>4 DEF ArchiveFiles

LEMMA AgesKeeps ==
  ASSUME AccessInv, NEW a \in Archives, NEW half \in Kept, Ages(a, half)
  PROVE  AccessInv'
<1>1. archive' = [archive EXCEPT ![a].old = archive[a].old \cup {half}]
        /\ UNCHANGED <<folder, stored, reading, history>>
  BY DEF Ages
<1>2. archive' \in [Archives -> ArchiveFiles]
  BY <1>1 DEF AccessInv, AccessTypeOK, ArchiveFiles
<1> QED
  BY <1>1, <1>2, ArchivesOnly

LEMMA CleansKeeps ==
  ASSUME AccessInv, NEW r \in Readings, NEW a \in Archives, NEW half \in Kept, Cleans(r, a, half)
  PROVE  AccessInv'
<1>1. archive' = [archive EXCEPT ![a] = Removed(a, {half})]
        /\ UNCHANGED <<folder, stored, reading, history>>
  BY DEF Cleans
<1>2. archive' \in [Archives -> ArchiveFiles]
  BY <1>1, ArchivesGo DEF AccessInv, AccessTypeOK
<1> QED
  BY <1>1, <1>2, ArchivesOnly

LEMMA RemovesKeeps ==
  ASSUME AccessInv, NEW r \in Readings, NEW half \in Kept, Removes(r, half)
  PROVE  AccessInv'
<1> DEFINE a == reading[r].archive
<1>1. archive' = [archive EXCEPT ![a] = Removed(a, {half})]
        /\ UNCHANGED <<folder, stored, reading, history>>
  BY DEF Removes
<1>2. archive' \in [Archives -> ArchiveFiles]
  BY <1>1, ArchivesGo DEF AccessInv, AccessTypeOK
<1> QED
  BY <1>1, <1>2, ArchivesOnly

LEMMA ClearedKeeps ==
  ASSUME AccessInv, NEW r \in Readings, Cleaned(r)
  PROVE  AccessInv'
<1>1. RequestAt(r, "clean") /\ reading[r] \in Reading /\ reading[r].todo # <<>>
  BY DEF Cleaned, RequestAt, AccessInv, AccessTypeOK
<1>2. PICK q : q = [reading[r] EXCEPT !.step = "find"]
  OBVIOUS
<1>3. q \in Reading /\ q.step = "find" /\ q.op = reading[r].op /\ q.todo = reading[r].todo
        /\ q.granted = reading[r].granted
  BY <1>1, <1>2 DEF Reading
<1>4. Goes(r, q) /\ archive' = archive
  BY <1>2 DEF Cleaned
<1>5. Looks(r) /\ archive' \in [Archives -> ArchiveFiles]
  BY <1>1, <1>4 DEF AccessInv, ReaderOK, AccessTypeOK
<1> QED
  BY <1>1, <1>3, <1>4, <1>5, GoesKeeps

LEMMA WritesZipKeeps ==
  ASSUME AccessInv, NEW r \in Readings, NEW a \in Archives, WritesZip(r, a)
  PROVE  AccessInv'
<1>1. RequestAt(r, "zip") /\ reading[r] \in Reading
  BY DEF WritesZip, RequestAt, AccessInv, AccessTypeOK
<1>2. PICK q : q = [reading[r] EXCEPT !.step = "meta", !.archive = a]
  OBVIOUS
<1>3. q \in Reading /\ q.step = "meta" /\ q.op = reading[r].op /\ q.granted = reading[r].granted
  BY <1>1, <1>2 DEF Reading
<1>4. Goes(r, q)
  BY <1>2 DEF WritesZip
<1>5. archive' = [archive EXCEPT ![a] =
        [by |-> reading[r].by, zip |-> TRUE, meta |-> FALSE, old |-> {},
         holds |-> reading[r].granted]]
  BY DEF WritesZip
<1>6. Looks(r) /\ archive' \in [Archives -> ArchiveFiles]
  BY <1>1, <1>5 DEF AccessInv, ReaderOK, AccessTypeOK, ArchiveFiles, Reading
<1> QED
  BY <1>3, <1>4, <1>6, GoesKeeps

LEMMA WritesMetaKeeps ==
  ASSUME AccessInv, NEW r \in Readings, WritesMeta(r)
  PROVE  AccessInv'
<1>1. /\ archive' = [archive EXCEPT ![reading[r].archive].meta = TRUE]
      /\ reading' = [reading EXCEPT ![r] = None]
      /\ UNCHANGED <<folder, stored, history>>
  BY DEF WritesMeta
<1>2. archive' \in [Archives -> ArchiveFiles]
  <2>1. PICK a : a = reading[r].archive
    OBVIOUS
  <2>2. archive' = [archive EXCEPT ![a].meta = TRUE]
    BY <1>1, <2>1
  <2> QED
    BY <2>2 DEF AccessInv, AccessTypeOK, ArchiveFiles
<1>3. history' = [history EXCEPT ![r] = history[r]] /\ history[r] \in Histories
        /\ reading'[r] = None
  BY <1>1 DEF AccessInv, AccessTypeOK
<1>4. ReaderOK(r)'
  BY <1>3 DEF ReaderOK, Looks, RequestAt
<1> QED
  BY <1>1, <1>2, <1>3, <1>4, OneReader

(* Downloads and their confirmation look at no folder.                     *)
LEMMA DownloadKeeps ==
  ASSUME AccessInv, NEW r \in Readings, NEW u \in Readers, NEW a \in Archives,
         AsksDownload(r, u, a) \/ AsksConfirm(r, u, a)
  PROVE  AccessInv'
<1> DEFINE d == [op |-> "download", by |-> u, todo |-> <<>>, at |-> None,
                 granted |-> archive[a].holds, archive |-> a, step |-> "read"]
           c == [op |-> "confirm", by |-> u, todo |-> <<>>, at |-> None,
                 granted |-> {}, archive |-> a, step |-> "remove"]
<1>1. d \in Reading /\ c \in Reading
  BY DEF AccessInv, AccessTypeOK, ArchiveFiles, Reading
<1>2. PICK q \in {d, c} :
        /\ reading' = [reading EXCEPT ![r] = q]
        /\ history' = [history EXCEPT ![r] = NoHistory]
        /\ UNCHANGED <<folder, stored, archive>>
  BY DEF AsksDownload, AsksConfirm
<1>3. q \in Reading /\ q.op \in {"download", "confirm"} /\ q.step \in {"read", "remove"}
  <2>1. CASE q = d
    BY <1>1, <2>1
  <2>2. CASE q = c
    BY <1>1, <2>2
  <2> QED
    BY <2>1, <2>2
<1>4. reading'[r] = q /\ NoHistory \in Histories /\ archive' \in [Archives -> ArchiveFiles]
  BY <1>2 DEF AccessInv, AccessTypeOK, NoHistory, Histories
<1>5. ReaderOK(r)'
  BY <1>3, <1>4 DEF ReaderOK, Looks, RequestAt
<1> HIDE DEF d, c
<1> QED
  BY <1>2, <1>3, <1>4, <1>5, OneReader

(* What every reader notes of a change.                                    *)
LEMMA ReadersSee ==
  ASSUME AccessTypeOK, Seen
  PROVE  /\ history' \in [Readings -> Histories]
         /\ \A r \in Readings : reading[r] # None =>
              /\ history[r].public \subseteq history'[r].public
              /\ \A x \in Stored : PublicNow(x)' => x \in history'[r].public
              /\ history'[r].changes <= 1 =>
                   history[r].changes = 0 /\ history'[r].changes = 1
<1> DEFINE h(r) == [changes |-> IF history[r].changes < 2 THEN history[r].changes + 1 ELSE 2,
                    public |-> history[r].public \cup {x \in Stored : PublicNow(x)'}]
<1>1. history' = [r \in Readings |-> IF reading[r] = None THEN history[r] ELSE h(r)]
  BY DEF Seen
<1>2. ASSUME NEW r \in Readings
      PROVE  history[r] \in Histories /\ h(r) \in Histories
  BY DEF AccessTypeOK, Histories
<1>3. ASSUME NEW r \in Readings, reading[r] # None
      PROVE  /\ history[r].public \subseteq history'[r].public
             /\ \A x \in Stored : PublicNow(x)' => x \in history'[r].public
             /\ history'[r].changes <= 1 =>
                  history[r].changes = 0 /\ history'[r].changes = 1
  <2>1. history'[r] = h(r)
    BY <1>1, <1>3
  <2>2. history[r].changes \in 0..2
    BY <1>2 DEF Histories
  <2> QED
    BY <2>1, <2>2
<1>4. history' \in [Readings -> Histories]
  BY <1>1, <1>2
<1> QED
  BY <1>3, <1>4

(* The change of a folder. One the walk has passed is not read again, so   *)
(* what the walk found it would still have found without the change; of    *)
(* any other the walk reads the new row, if it reads it, and all it has    *)
(* read before is unchanged.                                               *)
LEMMA ChangeFolderKeeps ==
  ASSUME AccessInv, NEW f \in Folders, NEW up \in Folders \cup {None}, NEW p \in BOOLEAN,
         ChangeFolder(f, up, p)
  PROVE  AccessInv'
<1>1. /\ f \notin Way(folder, up)
      /\ folder' = [folder EXCEPT ![f] = [up |-> up, public |-> p]]
      /\ UNCHANGED <<stored, reading, archive>>
      /\ Seen
  BY DEF ChangeFolder
<1>2. AccessTypeOK /\ folder \in [Folders -> FolderRows]
  BY DEF AccessInv, AccessTypeOK
<1>3. folder' \in [Folders -> FolderRows] /\ folder'[f].up = up
        /\ \A g \in Folders \ {f} : folder'[g] = folder[g]
  BY <1>1, <1>2 DEF FolderRows
<1>4. NoCycles(folder')
  BY <1>1, <1>2, <1>3, MoveKeepsNoCycles DEF AccessInv
<1>5. /\ history' \in [Readings -> Histories]
      /\ \A r \in Readings : reading[r] # None =>
           /\ history[r].public \subseteq history'[r].public
           /\ \A x \in Stored : PublicNow(x)' => x \in history'[r].public
           /\ history'[r].changes <= 1 =>
                history[r].changes = 0 /\ history'[r].changes = 1
  BY <1>1, <1>2, ReadersSee
<1>6. AccessTypeOK'
  BY <1>1, <1>2, <1>3, <1>5 DEF AccessTypeOK, RequestAt
<1>7. ASSUME NEW r \in Readings PROVE ReaderOK(r)'
  <2>1. CASE reading[r] = None
    BY <2>1, <1>1 DEF ReaderOK, Looks, RequestAt
  <2>2. CASE reading[r] # None
    <3> DEFINE x == Head(reading[r].todo)
               at == reading[r].at
    <3>1. ReaderOK(r) /\ reading[r] \in Reading
      BY <2>2, <1>2 DEF AccessInv, AccessTypeOK
    <3>2. /\ history[r].public \subseteq history'[r].public
          /\ \A y \in Stored : PublicNow(y)' => y \in history'[r].public
          /\ history'[r].changes <= 1 =>
               history[r].changes = 0 /\ history'[r].changes = 1
      BY <2>2, <1>5
    <3>3. ASSUME RequestAt(r, "walk"), history'[r].changes <= 1
          PROVE  (\E g \in Way(folder', at) : ~folder'[g].public) \/ x \in history'[r].public
      <4>1. x \in Stored /\ at \in Folders \cup {None}
        BY <3>1, <3>3, <1>2 DEF AccessTypeOK, RequestAt, Reading
      <4>2. history[r].changes = 0 /\ WalkedPublic(r)
        BY <3>1, <3>2, <3>3 DEF ReaderOK
      <4>3. PICK s \in SUBSET Folders :
              /\ stored[x].up \in s \cup {at}
              /\ s \cap Way(folder, at) = {}
              /\ \A g \in s : folder[g].public /\ folder[g].up \in s \cup {at}
        BY <4>2 DEF WalkedPublic
      <4>4. CASE f \in s
        <5>1. Way(folder, at) \in SUBSET Folders /\ f \notin Way(folder, at)
          BY <4>1, <4>3, <4>4, <1>2, WayUp
        <5>2. Way(folder', at) = Way(folder, at)
          BY <5>1, <4>1, <1>2, <1>3, WaySame
        <5>3. (\E g \in Way(folder, at) : ~folder[g].public) \/ x \in history[r].public
          BY <3>1, <3>3, <4>2 DEF ReaderOK
        <5> QED
          BY <5>1, <5>2, <5>3, <3>2, <1>3
      <4>5. CASE f \notin s /\ \A g \in Way(folder', at) : folder'[g].public
        <5> DEFINE t == s \cup Way(folder', at)
        <5>1. /\ Way(folder', at) \in SUBSET Folders /\ Upward(folder', Way(folder', at))
              /\ at \in Way(folder', at) \cup {None}
          BY <4>1, <1>3, WayUp
        <5>2. \A g \in s : folder'[g] = folder[g]
          BY <4>5, <1>3
        <5>3. t \in SUBSET Folders /\ stored[x].up \in t \cup {None} /\ Upward(folder', t)
          BY <5>1, <5>2, <4>3 DEF Upward
        <5>4. Way(folder', stored[x].up) \subseteq t
          BY <5>3, WayLeast
        <5>5. \A g \in t : folder'[g].public
          BY <5>2, <4>3, <4>5
        <5>6. stored'[x] # None /\ stored'[x].public /\ stored'[x].up = stored[x].up
          BY <4>2, <1>1 DEF WalkedPublic
        <5> HIDE DEF t, at
        <5>7. PICK y \in Stored : y = x
          BY <4>1
        <5>8. PublicNow(y)'
          BY <5>4, <5>5, <5>6, <5>7 DEF PublicNow
        <5> QED
          BY <5>7, <5>8, <3>2
      <4> QED
        BY <4>4, <4>5
    <3>4. Looks(r)' <=> Looks(r)
      BY <1>1 DEF Looks
    <3>5. \A step : RequestAt(r, step)' <=> RequestAt(r, step)
      BY <1>1 DEF RequestAt
    <3>6. reading'[r] = reading[r]
      BY <1>1
    <3> QED
      BY <3>1, <3>2, <3>3, <3>4, <3>5, <3>6 DEF ReaderOK
  <2> QED
    BY <2>1, <2>2
<1> QED
  BY <1>4, <1>6, <1>7 DEF AccessInv

(* The change of a file: no folder is concerned.                           *)
LEMMA ChangeFileKeeps ==
  ASSUME AccessInv, NEW y \in Stored, NEW row \in FolderRows \cup {None}, ChangeFile(y, row)
  PROVE  AccessInv'
<1>1. /\ stored' = [stored EXCEPT ![y] = row]
      /\ UNCHANGED <<folder, reading, archive>>
      /\ Seen
  BY DEF ChangeFile
<1>2. AccessTypeOK /\ NoCycles(folder)
  BY DEF AccessInv
<1>3. /\ history' \in [Readings -> Histories]
      /\ \A r \in Readings : reading[r] # None =>
           /\ history[r].public \subseteq history'[r].public
           /\ \A x \in Stored : PublicNow(x)' => x \in history'[r].public
           /\ history'[r].changes <= 1 =>
                history[r].changes = 0 /\ history'[r].changes = 1
  BY <1>1, <1>2, ReadersSee
<1>4. AccessTypeOK'
  BY <1>1, <1>2, <1>3 DEF AccessTypeOK, RequestAt
<1>5. ASSUME NEW r \in Readings PROVE ReaderOK(r)'
  <2>1. CASE reading[r] = None
    BY <2>1, <1>1 DEF ReaderOK, Looks, RequestAt
  <2>2. CASE reading[r] # None
    <3>1. ReaderOK(r)
      BY DEF AccessInv
    <3>2. /\ history[r].public \subseteq history'[r].public
          /\ \A x \in Stored : PublicNow(x)' => x \in history'[r].public
          /\ history'[r].changes <= 1 =>
               history[r].changes = 0 /\ history'[r].changes = 1
      BY <2>2, <1>3
    <3>3. Looks(r)' <=> Looks(r)
      BY <1>1 DEF Looks
    <3>4. \A step : RequestAt(r, step)' <=> RequestAt(r, step)
      BY <1>1 DEF RequestAt
    <3>5. reading'[r] = reading[r] /\ folder' = folder
      BY <1>1
    <3> QED
      BY <3>1, <3>2, <3>3, <3>4, <3>5 DEF ReaderOK
  <2> QED
    BY <2>1, <2>2
<1>6. NoCycles(folder)'
  BY <1>1, <1>2 DEF NoCycles
<1> QED
  BY <1>4, <1>5, <1>6 DEF AccessInv

LEMMA AccessSteps == AccessInv /\ [AccessNext]_accessVars => AccessInv'
<1> SUFFICES ASSUME AccessInv, [AccessNext]_accessVars PROVE AccessInv'
  OBVIOUS
<1>1. CASE UNCHANGED accessVars
  BY <1>1, ArchivesOnly DEF accessVars, AccessInv, AccessTypeOK
<1>2. ASSUME NEW f \in Folders, NEW up \in Folders \cup {None}, NEW p \in BOOLEAN,
             ChangeFolder(f, up, p)
      PROVE  AccessInv'
  BY <1>2, ChangeFolderKeeps
<1>3. ASSUME NEW x \in Stored,
             \/ ChangeFile(x, None)
             \/ \E f \in Folders \cup {None}, p \in BOOLEAN :
                  ChangeFile(x, [up |-> f, public |-> p])
      PROVE  AccessInv'
  BY <1>3, ChangeFileKeeps DEF FolderRows
<1>4. ASSUME NEW a \in Archives, NEW half \in Kept, Ages(a, half) PROVE AccessInv'
  BY <1>4, AgesKeeps
<1>5. ASSUME NEW r \in Readings, NEW u \in Readers, NEW x \in Stored, AsksFile(r, u, x)
      PROVE  AccessInv'
  <2>1. <<x>> \in Seq(Stored) /\ <<x>> # <<>>
    OBVIOUS
  <2> QED
    BY <1>5, <2>1, AsksKeeps DEF AsksFile
<1>6. ASSUME NEW r \in Readings, NEW u \in Readers, NEW n \in 1..Cardinality(Stored),
             NEW files \in [1..n -> Stored], AsksArchive(r, u, files)
      PROVE  AccessInv'
  <2>1. Cardinality(Stored) \in Nat
    BY AccessAssumption, FS_CardinalityType
  <2>2. files \in Seq(Stored) /\ files # <<>>
    BY <2>1, <1>6 DEF AsksArchive
  <2> QED
    BY <1>6, <2>2, AsksKeeps DEF AsksArchive
<1>7. ASSUME NEW r \in Readings,
             \/ Finds(r) \/ Walks(r) \/ Grants(r) \/ Reads(r) \/ Cleaned(r) \/ Abandoned(r)
             \/ WritesMeta(r) \/ Confirmed(r)
      PROVE  AccessInv'
  BY <1>7, FindsKeeps, WalksKeeps, GrantsKeeps, FailsKeeps, ClearedKeeps, WritesMetaKeeps
     DEF Reads, Abandoned, Confirmed
<1>8. ASSUME NEW r \in Readings, NEW half \in Kept,
             Removes(r, half) \/ \E a \in Archives : Cleans(r, a, half)
      PROVE  AccessInv'
  BY <1>8, RemovesKeeps, CleansKeeps
<1>9. ASSUME NEW r \in Readings, NEW a \in Archives,
             WritesZip(r, a) \/ \E u \in Readers : AsksDownload(r, u, a) \/ AsksConfirm(r, u, a)
      PROVE  AccessInv'
  BY <1>9, WritesZipKeeps, DownloadKeeps
<1> QED
  BY <1>1, <1>2, <1>3, <1>4, <1>5, <1>6, <1>7, <1>8, <1>9 DEF AccessNext

(* In every reachable state the invariant of the readers holds.            *)
THEOREM AccessInductive == AccessSpec => []AccessInv
  BY AccessStarts, AccessSteps, PTL DEF AccessSpec

(* Among others: a walk has a file to look for.                            *)
THEOREM AccessTypeCorrect == AccessSpec => []AccessTypeOK
<1>1. AccessInv => AccessTypeOK
  BY DEF AccessInv
<1> QED
  BY <1>1, AccessInductive, PTL

(* For any tree of folders and any number of readers: what canReadFile     *)
(* lets be read was public with all its folders at some moment of the      *)
(* request, unless there were two changes meanwhile.                       *)
THEOREM ReadersSeeThePublic == AccessSpec => []ReadWasPublic
<1>1. AccessInv => ReadWasPublic
  BY DEF AccessInv, ReaderOK, Looks, ReadWasPublic
<1> QED
  BY <1>1, AccessInductive, PTL

-----------------------------------------------------------------------------
(* Sessions                                                                *)

Signed == {s \in Sessions : session[s] # None}

(* A tab lists sessions that there are.                                    *)
TabOK(v) == v \in Shows /\ v.listed \subseteq Signed

(* What is so when an answer is on its way is so when it arrives: sessions *)
(* stay in their table, revoked ones stay revoked and old tokens expired.  *)
ExchangeOK(q) ==
  /\ q \in Exchange
  /\ q.op = "state" => q.to \in Pages
  /\ q.op \in LoginOps => q.to = "home"
  /\ q.token \in Signed \cup {None} /\ q.rows \subseteq Signed
  /\ q.op = "revoke" => q.sid \in Signed
  /\ q.step = "done" /\ q.answer = "ok" =>
       /\ q.op \in LoginOps => q.new \in Signed
       /\ q.op = "logout" => q.token # None /\ session[q.token] = "revoked"
       /\ q.op = "revoke" => session[q.sid] = "revoked"
  /\ q.step = "done" /\ q.answer = "denied" /\ q.op \notin LoginOps =>
       q.token = None \/ q.token \in expired \/ session[q.token] = "revoked"

TabsOK == \A t \in Tabs : TabOK(tab[t])

ExchangesOK == \A r \in Exchanges : request[r] # None => ExchangeOK(request[r])

SessionInv == SessionsTypeOK /\ TabsOK /\ ExchangesOK

LEMMA SessionsStart == SessionsInit => SessionInv
<1> SUFFICES ASSUME SessionsInit PROVE SessionInv
  OBVIOUS
<1>1. TabOK(Closed)
  BY DEF TabOK, Closed, Shows
<1> QED
  BY <1>1 DEF SessionsInit, SessionInv, SessionsTypeOK, TabsOK, TabOK, ExchangesOK

(* What may become of the sessions.                                        *)
SessionsGoOn ==
  /\ session' \in [Sessions -> {None, "live", "revoked"}]
  /\ \A s \in Sessions : session[s] # None => session'[s] # None
  /\ \A s \in Sessions : session[s] = "revoked" => session'[s] = "revoked"
  /\ expired \subseteq expired' /\ expired' \subseteq Signed'
  /\ cookie' \in {None} \cup Signed'
  /\ allowed' = allowed

LEMMA ExchangeGoesOn ==
  ASSUME SessionsTypeOK, SessionsGoOn, NEW q, ExchangeOK(q)
  PROVE  ExchangeOK(q)'
<1>1. Signed \subseteq Signed'
  BY DEF Signed, SessionsTypeOK, SessionsGoOn
<1> QED
  BY <1>1 DEF ExchangeOK, SessionsTypeOK, SessionsGoOn, Exchange, Signed

(* Sessions go on and each tab and exchange is as it was or right.         *)
LEMMA SessionsKeep ==
  ASSUME SessionInv, SessionsGoOn,
         tab' \in [Tabs -> Shows], \A t \in Tabs : tab'[t].listed \subseteq Signed',
         request' \in [Exchanges -> Exchange \cup {None}],
         \A r \in Exchanges, q \in Exchange :
           q = request'[r] => q = request[r] \/ ExchangeOK(q)'
  PROVE  SessionInv'
<1>1. SessionsTypeOK'
  BY DEF SessionInv, SessionsTypeOK, SessionsGoOn, Signed
<1>2. TabsOK'
  BY DEF TabsOK, TabOK
<1>3. ASSUME NEW r \in Exchanges, request'[r] # None
      PROVE  ExchangeOK(request[r])'
  <2> PICK q \in Exchange : q = request'[r]
    BY <1>3
  <2>1. q = request[r] => ExchangeOK(q)
    BY SessionsAssumption DEF SessionInv, ExchangesOK
  <2>2. ExchangeOK(q)'
    BY <2>1, ExchangeGoesOn DEF SessionInv
  <2> QED
    BY <2>2 DEF ExchangeOK
<1> QED
  BY <1>1, <1>2, <1>3 DEF SessionInv, ExchangesOK

LEMMA LeftOK ==
  ASSUME SessionInv, NEW t \in Tabs, NEW fs \in {request, Left(t), Orphaned(t)}
  PROVE  /\ fs \in [Exchanges -> Exchange \cup {None}]
         /\ \A r \in Exchanges : fs[r] # None => ExchangeOK(fs[r])
<1>1. /\ request \in [Exchanges -> Exchange \cup {None}]
      /\ \A r \in Exchanges : request[r] # None => request[r] \in Exchange /\ ExchangeOK(request[r])
  BY DEF SessionInv, SessionsTypeOK, ExchangesOK
<1>2. ASSUME NEW q \in Exchange, ExchangeOK(q)
      PROVE  /\ [q EXCEPT !.here = FALSE] \in Exchange
             /\ ExchangeOK([q EXCEPT !.here = FALSE])
             /\ [q EXCEPT !.tab = None] \in Exchange
             /\ ExchangeOK([q EXCEPT !.tab = None])
  <2> PICK x, y : x = [q EXCEPT !.here = FALSE] /\ y = [q EXCEPT !.tab = None]
    OBVIOUS
  <2>1. /\ x \in Exchange /\ y \in Exchange
        /\ x.op = q.op /\ x.to = q.to /\ x.token = q.token /\ x.rows = q.rows /\ x.sid = q.sid
        /\ x.step = q.step /\ x.answer = q.answer /\ x.new = q.new
        /\ y.op = q.op /\ y.to = q.to /\ y.token = q.token /\ y.rows = q.rows /\ y.sid = q.sid
        /\ y.step = q.step /\ y.answer = q.answer /\ y.new = q.new
    BY DEF Exchange
  <2>2. ExchangeOK(x) /\ ExchangeOK(y)
    BY <1>2, <2>1 DEF ExchangeOK
  <2> QED
    BY <2>1, <2>2
<1>3. /\ Left(t) \in [Exchanges -> Exchange \cup {None}]
      /\ \A r \in Exchanges : Left(t)[r] # None => ExchangeOK(Left(t)[r])
  <2>1. ASSUME NEW r \in Exchanges
        PROVE  /\ Left(t)[r] \in Exchange \cup {None}
               /\ Left(t)[r] # None => ExchangeOK(Left(t)[r])
    <3>1. r \in Of(t) => request[r] # None /\ Left(t)[r] = [request[r] EXCEPT !.here = FALSE]
      BY DEF Left, Of
    <3>2. r \notin Of(t) => Left(t)[r] = request[r]
      BY DEF Left
    <3> QED
      BY <1>1, <1>2, <3>1, <3>2
  <2> QED
    BY <2>1 DEF Left
<1>4. /\ Orphaned(t) \in [Exchanges -> Exchange \cup {None}]
      /\ \A r \in Exchanges : Orphaned(t)[r] # None => ExchangeOK(Orphaned(t)[r])
  <2>1. ASSUME NEW r \in Exchanges
        PROVE  /\ Orphaned(t)[r] \in Exchange \cup {None}
               /\ Orphaned(t)[r] # None => ExchangeOK(Orphaned(t)[r])
    <3>1. r \in Of(t) => request[r] # None /\ Orphaned(t)[r] = [request[r] EXCEPT !.tab = None]
      BY DEF Orphaned, Of
    <3>2. r \notin Of(t) => Orphaned(t)[r] = request[r]
      BY DEF Orphaned
    <3> QED
      BY <1>1, <1>2, <3>1, <3>2
  <2> QED
    BY <2>1 DEF Orphaned
<1> QED
  BY <1>1, <1>3, <1>4

(* A tab changes; of the requests there were, those of the tab may be left. *)
LEMMA PageKeeps ==
  ASSUME SessionInv, SessionsGoOn,
         NEW t \in Tabs, NEW v \in Shows, v.listed \subseteq Signed', tab' = [tab EXCEPT ![t] = v],
         NEW fs \in {request, Left(t), Orphaned(t)},
         request' \in [Exchanges -> Exchange \cup {None}],
         \A r \in Exchanges, q \in Exchange : q = request'[r] => q = fs[r] \/ ExchangeOK(q)'
  PROVE  SessionInv'
<1>1. tab' \in [Tabs -> Shows] /\ \A u \in Tabs : tab'[u].listed \subseteq Signed'
  <2>1. Signed \subseteq Signed'
    BY DEF Signed, SessionInv, SessionsTypeOK, SessionsGoOn
  <2> QED
    BY <2>1 DEF SessionInv, SessionsTypeOK, TabsOK, TabOK
<1>2. ASSUME NEW r \in Exchanges, NEW q \in Exchange, q = request'[r]
      PROVE  ExchangeOK(q)'
  <2>1. q = fs[r] => ExchangeOK(q)
    BY LeftOK, SessionsAssumption
  <2> QED
    BY <1>2, <2>1, ExchangeGoesOn DEF SessionInv
<1> QED
  BY <1>1, <1>2, SessionsKeep

(* A slot alone changes.                                                   *)
LEMMA SlotKeeps ==
  ASSUME SessionInv, SessionsGoOn, tab' = tab,
         NEW r \in Exchanges, NEW q \in Exchange \cup {None}, q # None => ExchangeOK(q)',
         request' = [request EXCEPT ![r] = q]
  PROVE  SessionInv'
<1>1. tab' \in [Tabs -> Shows] /\ \A u \in Tabs : tab'[u].listed \subseteq Signed'
  <2>1. Signed \subseteq Signed'
    BY DEF Signed, SessionInv, SessionsTypeOK, SessionsGoOn
  <2> QED
    BY <2>1 DEF SessionInv, SessionsTypeOK, TabsOK, TabOK
<1>2. /\ request' \in [Exchanges -> Exchange \cup {None}]
      /\ \A i \in Exchanges, x \in Exchange : x = request'[i] => x = request[i] \/ ExchangeOK(x)'
  BY SessionsAssumption DEF SessionInv, SessionsTypeOK
<1> QED
  BY <1>1, <1>2, SessionsKeep

(* A request that is sent.                                                 *)
LEMMA RequestOK ==
  ASSUME SessionsGoOn, NEW t \in Tabs,
         NEW op \in LoginOps \cup {"state", "list", "logout", "revoke", "others"},
         NEW to \in Pages \cup {"login", None}, NEW sid \in Sessions \cup {None},
         op = "state" => to \in Pages, op \in LoginOps => to = "home",
         op = "revoke" => sid \in Signed',
         NEW q, q = Request(t, op, to, sid)
  PROVE  q \in Exchange /\ ExchangeOK(q)' /\ q.step = "asked"
<1>1. q \in Exchange
  BY DEF Request, Exchange, SessionsGoOn, Signed
<1>2. q.op = op /\ q.to = to /\ q.token = cookie' /\ q.sid = sid /\ q.rows = {} /\ q.step = "asked"
  BY DEF Request
<1> QED
  BY <1>1, <1>2 DEF ExchangeOK, SessionsGoOn

(* The answer x to the request q.                                          *)
Responds(q, x, answer, new, ss) ==
  /\ x.op = q.op /\ x.to = q.to /\ x.token = q.token /\ x.sid = q.sid
  /\ x.step = "done" /\ x.answer = answer /\ x.new = new /\ x.rows = ss

LEMMA SlotOK ==
  ASSUME SessionInv, NEW r \in Exchanges, NEW q, q = request[r], q # None
  PROVE  q \in Exchange /\ ExchangeOK(q) /\ request \in [Exchanges -> Exchange \cup {None}]
BY DEF SessionInv, SessionsTypeOK, ExchangesOK

LEMMA AnswersAre ==
  ASSUME SessionInv, NEW r \in Exchanges, NEW q, q = request[r], q # None,
         NEW answer \in {"ok", "denied", "challenge"}, Answers(r, answer)
  PROVE  \E x \in Exchange : /\ request' = [request EXCEPT ![r] = x]
                             /\ Responds(q, x, answer, q.new, q.rows)
<1>0. q \in Exchange /\ request \in [Exchanges -> Exchange \cup {None}]
  BY SlotOK
<1> PICK x : x = [q EXCEPT !.step = "done", !.answer = answer]
  OBVIOUS
<1>1. x \in Exchange /\ Responds(q, x, answer, q.new, q.rows)
  BY <1>0 DEF Exchange, Responds
<1>2. request' = [request EXCEPT ![r] = x]
  BY <1>0 DEF Answers
<1> QED
  BY <1>1, <1>2

LEMMA SignInIs ==
  ASSUME SessionInv, NEW r \in Exchanges, NEW q, q = request[r], q # None,
         NEW s \in Sessions,
         request' = [request EXCEPT ![r].step = "done", ![r].answer = "ok", ![r].new = s]
  PROVE  \E x \in Exchange : /\ request' = [request EXCEPT ![r] = x]
                             /\ Responds(q, x, "ok", s, q.rows)
<1>0. q \in Exchange /\ request \in [Exchanges -> Exchange \cup {None}]
  BY SlotOK
<1> PICK x : x = [q EXCEPT !.step = "done", !.answer = "ok", !.new = s]
  OBVIOUS
<1>1. x \in Exchange /\ Responds(q, x, "ok", s, q.rows)
  BY <1>0 DEF Exchange, Responds
<1>2. request' = [request EXCEPT ![r] = x]
  BY <1>0
<1> QED
  BY <1>1, <1>2

LEMMA ListIs ==
  ASSUME SessionInv, NEW r \in Exchanges, NEW q, q = request[r], q # None,
         NEW ss \in SUBSET Sessions,
         request' = [request EXCEPT ![r].step = "done", ![r].answer = "ok", ![r].rows = ss]
  PROVE  \E x \in Exchange : /\ request' = [request EXCEPT ![r] = x]
                             /\ Responds(q, x, "ok", q.new, ss)
<1>0. q \in Exchange /\ request \in [Exchanges -> Exchange \cup {None}]
  BY SlotOK
<1> PICK x : x = [q EXCEPT !.step = "done", !.answer = "ok", !.rows = ss]
  OBVIOUS
<1>1. x \in Exchange /\ Responds(q, x, "ok", q.new, ss)
  BY <1>0 DEF Exchange, Responds
<1>2. request' = [request EXCEPT ![r] = x]
  BY <1>0
<1> QED
  BY <1>1, <1>2

(* The gateway answers, with or without a change of the sessions.          *)
LEMMA AnswerKeeps ==
  ASSUME SessionInv, SessionsGoOn, tab' = tab, cookie' = cookie,
         NEW r \in Exchanges, NEW q, q = request[r], q # None,
         NEW answer, NEW new, NEW ss, ss \subseteq Signed',
         answer = "ok" =>
           /\ q.op \in LoginOps => new \in Signed'
           /\ q.op = "logout" => q.token # None /\ session'[q.token] = "revoked"
           /\ q.op = "revoke" => session'[q.sid] = "revoked",
         answer = "denied" /\ q.op \notin LoginOps =>
           q.token = None \/ q.token \in expired' \/ session'[q.token] = "revoked",
         NEW x \in Exchange, Responds(q, x, answer, new, ss),
         request' = [request EXCEPT ![r] = x]
  PROVE  SessionInv'
<1>1. ExchangeOK(q)'
  BY SlotOK, ExchangeGoesOn DEF SessionInv
<1>2. ExchangeOK(x)'
  BY <1>1 DEF ExchangeOK, LoginOps, Responds
<1> QED
  BY <1>2, SlotKeeps

(* An answer that changes no session.                                      *)
LEMMA PlainAnswerKeeps ==
  ASSUME SessionInv, NEW r \in Exchanges, NEW q, q = request[r], q # None,
         UNCHANGED <<session, expired, cookie, tab, allowed>>,
         NEW answer \in {"ok", "denied", "challenge"}, Answers(r, answer),
         answer = "ok" => q.op = "state",
         answer = "denied" /\ q.op \notin LoginOps =>
           q.token = None \/ q.token \in expired' \/ session'[q.token] = "revoked"
  PROVE  SessionInv'
<1>1. SessionsGoOn /\ q.rows \subseteq Signed'
  BY SlotOK DEF Signed, ExchangeOK, SessionInv, SessionsTypeOK, SessionsGoOn
<1> PICK x \in Exchange : /\ request' = [request EXCEPT ![r] = x]
                          /\ Responds(q, x, answer, q.new, q.rows)
  BY AnswersAre
<1> QED
  BY <1>1, AnswerKeeps DEF LoginOps

LEMMA DeniesKeeps ==
  ASSUME SessionInv, NEW r \in Exchanges, Denies(r)
  PROVE  SessionInv'
<1> PICK q : q = request[r]
  OBVIOUS
<1>1. q # None /\ (q.token = None \/ q.token \in expired')
  BY DEF Denies, Asked, Verified
<1> QED
  BY <1>1, PlainAnswerKeeps DEF Denies

LEMMA StateKeeps ==
  ASSUME SessionInv, NEW r \in Exchanges, State(r)
  PROVE  SessionInv'
<1> PICK q : q = request[r]
  OBVIOUS
<1>1. q # None /\ q.op = "state" /\ q.token \in Signed
  BY SlotOK DEF State, Asked, Verified, ExchangeOK
<1> PICK a \in {"ok", "denied"} : a = IF session[q.token] = "live" THEN "ok" ELSE "denied"
  OBVIOUS
<1>2. a = "denied" => session'[q.token] = "revoked"
  BY <1>1 DEF State, Signed, SessionInv, SessionsTypeOK
<1>3. Answers(r, a) /\ UNCHANGED <<session, expired, cookie, tab, allowed>>
  BY DEF State
<1> QED
  BY <1>1, <1>2, <1>3, PlainAnswerKeeps

LEMMA ListSessionsKeeps ==
  ASSUME SessionInv, NEW r \in Exchanges, ListSessions(r)
  PROVE  SessionInv'
<1> PICK q : q = request[r]
  OBVIOUS
<1> PICK ss \in SUBSET Sessions : ss = {s \in Sessions : session[s] = "live"}
  OBVIOUS
<1>1. q # None /\ q.op = "list" /\ ss \subseteq Signed
  BY SessionsAssumption DEF ListSessions, Asked, Signed, SessionInv, SessionsTypeOK
<1>2. SessionsGoOn /\ tab' = tab /\ cookie' = cookie /\ ss \subseteq Signed'
  BY <1>1 DEF ListSessions, Signed, SessionInv, SessionsTypeOK, SessionsGoOn
<1> PICK x \in Exchange : /\ request' = [request EXCEPT ![r] = x]
                          /\ Responds(q, x, "ok", q.new, ss)
  BY <1>1, ListIs DEF ListSessions
<1> QED
  BY <1>1, <1>2, AnswerKeeps DEF LoginOps

(* Sessions that are revoked stay in the table, and no live one is made.   *)
LEMMA RevokedGoesOn ==
  ASSUME SessionInv, NEW ss, Revoked(ss), UNCHANGED <<expired, cookie, allowed>>
  PROVE  /\ SessionsGoOn /\ Signed' = Signed
         /\ \A s \in Signed : s \in ss => session'[s] = "revoked"
BY SessionsAssumption DEF Revoked, Signed, SessionInv, SessionsTypeOK, SessionsGoOn

LEMMA RevocationKeeps ==
  ASSUME SessionInv, NEW r \in Exchanges, RevokeSession(r) \/ RevokeOtherSessions(r)
  PROVE  SessionInv'
<1> PICK q : q = request[r]
  OBVIOUS
<1>1. q # None /\ q.token \in Signed /\ (q.op = "revoke" => q.sid \in Signed) /\ q.rows \subseteq Signed
  BY SlotOK DEF RevokeSession, RevokeOtherSessions, Asked, Verified, ExchangeOK
<1> PICK x \in Exchange : /\ request' = [request EXCEPT ![r] = x]
                          /\ Responds(q, x, "ok", q.new, q.rows)
  BY <1>1, AnswersAre DEF RevokeSession, RevokeOtherSessions
<1>2. tab' = tab /\ cookie' = cookie /\ q.token # None
  BY <1>1, SessionsAssumption DEF RevokeSession, RevokeOtherSessions, Signed
<1>3. CASE RevokeSession(r)
  <2> PICK u : u = IF q.op = "logout" THEN q.token ELSE q.sid
    OBVIOUS
  <2>1. SessionsGoOn /\ Signed' = Signed /\ \A s \in Signed : s = u => session'[s] = "revoked"
    BY <1>3, RevokedGoesOn DEF RevokeSession
  <2>2. q.op \in {"logout", "revoke"}
    BY <1>3 DEF RevokeSession, Asked
  <2>3. /\ q.op = "logout" => session'[q.token] = "revoked"
        /\ q.op = "revoke" => session'[q.sid] = "revoked"
    BY <1>1, <2>1
  <2> QED
    BY <1>1, <1>2, <2>1, <2>2, <2>3, AnswerKeeps DEF LoginOps
<1>4. CASE RevokeOtherSessions(r)
  <2>1. SessionsGoOn /\ Signed' = Signed
    BY <1>4, RevokedGoesOn DEF RevokeOtherSessions
  <2>2. q.op = "others"
    BY <1>4 DEF RevokeOtherSessions, Asked
  <2> QED
    BY <1>1, <1>2, <2>1, <2>2, AnswerKeeps DEF LoginOps
<1> QED
  BY <1>3, <1>4

(* A row for a session there was not.                                      *)
LEMMA RowGoesOn ==
  ASSUME SessionInv, NEW s \in Unused, session' = [session EXCEPT ![s] = "live"],
         UNCHANGED <<expired, cookie, allowed>>
  PROVE  SessionsGoOn /\ Signed \subseteq Signed' /\ s \in Signed'
BY SessionsAssumption DEF Unused, Signed, SessionInv, SessionsTypeOK, SessionsGoOn

LEMMA LoginKeeps ==
  ASSUME SessionInv, NEW r \in Exchanges, SignsIn(r) \/ RefusesLogin(r) \/ Challenges(r)
  PROVE  SessionInv'
<1> PICK q : q = request[r]
  OBVIOUS
<1>1. q # None /\ q.op \in LoginOps /\ q.rows \subseteq Signed
  BY SlotOK DEF SignsIn, RefusesLogin, Challenges, Asked, LoginOps, ExchangeOK
<1>2. CASE SignsIn(r)
  <2> PICK s \in Unused : s = CHOOSE u \in Unused : TRUE
    BY <1>2 DEF SignsIn
  <2>1. SessionsGoOn /\ Signed \subseteq Signed' /\ s \in Signed'
    BY <1>2, RowGoesOn DEF SignsIn
  <2> PICK x \in Exchange : /\ request' = [request EXCEPT ![r] = x]
                            /\ Responds(q, x, "ok", s, q.rows)
    BY <1>1, <1>2, SignInIs DEF SignsIn, Unused
  <2>2. tab' = tab /\ cookie' = cookie
    BY <1>2 DEF SignsIn
  <2> QED
    BY <1>1, <2>1, <2>2, AnswerKeeps DEF LoginOps
<1>3. CASE RefusesLogin(r)
  BY <1>1, <1>3, PlainAnswerKeeps DEF RefusesLogin
<1>4. CASE Challenges(r)
  BY <1>1, <1>4, PlainAnswerKeeps DEF Challenges
<1> QED
  BY <1>2, <1>3, <1>4

(* Nothing of the browser changes.                                         *)
LEMMA ElsewhereKeeps ==
  ASSUME SessionInv,
         SignsInElsewhere \/ \E s \in Sessions : RevokedElsewhere(s) \/ Expires(s)
  PROVE  SessionInv'
<1>1. tab' = tab /\ request' = request
  BY DEF SignsInElsewhere, RevokedElsewhere, Expires
<1>2. SessionsGoOn
  <2>1. CASE SignsInElsewhere
    <3> PICK s \in Unused : s = CHOOSE u \in Unused : TRUE
      BY <2>1 DEF SignsInElsewhere
    <3> QED
      BY <2>1, RowGoesOn DEF SignsInElsewhere
  <2>2. ASSUME NEW s \in Sessions, RevokedElsewhere(s)
        PROVE  SessionsGoOn
    BY <2>2, RevokedGoesOn DEF RevokedElsewhere
  <2>3. ASSUME NEW s \in Sessions, Expires(s)
        PROVE  SessionsGoOn
    BY <2>3 DEF Expires, SessionsGoOn, SessionInv, SessionsTypeOK, Signed
  <2> QED
    BY <2>1, <2>2, <2>3
<1>3. Signed \subseteq Signed'
  BY <1>2 DEF Signed, SessionInv, SessionsTypeOK, SessionsGoOn
<1>4. tab' \in [Tabs -> Shows] /\ \A t \in Tabs : tab'[t].listed \subseteq Signed'
  BY <1>1, <1>3 DEF SessionInv, SessionsTypeOK, TabsOK, TabOK
<1>5. request' \in [Exchanges -> Exchange \cup {None}]
  BY <1>1 DEF SessionInv, SessionsTypeOK
<1> QED
  BY <1>1, <1>2, <1>4, <1>5, SessionsKeep

LEMMA SessionsStay ==
  ASSUME SessionInv, UNCHANGED <<session, expired, cookie, allowed>>
  PROVE  SessionsGoOn
BY DEF SessionInv, SessionsTypeOK, SessionsGoOn, Signed

(* A tab changes and slot r is given to q.                                 *)
LEMMA PageAndSlotKeep ==
  ASSUME SessionInv, SessionsGoOn,
         NEW t \in Tabs, NEW v \in Shows, v.listed \subseteq Signed', tab' = [tab EXCEPT ![t] = v],
         NEW fs \in {request, Left(t), Orphaned(t)},
         NEW r \in Exchanges, NEW q \in Exchange \cup {None}, q # None => ExchangeOK(q)',
         request' = [fs EXCEPT ![r] = q]
  PROVE  SessionInv'
<1>1. fs \in [Exchanges -> Exchange \cup {None}]
  BY LeftOK
<1>2. /\ request' \in [Exchanges -> Exchange \cup {None}]
      /\ \A i \in Exchanges, x \in Exchange : x = request'[i] => x = fs[i] \/ ExchangeOK(x)'
  BY <1>1, SessionsAssumption
<1> QED
  BY <1>2, PageKeeps

LEMMA TabIs ==
  ASSUME SessionInv, NEW t \in Tabs
  PROVE  tab \in [Tabs -> Shows] /\ tab[t] \in Shows /\ tab[t].listed \subseteq Signed
BY DEF SessionInv, SessionsTypeOK, TabsOK, TabOK

(* The guard lets a tab in.                                                *)
LEMMA EntersKeeps ==
  ASSUME SessionInv, SessionsGoOn, NEW t \in Tabs, NEW r \in Exchanges, NEW p \in Pages,
         NEW user \in BOOLEAN, Enters(t, r, p, user)
  PROVE  SessionInv'
<1> PICK v : v = [tab[t] EXCEPT !.at = p, !.user = user, !.checked = TRUE, !.challenge = FALSE,
                                !.listed = {}, !.acting = None]
  OBVIOUS
<1>1. tab \in [Tabs -> Shows] /\ tab[t] \in Shows
  BY TabIs
<1>2. v \in Shows /\ v.listed = {}
  BY <1>1 DEF Shows
<1>3. tab' = [tab EXCEPT ![t] = v]
  BY <1>1 DEF Enters
<1> PICK q : q = IF p = "settings" THEN Request(t, "list", None, None) ELSE None
  OBVIOUS
<1>4. q \in Exchange \cup {None} /\ (q # None => ExchangeOK(q)')
  BY RequestOK DEF LoginOps
<1>5. request' = [Left(t) EXCEPT ![r] = q]
  BY DEF Enters
<1> QED
  BY <1>2, <1>3, <1>4, <1>5, PageAndSlotKeep

(* The guard asks.                                                         *)
LEMMA AsksStateKeeps ==
  ASSUME SessionInv, SessionsGoOn, NEW t \in Tabs, NEW r \in Exchanges, NEW p \in Pages,
         NEW user \in BOOLEAN, NEW checked \in BOOLEAN, AsksState(t, r, p, user, checked)
  PROVE  SessionInv'
<1> PICK v : v = [tab[t] EXCEPT !.user = user, !.checked = checked]
  OBVIOUS
<1>1. tab \in [Tabs -> Shows] /\ tab[t] \in Shows /\ tab[t].listed \subseteq Signed'
  BY TabIs DEF SessionsGoOn, SessionInv, SessionsTypeOK, Signed
<1>2. v \in Shows /\ v.listed \subseteq Signed'
  BY <1>1 DEF Shows
<1>3. tab' = [tab EXCEPT ![t] = v]
  BY <1>1 DEF AsksState
<1> PICK q : q = Request(t, "state", p, None)
  OBVIOUS
<1>4. q \in Exchange /\ ExchangeOK(q)'
  BY RequestOK DEF LoginOps
<1>5. request' = [Left(t) EXCEPT ![r] = q]
  BY DEF AsksState
<1> QED
  BY <1>2, <1>3, <1>4, <1>5, PageAndSlotKeep

LEMMA GuardsKeeps ==
  ASSUME SessionInv, SessionsGoOn, NEW t \in Tabs, NEW r \in Exchanges, NEW p \in Pages,
         NEW user \in BOOLEAN, NEW checked \in BOOLEAN, Guards(t, r, p, user, checked)
  PROVE  SessionInv'
<1>1. CASE user /\ checked
  <2> PICK x \in Pages : x = IF p = "system" /\ ~allowed THEN "home" ELSE p
    BY DEF Pages
  <2> QED
    BY <1>1, EntersKeeps DEF Guards
<1>2. CASE ~(user /\ checked)
  BY <1>2, AsksStateKeeps DEF Guards
<1> QED
  BY <1>1, <1>2

LEMMA SendsKeeps ==
  ASSUME SessionInv, NEW t \in Tabs, NEW r \in Exchanges,
         NEW op \in LoginOps \cup {"list", "logout", "others"},
         NEW to \in Pages \cup {"login", None}, op \in LoginOps => to = "home",
         Sends(t, r, op, to, None)
  PROVE  SessionInv'
<1> PICK q : q = Request(t, op, to, None)
  OBVIOUS
<1>1. SessionsGoOn /\ tab' = tab /\ request' = [request EXCEPT ![r] = q]
  BY SessionsStay DEF Sends
<1>2. q \in Exchange /\ ExchangeOK(q)'
  BY <1>1, RequestOK DEF LoginOps
<1> QED
  BY <1>1, <1>2, SlotKeeps

LEMMA OpensKeeps ==
  ASSUME SessionInv, NEW t \in Tabs, NEW r \in Exchanges, NEW p \in Pages \cup {"login"},
         Opens(t, r, p)
  PROVE  SessionInv'
<1>1. SessionsGoOn
  BY SessionsStay DEF Opens
<1> PICK known \in BOOLEAN : known = (cookie # None)
  OBVIOUS
<1> PICK at \in {"login", "blank"} : at = IF p = "login" THEN "login" ELSE "blank"
  OBVIOUS
<1> PICK v : v = [Closed EXCEPT !.at = at, !.user = known]
  OBVIOUS
<1>2. v \in Shows /\ v.listed = {}
  BY DEF Shows, Closed
<1>3. tab' = [tab EXCEPT ![t] = v]
  BY DEF Opens
<1>4. CASE p = "login"
  <2>1. request' = request
    BY <1>4 DEF Opens
  <2>2. request \in [Exchanges -> Exchange \cup {None}]
    BY DEF SessionInv, SessionsTypeOK
  <2> QED
    BY <1>1, <1>2, <1>3, <2>1, <2>2, PageKeeps
<1>5. CASE p # "login"
  <2> PICK q : q = Request(t, "state", p, None)
    OBVIOUS
  <2>1. q \in Exchange /\ ExchangeOK(q)'
    BY <1>1, <1>5, RequestOK DEF LoginOps
  <2>2. request' = [request EXCEPT ![r] = q]
    BY <1>5 DEF Opens
  <2> QED
    BY <1>1, <1>2, <1>3, <2>1, <2>2, PageAndSlotKeep
<1> QED
  BY <1>4, <1>5

LEMMA ClosesKeeps ==
  ASSUME SessionInv, NEW t \in Tabs, Closes(t)
  PROVE  SessionInv'
<1>1. SessionsGoOn /\ tab' = [tab EXCEPT ![t] = Closed] /\ request' = Orphaned(t)
  BY SessionsStay DEF Closes
<1>2. Closed \in Shows /\ Closed.listed = {}
  BY DEF Shows, Closed
<1>3. request' \in [Exchanges -> Exchange \cup {None}]
  BY <1>1, LeftOK
<1> QED
  BY <1>1, <1>2, <1>3, PageKeeps

(* The login page is shown, by a tab that changes to v.                    *)
LEMMA ToLoginIs ==
  ASSUME SessionInv, SessionsGoOn, NEW t \in Tabs
  PROVE  /\ \E v \in Shows : v.listed = {} /\ ToLogin(t) = [tab EXCEPT ![t] = v]
         /\ \E v \in Shows : v.listed = {} /\ [ToLogin(t) EXCEPT ![t].user = FALSE] = [tab EXCEPT ![t] = v]
         /\ \E v \in Shows : /\ v.listed = {}
                             /\ [ToLogin(t) EXCEPT ![t].user = FALSE, ![t].checked = FALSE]
                                  = [tab EXCEPT ![t] = v]
<1> PICK v : v = [tab[t] EXCEPT !.at = "login", !.challenge = FALSE, !.listed = {}, !.acting = None]
  OBVIOUS
<1> PICK w : w = [v EXCEPT !.user = FALSE]
  OBVIOUS
<1> PICK x : x = [v EXCEPT !.user = FALSE, !.checked = FALSE]
  OBVIOUS
<1>1. tab \in [Tabs -> Shows] /\ tab[t] \in Shows
  BY TabIs
<1>2. v \in Shows /\ v.listed = {}
  BY <1>1 DEF Shows
<1>3. w \in Shows /\ w.listed = {} /\ x \in Shows /\ x.listed = {}
  BY <1>2 DEF Shows
<1>4. ToLogin(t) = [tab EXCEPT ![t] = v]
  BY <1>1 DEF ToLogin
<1>5. [ToLogin(t) EXCEPT ![t].user = FALSE] = [tab EXCEPT ![t] = w]
  BY <1>1, <1>2, <1>4
<1>6. [ToLogin(t) EXCEPT ![t].user = FALSE, ![t].checked = FALSE] = [tab EXCEPT ![t] = x]
  BY <1>1, <1>2, <1>4
<1> QED
  BY <1>2, <1>3, <1>4, <1>5, <1>6

LEMMA NavigatesKeeps ==
  ASSUME SessionInv, NEW t \in Tabs, NEW r \in Exchanges, NEW p \in Pages \cup {"login"},
         Navigates(t, r, p)
  PROVE  SessionInv'
<1>1. SessionsGoOn
  BY SessionsStay DEF Navigates
<1>2. CASE p = "login"
  <2> PICK v \in Shows : v.listed = {} /\ tab' = [tab EXCEPT ![t] = v]
    BY <1>1, <1>2, ToLoginIs DEF Navigates
  <2>1. request' = Left(t) /\ request' \in [Exchanges -> Exchange \cup {None}]
    BY <1>2, LeftOK DEF Navigates
  <2> QED
    BY <1>1, <2>1, PageKeeps
<1>3. CASE p # "login"
  <2>1. tab[t].user \in BOOLEAN /\ tab[t].checked \in BOOLEAN
    BY TabIs DEF Shows
  <2> QED
    BY <1>1, <1>3, <2>1, GuardsKeeps DEF Navigates
<1> QED
  BY <1>2, <1>3

LEMMA TimePassesKeeps ==
  ASSUME SessionInv, NEW t \in Tabs, TimePasses(t)
  PROVE  SessionInv'
<1>1. SessionsGoOn /\ request' = request /\ session' = session
  BY SessionsStay DEF TimePasses
<1> PICK v : v = [tab[t] EXCEPT !.checked = FALSE]
  OBVIOUS
<1>2. v \in Shows /\ v.listed \subseteq Signed'
  BY <1>1, TabIs DEF Shows, Signed
<1>3. tab' = [tab EXCEPT ![t] = v]
  BY TabIs DEF TimePasses
<1>4. request \in [Exchanges -> Exchange \cup {None}]
  BY DEF SessionInv, SessionsTypeOK
<1> QED
  BY <1>1, <1>2, <1>3, <1>4, PageKeeps

LEMMA AsksRevokeKeeps ==
  ASSUME SessionInv, NEW t \in Tabs, NEW r \in Exchanges, NEW s \in Sessions, AsksRevoke(t, r, s)
  PROVE  SessionInv'
<1>1. SessionsGoOn /\ session' = session
  BY SessionsStay DEF AsksRevoke
<1>2. s \in Signed'
  BY <1>1, TabIs DEF AsksRevoke, Signed
<1> PICK v : v = [tab[t] EXCEPT !.acting = s]
  OBVIOUS
<1>3. v \in Shows /\ v.listed \subseteq Signed'
  BY <1>1, TabIs DEF Shows, Signed
<1>4. tab' = [tab EXCEPT ![t] = v]
  BY TabIs DEF AsksRevoke
<1> PICK to \in {"login", "settings"} : to = IF s = tab[t].current THEN "login" ELSE "settings"
  OBVIOUS
<1> PICK q : q = Request(t, "revoke", to, s)
  OBVIOUS
<1>5. q \in Exchange /\ ExchangeOK(q)'
  BY <1>1, <1>2, RequestOK DEF LoginOps, Pages
<1>6. request' = [request EXCEPT ![r] = q]
  BY DEF AsksRevoke
<1> QED
  BY <1>1, <1>3, <1>4, <1>5, <1>6, PageAndSlotKeep

LEMMA TabAsksKeep ==
  ASSUME SessionInv, NEW t \in Tabs, NEW r \in Exchanges,
         Submits(t, r) \/ AsksLogout(t, r) \/ AsksRevokeOthers(t, r)
  PROVE  SessionInv'
<1>1. CASE Submits(t, r)
  <2> PICK op \in LoginOps : op = IF tab[t].challenge THEN "verify" ELSE "login"
    BY DEF LoginOps
  <2> QED
    BY <1>1, SendsKeeps DEF Submits, Pages
<1>2. CASE AsksLogout(t, r)
  BY <1>2, SendsKeeps DEF AsksLogout, LoginOps
<1>3. CASE AsksRevokeOthers(t, r)
  BY <1>3, SendsKeeps DEF AsksRevokeOthers, LoginOps, Pages
<1> QED
  BY <1>1, <1>2, <1>3

(* An answer is taken: q is the request of slot r, or that request failed. *)
Taken(r, q) ==
  /\ request[r] # None
  /\ q \in Exchange
  /\ q.op = "state" => q.to \in Pages
  /\ q.op \in LoginOps => q.to = "home"
  /\ q.rows \subseteq Signed'

LEMMA StaysKeeps ==
  ASSUME SessionInv, SessionsGoOn, NEW r \in Exchanges, Stays(r)
  PROVE  SessionInv'
BY SlotKeeps DEF Stays, Free

(* The tab changes to v and the slot is freed.                             *)
LEMMA TakenKeeps ==
  ASSUME SessionInv, SessionsGoOn, NEW t \in Tabs, NEW r \in Exchanges,
         NEW v \in Shows, v.listed \subseteq Signed', tab' = [tab EXCEPT ![t] = v],
         NEW fs \in {request, Left(t), Orphaned(t)}, request' = [fs EXCEPT ![r] = None]
  PROVE  SessionInv'
BY PageAndSlotKeep

LEMMA TabGoesOn ==
  ASSUME SessionInv, SessionsGoOn, NEW t \in Tabs
  PROVE  tab \in [Tabs -> Shows] /\ tab[t] \in Shows /\ tab[t].listed \subseteq Signed'
BY TabIs DEF SessionsGoOn, SessionInv, SessionsTypeOK, Signed

LEMMA StateAnsweredKeeps ==
  ASSUME SessionInv, SessionsGoOn, NEW t \in Tabs, NEW r \in Exchanges, NEW q, Taken(r, q),
         q.tab = t, q.op = "state", StateAnswered(r, q)
  PROVE  SessionInv'
<1>1. /\ tab \in [Tabs -> Shows] /\ tab[t] \in Shows /\ tab[t].listed \subseteq Signed'
      /\ tab[t].user \in BOOLEAN
  BY TabGoesOn DEF Shows
<1>2. q.to \in Pages /\ "home" \in Pages
  BY DEF Taken, Pages
<1>3. CASE q.answer = "ok" /\ q.here
  <2>1. CASE q.to = "system" /\ ~(tab[t].user /\ allowed)
    BY <1>1, <1>2, <1>3, <2>1, GuardsKeeps DEF StateAnswered
  <2>2. CASE ~(q.to = "system" /\ ~(tab[t].user /\ allowed))
    BY <1>1, <1>2, <1>3, <2>2, EntersKeeps DEF StateAnswered
  <2> QED
    BY <2>1, <2>2
<1>4. CASE q.answer = "ok" /\ ~q.here
  <2> PICK v : v = [tab[t] EXCEPT !.checked = TRUE]
    OBVIOUS
  <2>1. v \in Shows /\ v.listed \subseteq Signed'
    BY <1>1 DEF Shows
  <2>2. tab' = [tab EXCEPT ![t] = v] /\ request' = [request EXCEPT ![r] = None]
    BY <1>1, <1>4 DEF StateAnswered, Free
  <2> QED
    BY <2>1, <2>2, TakenKeeps
<1>5. CASE q.answer # "ok" /\ q.here
  <2>1. /\ tab' = [ToLogin(t) EXCEPT ![t].user = FALSE, ![t].checked = FALSE]
        /\ request' = [Left(t) EXCEPT ![r] = None]
    BY <1>5 DEF StateAnswered
  <2> PICK v \in Shows : v.listed = {} /\ tab' = [tab EXCEPT ![t] = v]
    BY <2>1, ToLoginIs
  <2> QED
    BY <2>1, TakenKeeps
<1>6. CASE q.answer # "ok" /\ ~q.here
  <2> PICK v : v = [tab[t] EXCEPT !.user = FALSE, !.checked = FALSE]
    OBVIOUS
  <2>1. v \in Shows /\ v.listed \subseteq Signed'
    BY <1>1 DEF Shows
  <2>2. tab' = [tab EXCEPT ![t] = v] /\ request' = [request EXCEPT ![r] = None]
    BY <1>1, <1>6 DEF StateAnswered
  <2> QED
    BY <2>1, <2>2, TakenKeeps
<1> QED
  BY <1>3, <1>4, <1>5, <1>6

LEMMA LoginAnsweredKeeps ==
  ASSUME SessionInv, SessionsGoOn, NEW t \in Tabs, NEW r \in Exchanges, NEW q, Taken(r, q),
         q.tab = t, q.op \in LoginOps, LoginAnswered(r, q)
  PROVE  SessionInv'
<1>1. /\ tab \in [Tabs -> Shows] /\ tab[t] \in Shows /\ tab[t].listed \subseteq Signed'
      /\ tab[t].checked \in BOOLEAN /\ q.to \in Pages
  BY TabGoesOn DEF Shows, Taken, Pages
<1>2. CASE q.answer = "ok"
  BY <1>1, <1>2, GuardsKeeps DEF LoginAnswered
<1>3. CASE q.answer = "challenge"
  <2> PICK z \in BOOLEAN : z = (q.here /\ tab[t].at = "login")
    OBVIOUS
  <2> PICK v : v = [tab[t] EXCEPT !.challenge = z]
    OBVIOUS
  <2>1. v \in Shows /\ v.listed \subseteq Signed'
    BY <1>1 DEF Shows
  <2>2. tab' = [tab EXCEPT ![t] = v] /\ request' = [request EXCEPT ![r] = None]
    BY <1>1, <1>3 DEF LoginAnswered, Free
  <2> QED
    BY <2>1, <2>2, TakenKeeps
<1>4. CASE q.answer \notin {"ok", "challenge"}
  BY <1>4, StaysKeeps DEF LoginAnswered
<1> QED
  BY <1>2, <1>3, <1>4

LEMMA LogoutAnsweredKeeps ==
  ASSUME SessionInv, SessionsGoOn, NEW t \in Tabs, NEW r \in Exchanges, NEW q,
         q.tab = t, LogoutAnswered(r, q)
  PROVE  SessionInv'
<1>1. CASE q.answer = "ok"
  <2>1. /\ tab' = [ToLogin(t) EXCEPT ![t].user = FALSE]
        /\ request' = [Left(t) EXCEPT ![r] = None]
    BY <1>1 DEF LogoutAnswered
  <2> PICK v \in Shows : v.listed = {} /\ tab' = [tab EXCEPT ![t] = v]
    BY <2>1, ToLoginIs
  <2> QED
    BY <2>1, TakenKeeps
<1>2. CASE q.answer # "ok"
  BY <1>2, StaysKeeps DEF LogoutAnswered
<1> QED
  BY <1>1, <1>2

LEMMA RevokeAnsweredKeeps ==
  ASSUME SessionInv, SessionsGoOn, NEW t \in Tabs, NEW r \in Exchanges, NEW q, Taken(r, q),
         q.tab = t, RevokeAnswered(r, q)
  PROVE  SessionInv'
<1>1. tab \in [Tabs -> Shows] /\ tab[t] \in Shows /\ tab[t].listed \subseteq Signed'
  BY TabGoesOn
<1> PICK enabled : enabled =
      IF q.op = "revoke" /\ q.here THEN [tab EXCEPT ![t].acting = None] ELSE tab
  OBVIOUS
<1>2. \E v \in Shows : v.listed \subseteq Signed' /\ enabled = [tab EXCEPT ![t] = v]
  <2> PICK v : v = [tab[t] EXCEPT !.acting = None]
    OBVIOUS
  <2>1. v \in Shows /\ v.listed \subseteq Signed' /\ [tab EXCEPT ![t].acting = None] = [tab EXCEPT ![t] = v]
    BY <1>1 DEF Shows
  <2>2. tab = [tab EXCEPT ![t] = tab[t]]
    BY <1>1
  <2> QED
    BY <1>1, <2>1, <2>2
<1>3. CASE q.answer = "ok" /\ q.to = "login"
  <2> PICK known \in BOOLEAN : known = (cookie' # None)
    OBVIOUS
  <2> PICK v : v = [Closed EXCEPT !.at = "login", !.user = known]
    OBVIOUS
  <2>1. v \in Shows /\ v.listed = {}
    BY DEF Shows, Closed
  <2>2. tab' = [tab EXCEPT ![t] = v] /\ request' = [Orphaned(t) EXCEPT ![r] = None]
    BY <1>3 DEF RevokeAnswered
  <2> QED
    BY <2>1, <2>2, TakenKeeps
<1>4. CASE q.answer = "ok" /\ q.to = "settings"
  <2> PICK x : x = Request(t, "list", None, None)
    OBVIOUS
  <2> PICK y : y = [x EXCEPT !.here = q.here]
    OBVIOUS
  <2>1. x \in Exchange /\ ExchangeOK(x)'
    BY RequestOK DEF LoginOps
  <2>2. /\ y \in Exchange
        /\ y.op = x.op /\ y.to = x.to /\ y.token = x.token /\ y.rows = x.rows /\ y.sid = x.sid
        /\ y.step = x.step /\ y.answer = x.answer /\ y.new = x.new
    BY <2>1 DEF Exchange, Taken
  <2>3. ExchangeOK(y)'
    BY <2>1, <2>2 DEF ExchangeOK
  <2>4. tab' = enabled /\ request' = [request EXCEPT ![r] = y]
    BY <1>4 DEF RevokeAnswered
  <2> QED
    BY <1>2, <2>2, <2>3, <2>4, PageAndSlotKeep
<1>5. CASE ~(q.answer = "ok" /\ q.to \in {"login", "settings"})
  <2>1. tab' = enabled /\ request' = [request EXCEPT ![r] = None]
    BY <1>5 DEF RevokeAnswered, Free
  <2> QED
    BY <1>2, <2>1, TakenKeeps
<1> QED
  BY <1>3, <1>4, <1>5

LEMMA ListAnsweredKeeps ==
  ASSUME SessionInv, SessionsGoOn, NEW t \in Tabs, NEW r \in Exchanges, NEW q, Taken(r, q),
         q.tab = t, ListAnswered(r, q)
  PROVE  SessionInv'
<1>1. CASE q.answer = "ok" /\ q.here
  <2> PICK v : v = [tab[t] EXCEPT !.listed = q.rows, !.current = q.token]
    OBVIOUS
  <2>1. tab \in [Tabs -> Shows] /\ tab[t] \in Shows
    BY TabGoesOn
  <2>2. v \in Shows /\ v.listed \subseteq Signed'
    BY <2>1 DEF Shows, Taken, Exchange
  <2>3. tab' = [tab EXCEPT ![t] = v] /\ request' = [request EXCEPT ![r] = None]
    BY <1>1, <2>1 DEF ListAnswered, Free
  <2> QED
    BY <2>2, <2>3, TakenKeeps
<1>2. CASE ~(q.answer = "ok" /\ q.here)
  BY <1>2, StaysKeeps DEF ListAnswered
<1> QED
  BY <1>1, <1>2

LEMMA AnsweredKeeps ==
  ASSUME SessionInv, SessionsGoOn, NEW r \in Exchanges, NEW q, Taken(r, q), Answered(r, q)
  PROVE  SessionInv'
<1>1. CASE q.tab = None
  BY <1>1, StaysKeeps DEF Answered
<1>2. CASE q.tab # None
  <2> PICK t \in Tabs : t = q.tab
    BY <1>2 DEF Taken, Exchange
  <2>1. CASE q.op = "state"
    BY <1>2, <2>1, StateAnsweredKeeps DEF Answered, LoginOps
  <2>2. CASE q.op \in LoginOps
    BY <1>2, <2>2, LoginAnsweredKeeps DEF Answered, LoginOps
  <2>3. CASE q.op = "logout"
    BY <1>2, <2>3, LogoutAnsweredKeeps DEF Answered, LoginOps
  <2>4. CASE q.op = "list"
    BY <1>2, <2>4, ListAnsweredKeeps DEF Answered, LoginOps
  <2>5. CASE q.op \in {"revoke", "others"}
    BY <1>2, <2>5, RevokeAnsweredKeeps DEF Answered, LoginOps
  <2> QED
    BY <2>1, <2>2, <2>3, <2>4, <2>5 DEF Taken, Exchange
<1> QED
  BY <1>1, <1>2

(* The request of slot r, after which nothing came of it.                  *)
LEMMA FailedIsTaken ==
  ASSUME SessionInv, NEW r \in Exchanges, request[r] # None, session' = session,
         NEW q, q = [request[r] EXCEPT !.answer = "failed"]
  PROVE  Taken(r, q) /\ q.answer = "failed"
<1> PICK x : x = request[r]
  OBVIOUS
<1>1. x \in Exchange /\ ExchangeOK(x)
  BY SlotOK
<1>2. /\ q \in Exchange /\ q.answer = "failed"
      /\ q.op = x.op /\ q.to = x.to /\ q.rows = x.rows
  BY <1>1 DEF Exchange
<1> QED
  BY <1>1, <1>2 DEF Taken, ExchangeOK, Signed

LEMMA AnswersTakenKeep ==
  ASSUME SessionInv, NEW r \in Exchanges, AnswerArrives(r) \/ AnswerFails(r) \/ AnswerLost(r)
  PROVE  SessionInv'
<1>1. session' = session /\ expired' = expired /\ allowed' = allowed /\ request[r] # None
  BY DEF AnswerArrives, AnswerFails, AnswerLost
<1>2. ASSUME cookie' \in {None} \cup Signed
      PROVE  SessionsGoOn
  BY <1>1, <1>2 DEF SessionInv, SessionsTypeOK, SessionsGoOn, Signed
<1>3. cookie \in {None} \cup Signed
  BY DEF SessionInv, SessionsTypeOK, Signed
<1>4. CASE AnswerArrives(r)
  <2> PICK q : q = request[r]
    OBVIOUS
  <2>1. q \in Exchange /\ ExchangeOK(q)
    BY <1>1, SlotOK
  <2>2. cookie' = CookieAfter(q) /\ q.step = "done" /\ Answered(r, q)
    BY <1>4 DEF AnswerArrives
  <2>3. cookie' \in {None} \cup Signed
    BY <1>3, <2>1, <2>2 DEF CookieAfter, ExchangeOK
  <2>4. Taken(r, q)
    BY <1>1, <2>1 DEF Taken, ExchangeOK, Signed
  <2> QED
    BY <1>2, <2>2, <2>3, <2>4, AnsweredKeeps
<1>5. CASE AnswerFails(r) \/ AnswerLost(r)
  <2> PICK q : q = [request[r] EXCEPT !.answer = "failed"]
    OBVIOUS
  <2>1. Taken(r, q) /\ q.answer = "failed"
    BY <1>1, FailedIsTaken
  <2>2. cookie' \in {cookie, CookieAfter(q)} /\ Answered(r, q)
    BY <1>5 DEF AnswerFails, AnswerLost
  <2>3. cookie' = cookie
    BY <2>1, <2>2 DEF CookieAfter
  <2> QED
    BY <1>2, <1>3, <2>1, <2>2, <2>3, AnsweredKeeps
<1> QED
  BY <1>4, <1>5

LEMMA SessionsUnchanged ==
  ASSUME SessionInv, UNCHANGED sessionVs
  PROVE  SessionInv'
<1>1. ASSUME NEW q, ExchangeOK(q)
      PROVE  ExchangeOK(q)'
  BY <1>1 DEF sessionVs, ExchangeOK, Signed
<1> QED
  BY <1>1 DEF sessionVs, SessionInv, SessionsTypeOK, TabsOK, TabOK, ExchangesOK, ExchangeOK, Signed

(* What holds of the sessions, the tabs and the requests goes on to hold.  *)
LEMMA SessionsNextKeeps == SessionInv /\ [SessionsNext]_sessionVs => SessionInv'
<1> SUFFICES ASSUME SessionInv, [SessionsNext]_sessionVs PROVE SessionInv'
  OBVIOUS
<1>1. CASE SignsInElsewhere \/ \E s \in Sessions : RevokedElsewhere(s) \/ Expires(s)
  BY <1>1, ElsewhereKeeps
<1>2. ASSUME NEW t \in Tabs, Closes(t) \/ TimePasses(t)
      PROVE  SessionInv'
  BY <1>2, ClosesKeeps, TimePassesKeeps
<1>3. ASSUME NEW t \in Tabs, NEW r \in Exchanges,
             Submits(t, r) \/ AsksLogout(t, r) \/ AsksRevokeOthers(t, r)
      PROVE  SessionInv'
  BY <1>3, TabAsksKeep
<1>4. ASSUME NEW t \in Tabs, NEW r \in Exchanges, NEW p \in Pages \cup {"login"},
             Opens(t, r, p) \/ Navigates(t, r, p)
      PROVE  SessionInv'
  BY <1>4, OpensKeeps, NavigatesKeeps
<1>5. ASSUME NEW t \in Tabs, NEW r \in Exchanges, NEW s \in Sessions, AsksRevoke(t, r, s)
      PROVE  SessionInv'
  BY <1>5, AsksRevokeKeeps
<1>6. ASSUME NEW r \in Exchanges,
             Denies(r) \/ State(r) \/ ListSessions(r) \/ RevokeSession(r) \/ RevokeOtherSessions(r)
      PROVE  SessionInv'
  BY <1>6, DeniesKeeps, StateKeeps, ListSessionsKeeps, RevocationKeeps
<1>7. ASSUME NEW r \in Exchanges, Challenges(r) \/ SignsIn(r) \/ RefusesLogin(r)
      PROVE  SessionInv'
  BY <1>7, LoginKeeps
<1>8. ASSUME NEW r \in Exchanges, AnswerArrives(r) \/ AnswerFails(r) \/ AnswerLost(r)
      PROVE  SessionInv'
  BY <1>8, AnswersTakenKeep
<1>9. CASE UNCHANGED sessionVs
  BY <1>9, SessionsUnchanged
<1> QED
  BY <1>1, <1>2, <1>3, <1>4, <1>5, <1>6, <1>7, <1>8, <1>9 DEF SessionsNext

(* Every request under way carries a token the gateway signed, and an      *)
(* answer on its way stays true: a session it says was revoked is, and a   *)
(* token it denies had expired or its session had been revoked.            *)
THEOREM SessionInductive == SessionsSpec => []SessionInv
BY SessionsStart, SessionsNextKeeps, PTL DEF SessionsSpec

(* The rows, the cookie, the tabs and the requests are of their types, and *)
(* the browser holds tokens of stored sessions only.                       *)
THEOREM SessionTypeCorrect == SessionsSpec => []SessionsTypeOK
<1>1. SessionInv => SessionsTypeOK
  BY DEF SessionInv
<1> QED
  BY <1>1, SessionInductive, PTL

(* A slot does not keep the answer that is taken.                          *)
LEMMA SlotIsTaken ==
  ASSUME SessionInv, NEW r \in Exchanges, NEW q \in Exchange, q = request[r], q.step = "done",
         Answered(r, q)
  PROVE  request'[r] # q
<1>1. /\ request \in [Exchanges -> Exchange \cup {None}] /\ q # None
      /\ \A t : r \in DOMAIN Left(t) /\ r \in DOMAIN Orphaned(t)
  BY SlotOK, SessionsAssumption DEF Left, Orphaned, SessionInv, SessionsTypeOK
<1>2. \A t, op, to, sid : Request(t, op, to, sid).step # q.step
  BY DEF Request
<1>3. \A t, p, user : Enters(t, r, p, user) => request'[r] # q
  BY <1>1, <1>2 DEF Enters
<1>4. \A t, p, user, checked : AsksState(t, r, p, user, checked) => request'[r] # q
  BY <1>1, <1>2 DEF AsksState
<1>5. \A t, p, user, checked : Guards(t, r, p, user, checked) => request'[r] # q
  BY <1>3, <1>4 DEF Guards
<1>6. Free(r) \/ Stays(r) => request'[r] # q
  BY <1>1 DEF Stays, Free
<1>7. StateAnswered(r, q) => request'[r] # q
  BY <1>1, <1>3, <1>5, <1>6 DEF StateAnswered
<1>8. LoginAnswered(r, q) => request'[r] # q
  BY <1>5, <1>6 DEF LoginAnswered
<1>9. LogoutAnswered(r, q) => request'[r] # q
  BY <1>1, <1>6 DEF LogoutAnswered
<1>10. \A y : [Request(q.tab, "list", None, None) EXCEPT !.here = y].step # q.step
  BY DEF Request
<1>11. RevokeAnswered(r, q) => request'[r] # q
  BY <1>1, <1>6, <1>10 DEF RevokeAnswered
<1>12. ListAnswered(r, q) => request'[r] # q
  BY <1>6 DEF ListAnswered
<1> QED
  BY <1>6, <1>7, <1>8, <1>9, <1>11, <1>12 DEF Answered, Exchange, LoginOps

(* Only an answer clears the cookie, and it is the answer to a request of  *)
(* this sign-in, whose session is over, or it crosses.                     *)
LEMMA CookieClearedInTurn ==
  ASSUME SessionInv, SessionsNext, cookie # None, cookie' = None
  PROVE  session'[cookie] = "revoked" \/ cookie \in expired \/ Crossing
<1>1. PICK r \in Exchanges : AnswerArrives(r) \/ AnswerFails(r)
  BY Zenon DEF SessionsNext, SignsInElsewhere, RevokedElsewhere, Expires, Closes, TimePasses, Submits,
     AsksLogout, AsksRevokeOthers, Sends, Opens, Navigates, AsksRevoke, Denies, State, ListSessions,
     RevokeSession, RevokeOtherSessions, Challenges, SignsIn, RefusesLogin, AnswerLost
<1> PICK q : q = request[r]
  OBVIOUS
<1>2. q # None /\ q \in Exchange /\ ExchangeOK(q)
  BY <1>1, SlotOK DEF AnswerArrives, AnswerFails
<1>3. AnswerArrives(r) /\ cookie' = CookieAfter(q)
  <2> PICK f : f = [request[r] EXCEPT !.answer = "failed"]
    OBVIOUS
  <2>1. f.answer = "failed"
    BY <1>2 DEF Exchange
  <2> QED
    BY <1>1, <2>1 DEF AnswerArrives, AnswerFails, CookieAfter
<1>4. q.step = "done" /\ session' = session
  BY <1>3 DEF AnswerArrives
<1>5. CASE q.token = cookie
  <2>1. q.answer = "ok" /\ q.op \in LoginOps => q.new \in Signed
    BY <1>2, <1>4 DEF ExchangeOK
  <2>2. ~(q.answer = "ok" /\ q.op \in LoginOps)
    BY <1>3, <2>1, SessionsAssumption DEF CookieAfter, Signed
  <2> QED
    BY <1>2, <1>3, <1>4, <1>5, <2>2 DEF CookieAfter, ExchangeOK
<1>6. CASE q.token # cookie
  BY <1>2, <1>3, <1>4, <1>6, SlotIsTaken DEF AnswerArrives, Crossing
<1> QED
  BY <1>5, <1>6

(* A browser stays signed in as long as its session lasts: the cookies go  *)
(* only when their session was revoked or their token expired, unless a    *)
(* late answer to a request of another sign-in takes them. This is so for  *)
(* all numbers of sessions, tabs and requests under way.                   *)
THEOREM SignInLasts == SessionsSpec => SignInHolds
<1>1. SessionInv /\ [SessionsNext]_sessionVs =>
        [cookie # None /\ cookie' = None =>
           session'[cookie] = "revoked" \/ cookie \in expired \/ Crossing]_sessionVs
  BY CookieClearedInTurn
<1> QED
  BY <1>1, SessionInductive, PTL DEF SessionsSpec, SignInHolds

-----------------------------------------------------------------------------
(* LogCollectorClient                                                      *)

(* out has been written, q is in the queue, n lines were logged, off: the  *)
(* client gave up. The queue holds the last lines, what was written comes  *)
(* before them, and no line of the last MaxQueue is missing.               *)
Lines(out, q, n, off) ==
  /\ \A i \in 1..Len(q) : q[i] = n - Len(q) + i
  /\ \A i \in 1..Len(out) : out[i] <= n - Len(q)
  /\ \A i, j \in 1..Len(out) : i < j => out[i] < out[j]
  /\ off \/ \A k \in 1..n :
       k > n - MaxQueue /\ k <= n - Len(q) => \E i \in 1..Len(out) : out[i] = k

(* Writing the queue, or emptying it to give up, keeps this.               *)
LEMMA WriteLines ==
  ASSUME NEW out \in Seq(Int), NEW q \in Seq(Int), NEW n \in Nat, NEW off,
         Lines(out, q, n, off)
  PROVE  Lines(out \o q, <<>>, n, off)
<1>0. PICK all : all = out \o q
  OBVIOUS
<1>1. /\ all \in Seq(Int)
      /\ Len(all) = Len(out) + Len(q) /\ Len(<<>>) = 0
      /\ Len(out) \in Nat /\ Len(q) \in Nat
      /\ \A i \in 1..Len(out) : all[i] = out[i] /\ out[i] \in Int
      /\ \A i \in 1..Len(q) : all[Len(out) + i] = q[i]
  BY <1>0
<1>2. ASSUME NEW i \in 1..Len(all), i > Len(out)
      PROVE  all[i] = n - Len(q) + (i - Len(out))
  <2>1. i - Len(out) \in 1..Len(q) /\ Len(out) + (i - Len(out)) = i
    BY <1>1, <1>2
  <2>. QED  BY <2>1, <1>1 DEF Lines
<1>3. \A i \in 1..Len(out) : all[i] <= n - Len(q) /\ all[i] \in Int
  BY <1>1 DEF Lines
<1>4. \A i \in 1..Len(all) : i \in 1..Len(out) \/ i > Len(out)
  BY <1>1
<1>5. ASSUME NEW i \in 1..Len(all)
      PROVE  all[i] <= n
  <2>1. CASE i \in 1..Len(out)
    BY <2>1, <1>1, <1>3
  <2>2. CASE i > Len(out)
    BY <2>2, <1>1, <1>2
  <2>. QED  BY <2>1, <2>2, <1>4
<1>6. ASSUME NEW i \in 1..Len(all), NEW j \in 1..Len(all), i < j
      PROVE  all[i] < all[j]
  <2>1. CASE j \in 1..Len(out)
    <3>1. i \in 1..Len(out)
      BY <2>1, <1>6, <1>1
    <3>. QED  BY <2>1, <3>1, <1>1, <1>6 DEF Lines
  <2>2. CASE i \in 1..Len(out) /\ j > Len(out)
    <3>1. all[j] = n - Len(q) + (j - Len(out)) /\ all[i] <= n - Len(q) /\ all[i] \in Int
      BY <2>2, <1>2, <1>3
    <3>. QED  BY <3>1, <2>2, <1>1
  <2>3. CASE i > Len(out) /\ j > Len(out)
    <3>1. /\ all[j] = n - Len(q) + (j - Len(out))
          /\ all[i] = n - Len(q) + (i - Len(out))
      BY <2>3, <1>2
    <3>. QED  BY <3>1, <1>1, <1>6
  <2>. QED  BY <1>1, <1>4, <1>6, <2>1, <2>2, <2>3
<1>7. ASSUME ~off, NEW k \in 1..n, k > n - MaxQueue
      PROVE  \E i \in 1..Len(all) : all[i] = k
  <2>1. CASE k <= n - Len(q)
    <3>1. PICK i \in 1..Len(out) : out[i] = k
      BY <1>7, <2>1 DEF Lines
    <3>. QED  BY <3>1, <1>1
  <2>2. CASE k > n - Len(q)
    <3>1. PICK i : i = Len(out) + (k - (n - Len(q)))
      OBVIOUS
    <3>2. i \in 1..Len(all) /\ i > Len(out) /\ n - Len(q) + (i - Len(out)) = k
      BY <2>2, <3>1, <1>1
    <3>. QED  BY <3>2, <1>2
  <2>. QED  BY <2>1, <2>2, <1>1
<1>8. Lines(all, <<>>, n, off)
  <2>1. \A i \in 1..Len(all) : all[i] <= n - Len(<<>>)
    BY <1>1, <1>5
  <2>. QED  BY <1>1, <2>1, <1>6, <1>7 DEF Lines
<1>. QED  BY <1>0, <1>8

LEMMA DropLines ==
  ASSUME NEW out \in Seq(Int), NEW q \in Seq(Int), NEW n \in Nat, NEW off,
         Lines(out, q, n, off)
  PROVE  Lines(out, <<>>, n, TRUE)
<1>1. Len(<<>>) = 0 /\ Len(q) \in Nat /\ \A i \in 1..Len(out) : out[i] \in Int
  OBVIOUS
<1>2. \A i \in 1..Len(out) : out[i] <= n
  BY <1>1 DEF Lines
<1>. QED  BY <1>1, <1>2 DEF Lines

(* The next line is enqueued last, and the line dropped for it is older    *)
(* than the newest MaxQueue.                                               *)
LEMMA EnqueueLines ==
  ASSUME NEW out \in Seq(Int), NEW q \in Seq(1..MaxRecords), NEW n \in Nat, NEW off,
         n < MaxRecords, Len(q) <= MaxQueue, Lines(out, q, n, off)
  PROVE  /\ Enqueue(q, n + 1) \in Seq(1..MaxRecords)
         /\ Len(Enqueue(q, n + 1)) <= MaxQueue
         /\ Lines(out, Enqueue(q, n + 1), n + 1, off)
<1>. MaxQueue \in Nat \ {0} /\ MaxRecords \in Nat
  BY ClientAssumption
<1>0. PICK all : all = Append(q, n + 1)
  OBVIOUS
<1>1. /\ all \in Seq(1..MaxRecords)
      /\ Len(all) = Len(q) + 1 /\ Len(q) \in Nat
      /\ \A i \in 1..Len(q) : all[i] = q[i]
      /\ all[Len(q) + 1] = n + 1
  BY <1>0
<1>2. ASSUME NEW i \in 1..Len(all)
      PROVE  all[i] = n + 1 - Len(all) + i
  <2>1. CASE i \in 1..Len(q)
    <3>1. all[i] = n - Len(q) + i
      BY <2>1, <1>1 DEF Lines
    <3>. QED  BY <3>1, <1>1
  <2>2. CASE i = Len(q) + 1
    BY <2>2, <1>1
  <2>. QED  BY <2>1, <2>2, <1>1
<1>3. \A i \in 1..Len(out) : out[i] \in Int /\ out[i] <= n - Len(q)
  BY DEF Lines
<1>4. \A i, j \in 1..Len(out) : i < j => out[i] < out[j]
  BY DEF Lines
<1>5. PICK new : new = Enqueue(q, n + 1)
  OBVIOUS
<1>6. CASE Len(all) > MaxQueue
  <2>1. Len(q) = MaxQueue
    BY <1>1, <1>6
  <2>2. new = Tail(all)
    BY <1>0, <1>5, <1>6 DEF Enqueue
  <2>3. /\ new \in Seq(1..MaxRecords) /\ Len(new) = MaxQueue
        /\ \A i \in 1..Len(new) : new[i] = all[i + 1]
    BY <1>1, <2>1, <2>2
  <2>4. ASSUME NEW i \in 1..Len(new)
        PROVE  new[i] = n + 1 - Len(new) + i
    <3>1. i + 1 \in 1..Len(all) /\ Len(all) = MaxQueue + 1
      BY <1>1, <2>1, <2>3
    <3>2. all[i + 1] = n + 1 - Len(all) + (i + 1)
      BY <3>1, <1>2
    <3>. QED  BY <3>1, <3>2, <2>3
  <2>5. ASSUME NEW i \in 1..Len(out)
        PROVE  out[i] <= n + 1 - Len(new)
    <3>1. out[i] \in Int /\ out[i] <= n - MaxQueue
      BY <1>3, <2>1
    <3>. QED  BY <3>1, <2>3
  <2>6. \A k \in 1..(n + 1) : ~(k > n + 1 - MaxQueue /\ k <= n + 1 - Len(new))
    BY <2>3
  <2>7. \A k \in 1..(n + 1) :
          k > n + 1 - MaxQueue /\ k <= n + 1 - Len(new) => \E i \in 1..Len(out) : out[i] = k
    BY <2>6
  <2>8. Lines(out, new, n + 1, off)
    BY <1>4, <2>4, <2>5, <2>7 DEF Lines
  <2>. QED  BY <1>5, <2>3, <2>8
<1>7. CASE ~(Len(all) > MaxQueue)
  <2>1. new = all
    BY <1>0, <1>5, <1>7 DEF Enqueue
  <2>2. Len(new) = Len(q) + 1
    BY <1>1, <2>1
  <2>3. ASSUME ~off, NEW k \in 1..(n + 1), k > n + 1 - MaxQueue, k <= n + 1 - Len(new)
        PROVE  \E i \in 1..Len(out) : out[i] = k
    <3>1. k \in 1..n /\ k > n - MaxQueue /\ k <= n - Len(q)
      BY <2>2, <2>3, <1>1
    <3>. QED  BY <3>1, <2>3 DEF Lines
  <2>4. \A i \in 1..Len(new) : new[i] = n + 1 - Len(new) + i
    BY <2>1, <1>2
  <2>5. \A i \in 1..Len(out) : out[i] <= n + 1 - Len(new)
    BY <1>3, <1>1, <2>2
  <2>6. Lines(out, new, n + 1, off)
    BY <1>4, <2>3, <2>4, <2>5 DEF Lines
  <2>. QED  BY <1>1, <1>5, <1>7, <2>1, <2>2, <2>6
<1>. QED  BY <1>1, <1>6, <1>7

-----------------------------------------------------------------------------
(* The invariant                                                           *)

LinesOK == Lines(sent, queue, logged, disabled)

(* One socket at a time, the flags of the client agree with its state, and *)
(* a client that gave up has none: all of it only until two sockets cross. *)
Alone ==
  /\ \A s, t \in Sockets : sock[s] # "free" /\ sock[t] # "free" => s = t
  /\ \A s \in Sockets : sock[s] \in {"connecting", "failed"} => connecting
  /\ \A s \in Sockets : sock[s] \in {"open", "ending"} => current = s
  /\ disabled => /\ attempts >= MaxAttempts
                 /\ \A s \in Sockets : sock[s] \notin {"connecting", "open"}

IInv == TypeOK /\ LinesOK /\ (crossed \/ Alone)

LEMMA EmptyQueue ==
  ASSUME NEW q, q = <<>>
  PROVE  q \in Seq(1..MaxRecords) /\ Len(q) <= MaxQueue
<1>1. q \in Seq(1..MaxRecords)
  OBVIOUS
<1>2. Len(q) = 0
  OBVIOUS
<1>3. MaxQueue \in Nat
  BY ClientAssumption
<1>4. 0 <= MaxQueue
  BY <1>3
<1>. QED  BY <1>1, <1>2, <1>4

LEMMA InitIInv == Init => IInv
<1>. SUFFICES ASSUME Init PROVE IInv
  OBVIOUS
<1>1. TypeOK
  <2>1. queue \in Seq(1..MaxRecords) /\ Len(queue) <= MaxQueue
    BY EmptyQueue DEF Init
  <2>2. sent \in Seq(1..MaxRecords)
    BY EmptyQueue DEF Init
  <2>3. attempts \in 0..MaxAttempts /\ timers \in 0..MaxTimers /\ logged \in 0..MaxRecords
    BY ClientAssumption DEF Init
  <2>. QED  BY <2>1, <2>2, <2>3 DEF Init, TypeOK, SocketStates
<1>2. LinesOK
  <2>1. Len(<<>>) = 0
    OBVIOUS
  <2>. QED  BY <2>1 DEF Init, LinesOK, Lines
<1>3. Alone
  BY DEF Init, Alone
<1>. QED  BY <1>1, <1>2, <1>3 DEF IInv

(* The sequences of TypeOK as sequences of integers.                       *)
LEMMA IntSequences ==
  ASSUME NEW q \in Seq(1..MaxRecords)
  PROVE  q \in Seq(Int)
BY ClientAssumption

(* flush, called with the queue lines when n records have been logged.     *)
LEMMA FlushIInv ==
  ASSUME IInv, NEW lines \in Seq(1..MaxRecords), Len(lines) <= MaxQueue,
         NEW n \in 0..MaxRecords, Lines(sent, lines, n, disabled),
         Flush(lines), logged' = n, timers' \in 0..MaxTimers,
         UNCHANGED <<current, connectedOnce>>
  PROVE  IInv'
<1>. MaxAttempts \in Nat /\ MaxQueue \in Nat /\ MaxRecords \in Nat /\ n \in Nat
  BY ClientAssumption
<1>1. sent \in Seq(Int) /\ lines \in Seq(Int) /\ sent \in Seq(1..MaxRecords) /\ TypeOK
  BY IntSequences DEF IInv, TypeOK
<1>2. CASE /\ Writable
           /\ Write(lines)
           /\ UNCHANGED <<sock, connecting, attempts, disabled, crossed>>
  <2>1. TypeOK'
    BY <1>1, <1>2 DEF Write, TypeOK
  <2>2. LinesOK'
    BY <1>1, <1>2, WriteLines DEF LinesOK, Write
  <2>3. (crossed \/ Alone)'
    BY <1>2 DEF IInv, Alone
  <2>. QED  BY <2>1, <2>2, <2>3 DEF IInv
<1>3. CASE /\ ~Writable
           /\ connecting
           /\ queue' = lines
           /\ UNCHANGED <<sock, connecting, attempts, disabled, sent, crossed>>
  <2>1. TypeOK'
    BY <1>1, <1>3 DEF TypeOK
  <2>2. LinesOK'
    BY <1>3 DEF LinesOK
  <2>3. (crossed \/ Alone)'
    BY <1>3 DEF IInv, Alone
  <2>. QED  BY <2>1, <2>2, <2>3 DEF IInv
<1>4. CASE /\ ~Writable
           /\ ~connecting
           /\ Disable
           /\ attempts >= MaxAttempts
           /\ UNCHANGED <<sock, connecting, attempts, sent, crossed>>
  <2>1. TypeOK'
    BY <1>1, <1>4 DEF TypeOK, Disable
  <2>2. LinesOK'
    BY <1>1, <1>4, DropLines DEF LinesOK, Disable
  <2>3. ASSUME Alone PROVE Alone'
    <3>1. \A s \in Sockets : sock[s] \notin {"connecting", "open"}
      BY <1>4, <2>3, ClientAssumption DEF Alone, Writable
    <3>. QED  BY <1>4, <2>3, <3>1 DEF Alone, Disable
  <2>. QED  BY <1>4, <2>1, <2>2, <2>3 DEF IInv
<1>5. ASSUME ~Writable, ~connecting, attempts < MaxAttempts,
             NEW s \in Sockets, sock[s] = "free",
             sock' = [sock EXCEPT ![s] = "connecting"],
             connecting' = TRUE, attempts' = attempts + 1, queue' = lines,
             crossed' = (crossed \/ current # NoSocket), UNCHANGED <<disabled, sent>>
      PROVE  IInv'
  <2>1. TypeOK'
    BY <1>1, <1>5 DEF TypeOK, SocketStates
  <2>2. LinesOK'
    BY <1>5 DEF LinesOK
  <2>3. ASSUME Alone, current = NoSocket PROVE Alone'
    <3>1. \A t \in Sockets : sock[t] = "free"
      <4>. SUFFICES ASSUME NEW t \in Sockets PROVE sock[t] = "free"
        OBVIOUS
      <4>1. sock[t] \in SocketStates
        BY <1>1 DEF TypeOK
      <4>. QED  BY <4>1, <1>5, <2>3, ClientAssumption DEF Alone, SocketStates
    <3>2. ~disabled
      BY <1>1, <1>5, <2>3 DEF Alone, TypeOK
    <3>3. \A t \in Sockets : sock'[t] = IF t = s THEN "connecting" ELSE "free"
      BY <1>1, <1>5, <3>1 DEF TypeOK
    <3>. QED  BY <1>5, <3>2, <3>3 DEF Alone
  <2>. QED  BY <1>5, <2>1, <2>2, <2>3 DEF IInv
<1>. QED  BY <1>2, <1>3, <1>4, <1>5 DEF Flush, Connect

LEMMA LogIInv == IInv /\ Log => IInv'
<1>. SUFFICES ASSUME IInv, Log PROVE IInv'
  OBVIOUS
<1>1. TypeOK /\ logged \in Nat /\ logged + 1 \in 0..MaxRecords /\ sent \in Seq(Int)
  BY IntSequences, ClientAssumption DEF IInv, Log, TypeOK
<1>2. /\ Enqueue(queue, logged + 1) \in Seq(1..MaxRecords)
      /\ Len(Enqueue(queue, logged + 1)) <= MaxQueue
      /\ Lines(sent, Enqueue(queue, logged + 1), logged + 1, disabled)
  BY <1>1, EnqueueLines DEF IInv, LinesOK, Log, TypeOK
<1>. QED  BY <1>1, <1>2, FlushIInv DEF Log, TypeOK

LEMMA RetryTimerIInv == IInv /\ RetryTimer => IInv'
<1>. SUFFICES ASSUME IInv, RetryTimer PROVE IInv'
  OBVIOUS
<1>1. TypeOK /\ timers' \in 0..MaxTimers
  BY ClientAssumption DEF IInv, RetryTimer, TypeOK
<1>. QED  BY <1>1, FlushIInv DEF IInv, LinesOK, RetryTimer, TypeOK

LEMMA ConnectedIInv ==
  ASSUME IInv, NEW s \in Sockets, Connected(s)
  PROVE  IInv'
<1>1. TypeOK /\ sent \in Seq(Int) /\ queue \in Seq(Int) /\ logged \in Nat
  BY IntSequences DEF IInv, TypeOK
<1>2. TypeOK'
  <2>1. queue' \in Seq(1..MaxRecords) /\ Len(queue') <= MaxQueue
    BY EmptyQueue DEF Connected, Write
  <2>2. sent' \in Seq(1..MaxRecords)
    BY <1>1 DEF TypeOK, Connected, Write
  <2>3. attempts' \in 0..MaxAttempts
    BY ClientAssumption DEF Connected
  <2>. QED  BY <1>1, <2>1, <2>2, <2>3 DEF TypeOK, Connected, SocketStates
<1>3. LinesOK'
  BY <1>1, WriteLines DEF IInv, LinesOK, Connected, Write
<1>4. ASSUME Alone PROVE Alone'
  BY <1>1, <1>4 DEF Alone, Connected, TypeOK
<1>. QED  BY <1>2, <1>3, <1>4 DEF IInv, Connected

LEMMA FailIInv ==
  ASSUME IInv, NEW s \in Sockets, Fail(s)
  PROVE  IInv'
<1>1. TypeOK'
  BY DEF IInv, TypeOK, Fail, SocketStates
<1>2. LinesOK'
  BY DEF IInv, LinesOK, Fail
<1>3. ASSUME Alone PROVE Alone'
  BY <1>3 DEF IInv, Alone, Fail, TypeOK
<1>. QED  BY <1>1, <1>2, <1>3 DEF IInv, Fail

LEMMA EndIInv ==
  ASSUME IInv, NEW s \in Sockets, End(s)
  PROVE  IInv'
<1>1. TypeOK'
  BY DEF IInv, TypeOK, End, SocketStates
<1>2. LinesOK'
  BY DEF IInv, LinesOK, End
<1>3. ASSUME Alone PROVE Alone'
  BY <1>3 DEF IInv, Alone, End, TypeOK
<1>. QED  BY <1>1, <1>2, <1>3 DEF IInv, End

LEMMA CloseIInv ==
  ASSUME IInv, NEW s \in Sockets, Close(s)
  PROVE  IInv'
<1>1. TypeOK /\ sent \in Seq(Int) /\ queue \in Seq(Int) /\ logged \in Nat
  BY IntSequences DEF IInv, TypeOK
<1>2. \/ UNCHANGED <<disabled, queue, timers>>
      \/ ~disabled /\ attempts >= MaxAttempts /\ Disable /\ UNCHANGED timers
      \/ timers < MaxTimers /\ timers' = timers + 1 /\ UNCHANGED <<disabled, queue>>
  BY DEF Close, ScheduleRetry
<1>3. TypeOK'
  <2>1. queue' \in Seq(1..MaxRecords) /\ Len(queue') <= MaxQueue /\ disabled' \in BOOLEAN
    BY <1>1, <1>2, EmptyQueue DEF TypeOK, Disable
  <2>2. timers' \in 0..MaxTimers
    BY <1>1, <1>2, ClientAssumption DEF TypeOK
  <2>3. current' \in Sockets \cup {NoSocket} /\ sock' \in [Sockets -> SocketStates]
    BY <1>1 DEF TypeOK, Close, SocketStates
  <2>. QED  BY <1>1, <2>1, <2>2, <2>3 DEF TypeOK, Close
<1>4. LinesOK'
  <2>1. CASE UNCHANGED queue /\ UNCHANGED disabled
    BY <2>1 DEF IInv, LinesOK, Close
  <2>2. CASE Disable
    BY <2>2, <1>1, DropLines DEF IInv, LinesOK, Close, Disable
  <2>. QED  BY <1>2, <2>1, <2>2
<1>5. ASSUME Alone PROVE Alone'
  <2>1. \A t \in Sockets : sock'[t] = "free"
    <3>. SUFFICES ASSUME NEW t \in Sockets PROVE sock'[t] = "free"
      OBVIOUS
    <3>1. CASE t = s
      BY <3>1, <1>1 DEF Close, TypeOK
    <3>2. CASE t # s
      BY <3>2, <1>1, <1>5 DEF Close, TypeOK, Alone
    <3>. QED  BY <3>1, <3>2
  <2>2. disabled' => attempts' >= MaxAttempts
    <3>1. CASE UNCHANGED disabled
      BY <3>1, <1>5 DEF Alone, Close
    <3>2. CASE attempts >= MaxAttempts
      BY <3>2 DEF Close
    <3>. QED  BY <1>2, <3>1, <3>2
  <2>. QED  BY <2>1, <2>2 DEF Alone
<1>. QED  BY <1>3, <1>4, <1>5 DEF IInv, Close

LEMMA NextIInv == IInv /\ [Next]_vars => IInv'
<1>. SUFFICES ASSUME IInv, [Next]_vars PROVE IInv'
  OBVIOUS
<1>1. CASE Log
  BY <1>1, LogIInv
<1>2. CASE RetryTimer
  BY <1>2, RetryTimerIInv
<1>3. ASSUME NEW s \in Sockets, Connected(s) \/ Fail(s) \/ End(s) \/ Close(s)
      PROVE  IInv'
  BY <1>3, ConnectedIInv, FailIInv, EndIInv, CloseIInv
<1>4. CASE UNCHANGED vars
  BY <1>4 DEF IInv, TypeOK, LinesOK, Alone, vars
<1>. QED  BY <1>1, <1>2, <1>3, <1>4 DEF Next

-----------------------------------------------------------------------------
(* The theorems                                                            *)

(* The strengthening from which the rest follows.                          *)
THEOREM InductiveInvariant == Spec => []IInv
BY InitIInv, NextIInv, PTL DEF Spec

(* The client keeps to its limits of attempts, lines and timers.           *)
THEOREM TypeCorrect == Spec => []TypeOK
<1>1. IInv => TypeOK
  BY DEF IInv
<1>. QED  BY <1>1, InductiveInvariant, PTL

(* Lines are written in the order in which they were logged, none twice,   *)
(* whatever sockets they go to.                                            *)
THEOREM LinesStayInOrder == Spec => []LinesInOrder
<1>1. IInv => LinesInOrder
  <2>. SUFFICES ASSUME IInv PROVE LinesInOrder
    OBVIOUS
  <2>1. sent \in Seq(Int) /\ queue \in Seq(Int) /\ logged \in Nat
    BY IntSequences DEF IInv, TypeOK
  <2>2. Lines(sent \o queue, <<>>, logged, disabled)
    BY <2>1, WriteLines DEF IInv, LinesOK
  <2>. QED  BY <2>2 DEF Lines, LinesInOrder
<1>. QED  BY <1>1, InductiveInvariant, PTL

(* As long as no callback meets a connection that has ended and not yet    *)
(* closed, there is one connection, and one attempt, at a time.            *)
THEOREM OneConnection == Spec => []OneConnectionUnlessCrossed
<1>1. IInv => OneConnectionUnlessCrossed
  <2>. SUFFICES ASSUME Alone PROVE OneConnectionUnlessCrossed
    BY DEF IInv, OneConnectionUnlessCrossed
  <2>. DEFINE busy == {s \in Sockets : sock[s] \in {"connecting", "open"}}
  <2>1. \A s, t \in busy : s = t
    BY DEF Alone
  <2>2. CASE busy = {}
    <3>1. Cardinality(busy) = 0
      BY <2>2, FS_EmptySet
    <3>. QED  BY <3>1 DEF OneConnectionUnlessCrossed
  <2>3. CASE busy # {}
    <3>1. PICK s : busy = {s}
      BY <2>1, <2>3
    <3>2. Cardinality(busy) = 1
      BY <3>1, FS_Singleton
    <3>. QED  BY <3>2 DEF OneConnectionUnlessCrossed
  <2>. QED  BY <2>2, <2>3
<1>. QED  BY <1>1, InductiveInvariant, PTL

(* A client that has given up has no open connection, as long as no two    *)
(* connections were being made at once.                                    *)
THEOREM GaveUpIsDisconnected == Spec => []DisabledIsDisconnectedUnlessCrossed
<1>1. IInv => DisabledIsDisconnectedUnlessCrossed
  BY DEF IInv, Alone, DisabledIsDisconnectedUnlessCrossed, DisabledIsDisconnected
<1>. QED  BY <1>1, InductiveInvariant, PTL

-----------------------------------------------------------------------------
(* The refinement of LogQueue                                              *)

(* The lines of a queue are the last ones logged.                          *)
LEMMA LinesWait ==
  ASSUME NEW out, NEW q \in Seq(1..MaxRecords), NEW n \in Nat, NEW off,
         Lines(out, q, n, off)
  PROVE  Range(q) = {k \in Int : n - Len(q) < k /\ k <= n}
<1>1. /\ Len(q) \in Nat
      /\ Range(q) = {q[i] : i \in 1..Len(q)}
      /\ \A i \in 1..Len(q) : q[i] = n - Len(q) + i
  BY RangeEquality DEF Lines
<1>2. ASSUME NEW k \in Int, n - Len(q) < k, k <= n PROVE k \in Range(q)
  <2>1. PICK i : i = k - (n - Len(q))
    OBVIOUS
  <2>2. i \in 1..Len(q) /\ n - Len(q) + i = k
    BY <1>1, <1>2, <2>1
  <2>. QED  BY <1>1, <2>2
<1>3. ASSUME NEW k \in Range(q) PROVE k \in Int /\ n - Len(q) < k /\ k <= n
  <2>1. PICK i \in 1..Len(q) : k = n - Len(q) + i
    BY <1>1, <1>3
  <2>. QED  BY <1>1, <2>1
<1>. QED  BY <1>2, <1>3

LEMMA NothingWaits == Range(<<>>) = {}
  BY DEF Range

(* Enqueue keeps the newest lines, as LogQueue does.                       *)
LEMMA EnqueueKeepsNewest ==
  ASSUME NEW out \in Seq(Int), NEW q \in Seq(1..MaxRecords), NEW n \in Nat, NEW off,
         n < MaxRecords, Len(q) <= MaxQueue, Lines(out, q, n, off)
  PROVE  Range(Enqueue(q, n + 1))
           = {k \in Range(q) \cup {n + 1} : k > n + 1 - MaxQueue}
<1>. MaxQueue \in Nat \ {0} /\ MaxRecords \in Nat
  BY ClientAssumption
<1>0. PICK new, m : new = Enqueue(q, n + 1) /\ m = n + 1
  OBVIOUS
<1>1. PICK l, k \in Nat : l = Len(q) /\ k = Len(new)
  <2>1. new \in Seq(1..MaxRecords)
    BY <1>0, EnqueueLines
  <2>. QED  BY <2>1
<1>2. Range(q) = {i \in Int : n - l < i /\ i <= n}
  BY <1>1, LinesWait
<1>3. Range(new) = {i \in Int : m - k < i /\ i <= m}
  <2>1. new \in Seq(1..MaxRecords) /\ Lines(out, new, m, off) /\ m \in Nat
    BY <1>0, EnqueueLines
  <2>. QED  BY <1>1, <2>1, LinesWait
<1>4. k = IF l + 1 > MaxQueue THEN MaxQueue ELSE l + 1
  <2>1. new = IF Len(Append(q, n + 1)) > MaxQueue
                THEN Tail(Append(q, n + 1)) ELSE Append(q, n + 1)
    BY <1>0 DEF Enqueue
  <2>2. Append(q, n + 1) \in Seq(1..MaxRecords) /\ Len(Append(q, n + 1)) = l + 1
    BY <1>1
  <2>. QED  BY <1>1, <2>1, <2>2
<1>5. l <= MaxQueue
  BY <1>1
<1>6. ASSUME NEW i \in Int
      PROVE  m - k < i /\ i <= m
               <=> ((n - l < i /\ i <= n) \/ i = n + 1) /\ i > n + 1 - MaxQueue
  <2>1. CASE l + 1 > MaxQueue
    <3>1. l = MaxQueue /\ k = MaxQueue
      BY <1>4, <1>5, <2>1
    <3>. QED  BY <1>0, <3>1
  <2>2. CASE ~(l + 1 > MaxQueue)
    <3>1. k = l + 1
      BY <1>4, <2>2
    <3>. QED  BY <1>0, <2>2, <3>1
  <2>. QED  BY <2>1, <2>2
<1>7. ASSUME NEW i
      PROVE  i \in Range(new)
               <=> i \in {j \in Range(q) \cup {n + 1} : j > n + 1 - MaxQueue}
  BY <1>2, <1>3, <1>6
<1>8. Range(new) = {j \in Range(q) \cup {n + 1} : j > n + 1 - MaxQueue}
  BY <1>7
<1>. QED  BY <1>0, <1>8

(* A client that gave up has nothing to write.                             *)
Silent == disabled => queue = <<>>

LEMMA FlushHandles ==
  ASSUME TypeOK, NEW lines \in Seq(1..MaxRecords), Flush(lines)
  PROVE  Buffer!Handle(Range(lines))
<1>1. sent \in Seq(1..MaxRecords)
  BY DEF TypeOK
<1>2. CASE Write(lines) /\ UNCHANGED disabled
  <2>1. Range(sent') = Range(sent) \cup Range(lines)
    BY <1>1, <1>2, RangeConcatenation DEF Write
  <2>. QED  BY <1>2, <2>1, NothingWaits DEF Buffer!Handle, Buffer!Write, Write
<1>3. CASE queue' = lines /\ UNCHANGED <<sent, disabled>>
  BY <1>3 DEF Buffer!Handle, Buffer!Keep
<1>4. CASE Disable /\ UNCHANGED sent
  BY <1>4, NothingWaits DEF Buffer!Handle, Buffer!GiveUp, Disable
<1>. QED  BY <1>2, <1>3, <1>4 DEF Flush, Connect

LEMMA FlushStaysSilent ==
  ASSUME NEW lines, Flush(lines), disabled => lines = <<>>
  PROVE  Silent'
  BY DEF Silent, Flush, Connect, Write, Disable

LEMMA NextSilent == Silent /\ [Next]_vars => Silent'
<1>. SUFFICES ASSUME Silent, [Next]_vars PROVE Silent'
  OBVIOUS
<1>1. CASE Log
  BY <1>1, FlushStaysSilent DEF Log
<1>2. CASE RetryTimer
  BY <1>2, FlushStaysSilent DEF RetryTimer, Silent
<1>3. ASSUME NEW s \in Sockets, Connected(s) \/ Fail(s) \/ End(s) \/ Close(s)
      PROVE  Silent'
  BY <1>3 DEF Silent, Connected, Write, Fail, End, Close, ScheduleRetry, Disable
<1>. QED  BY <1>1, <1>2, <1>3 DEF Next, Silent, vars

(* Handling the queue as it is, once the client has given up, is nothing.  *)
LEMMA SilentFlush ==
  ASSUME Silent, Buffer!Handle(Range(queue)), logged' = logged
  PROVE  Buffer!Flush \/ UNCHANGED Buffer!vars
<1>1. CASE disabled
  <2>1. Range(queue) = {}
    BY <1>1, NothingWaits DEF Silent
  <2>2. CASE Buffer!Keep({})
    BY <2>1, <2>2 DEF Buffer!Keep, Buffer!vars
  <2>3. CASE Buffer!Write({})
    BY <2>1, <2>3 DEF Buffer!Write, Buffer!vars
  <2>4. CASE Buffer!GiveUp
    <3>1. disabled' = disabled
      BY <1>1, <2>4 DEF Buffer!GiveUp
    <3>. QED  BY <2>1, <2>4, <3>1 DEF Buffer!GiveUp, Buffer!vars
  <2>. QED  BY <2>1, <2>2, <2>3, <2>4 DEF Buffer!Handle
<1>2. CASE ~disabled
  BY <1>2 DEF Buffer!Flush
<1>. QED  BY <1>1, <1>2

LEMMA BufferNext ==
  ASSUME IInv, Silent, [Next]_vars
  PROVE  [Buffer!Log \/ Buffer!Flush]_(Buffer!vars)
<1>0. TypeOK /\ queue \in Seq(1..MaxRecords) /\ logged \in Nat /\ sent \in Seq(Int)
  BY IntSequences, ClientAssumption DEF IInv, TypeOK
<1>1. CASE Log
  <2>1. PICK new : new = Enqueue(queue, logged + 1)
    OBVIOUS
  <2>2. /\ new \in Seq(1..MaxRecords)
        /\ Range(new) = {k \in Range(queue) \cup {logged + 1} : k > logged + 1 - MaxQueue}
    BY <1>0, <1>1, <2>1, EnqueueLines, EnqueueKeepsNewest DEF IInv, LinesOK, Log, TypeOK
  <2>3. Flush(new) /\ ~disabled /\ logged' = logged + 1
    BY <1>1, <2>1 DEF Log
  <2>4. Buffer!Handle(Range(new))
    BY <1>0, <2>2, <2>3, FlushHandles
  <2>5. Range(new) = {k \in Range(queue) \cup {logged'} : k > logged' - MaxQueue}
    <3>1. logged' = logged + 1 /\ MaxQueue \in Nat /\ logged \in Nat
      BY <1>0, <2>3, ClientAssumption
    <3>2. \A k : k \in Range(new)
                  <=> k \in Range(queue) \cup {logged'} /\ k > logged' - MaxQueue
      BY <2>2, <3>1
    <3>. QED  BY <3>2
  <2>6. Buffer!Handle({k \in Range(queue) \cup {logged'} : k > logged' - MaxQueue})
    BY <2>4, <2>5
  <2>. QED  BY <2>3, <2>6 DEF Buffer!Log
<1>2. CASE RetryTimer
  BY <1>0, <1>2, FlushHandles, SilentFlush DEF RetryTimer
<1>3. ASSUME NEW s \in Sockets, Connected(s)
      PROVE  Buffer!Flush \/ UNCHANGED Buffer!vars
  <2>1. Write(queue) /\ UNCHANGED <<disabled, logged>>
    BY <1>3 DEF Connected
  <2>2. Range(sent') = Range(sent) \cup Range(queue)
    BY <1>0, <2>1, RangeConcatenation DEF Write, TypeOK
  <2>3. Buffer!Handle(Range(queue))
    BY <2>1, <2>2, NothingWaits DEF Buffer!Handle, Buffer!Write, Write
  <2>. QED  BY <2>1, <2>3, SilentFlush
<1>4. ASSUME NEW s \in Sockets, Close(s)
      PROVE  Buffer!Flush \/ UNCHANGED Buffer!vars
  <2>1. /\ UNCHANGED <<logged, sent>>
        /\ Disable \/ UNCHANGED <<disabled, queue>>
    BY <1>4 DEF Close, ScheduleRetry
  <2>2. CASE Disable
    <3>1. Buffer!Handle(Range(queue))
      BY <2>1, <2>2, NothingWaits DEF Buffer!Handle, Buffer!GiveUp, Disable
    <3>. QED  BY <2>1, <3>1, SilentFlush
  <2>3. CASE UNCHANGED <<disabled, queue>>
    BY <2>1, <2>3 DEF Buffer!vars
  <2>. QED  BY <2>1, <2>2, <2>3
<1>5. ASSUME NEW s \in Sockets, Fail(s) \/ End(s) PROVE UNCHANGED Buffer!vars
  BY <1>5 DEF Fail, End, Buffer!vars
<1>6. CASE UNCHANGED vars
  BY <1>6 DEF vars, Buffer!vars
<1>. QED  BY <1>1, <1>2, <1>3, <1>4, <1>5, <1>6 DEF Next

(* The client, through sockets that fail, end and cross, retry timers and  *)
(* giving up, implements the queue that LogQueue describes.                *)
THEOREM ClientIsLogQueue == Spec => ImplementsLogQueue
<1>1. Init => Silent
  BY DEF Init, Silent
<1>2. Spec => []Silent
  BY <1>1, NextSilent, PTL DEF Spec
<1>3. Init => Buffer!Init
  BY NothingWaits DEF Init, Buffer!Init
<1>. QED
  BY <1>2, <1>3, BufferNext, InductiveInvariant, PTL
     DEF Spec, ImplementsLogQueue, Buffer!Spec

===============================================================================
