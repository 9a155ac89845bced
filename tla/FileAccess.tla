------------------------------ MODULE FileAccess ------------------------------
(***************************************************************************)
(* Reading files in gateways/files: FileAccessPolicy.canReadFile and       *)
(* canReadFolder, which walk up the folders one SELECT at a time while     *)
(* their owner moves and hides them, and the archives for download, which  *)
(* are files of a temporary directory without a database.                  *)
(*                                                                         *)
(* The reader is not the owner of the files and no superadministrator: the *)
(* walk is not made for those. A document is read as a file is. FileFolders *)
(* has the steps of the moves, here a move that is allowed is one step.    *)
(***************************************************************************)
EXTENDS Naturals, Sequences, FiniteSets, Null

CONSTANTS
  Folders,   \* folders
  Stored,    \* stored files
  Readings,  \* requests of readers at a time
  Archives,  \* archives there can be
  Readers    \* users who read

FolderRows == [up : Folders \cup {None}, public : BOOLEAN]

(* Requests of readers, by their next step. todo: the files still to be    *)
(* looked at, at: the folder on the way up that is read next.              *)
Reading ==
  [op : {"file", "archive", "download", "confirm"}, by : Readers,
   step : {"clean", "find", "walk", "zip", "meta", "read", "remove"},
   todo : Seq(Stored), at : Folders \cup {None}, granted : SUBSET Stored,
   archive : Archives \cup {None}]

ASSUME AccessAssumption ==
  /\ IsFiniteSet(Stored)
  /\ None \notin Folders \cup FolderRows \cup Reading

VARIABLES
  folder,    \* folder[f] of stored_file_folders: [up, public], up a folder or None
  stored,    \* stored[x] of stored_files: [up, public], or None: deleted
  reading,   \* reading[r]: a request in progress, or None
  archive,   \* archive[a]: [by, zip, meta, old, holds] in the archives directory
  history    \* history[r]: what there was to see during reading[r], see Properties

accessVars == <<folder, stored, reading, archive, history>>

Kept == {"zip", "meta"}

ArchiveFiles ==
  [by : Readers \cup {None}, zip : BOOLEAN, meta : BOOLEAN, old : SUBSET Kept,
   holds : SUBSET Stored]

NoArchive == [by |-> None, zip |-> FALSE, meta |-> FALSE, old |-> {}, holds |-> {}]

Histories == [public : SUBSET Stored, changes : 0..2]

NoHistory == [public |-> {}, changes |-> 0]

-----------------------------------------------------------------------------
(* The folders                                                             *)

(* The folders of a set that the way up does not leave.                    *)
Upward(fs, s) == \A g \in s : fs[g].up \in s \cup {None}

(* The folders on the way up from f, which isFolderDescendant follows; a   *)
(* move is refused when it would close a cycle.                            *)
Way(fs, f) ==
  {g \in Folders : \A s \in SUBSET Folders : f \in s \cup {None} /\ Upward(fs, s) => g \in s}

(* What nobody can see in one SELECT: the file and all its folders public. *)
PublicNow(x) ==
  /\ stored[x] # None /\ stored[x].public
  /\ \A f \in Way(folder, stored[x].up) : folder[f].public

(* Every request under way has seen one more change, and what is public    *)
(* after it.                                                               *)
Seen ==
  history' = [r \in Readings |->
    IF reading[r] = None THEN history[r]
    ELSE [changes |-> IF history[r].changes < 2 THEN history[r].changes + 1 ELSE 2,
          public |-> history[r].public \cup {x \in Stored : PublicNow(x)'}]]

(* updateFolder with a visibility or a parent folder.                      *)
ChangeFolder(f, up, public) ==
  /\ [up |-> up, public |-> public] # folder[f]
  /\ f \notin Way(folder, up)
  /\ folder' = [folder EXCEPT ![f] = [up |-> up, public |-> public]]
  /\ UNCHANGED <<stored, reading, archive>>
  /\ Seen

(* updateMetadata of a file, and its deletion.                             *)
ChangeFile(x, row) ==
  /\ stored[x] # None /\ row # stored[x]
  /\ stored' = [stored EXCEPT ![x] = row]
  /\ UNCHANGED <<folder, reading, archive>>
  /\ Seen

-----------------------------------------------------------------------------
(* canReadFile                                                             *)

RequestAt(r, step) == reading[r] # None /\ reading[r].step = step

Goes(r, q) ==
  /\ reading' = [reading EXCEPT ![r] = q]
  /\ UNCHANGED <<folder, stored, history>>

Fails(r) ==
  /\ reading' = [reading EXCEPT ![r] = None]
  /\ UNCHANGED <<folder, stored, archive, history>>

(* A request for one file (its metadata, content, view or preview) or for  *)
(* an archive of several.                                                  *)
Asks(r, by, op, files) ==
  /\ reading[r] = None
  /\ reading' = [reading EXCEPT ![r] =
       [op |-> op, by |-> by, todo |-> files, at |-> None, granted |-> {}, archive |-> None,
        step |-> IF op = "archive" THEN "clean" ELSE "find"]]
  /\ history' = [history EXCEPT ![r] =
       [public |-> {x \in Stored : PublicNow(x)}, changes |-> 0]]
  /\ UNCHANGED <<folder, stored, archive>>

AsksFile(r, by, x) == Asks(r, by, "file", <<x>>)

(* normalizeFileUids: no file twice, at least one.                         *)
AsksArchive(r, by, files) ==
  /\ files # <<>> /\ \A i, j \in DOMAIN files : files[i] = files[j] => i = j
  /\ Asks(r, by, "archive", files)

(* findByPk of the file: gone, private, or in a folder to be looked at.    *)
Finds(r) ==
  LET x == Head(reading[r].todo) IN
  /\ RequestAt(r, "find")
  /\ IF stored[x] = None \/ ~stored[x].public
       THEN Fails(r)
       ELSE /\ Goes(r, [reading[r] EXCEPT !.step = "walk", !.at = stored[x].up])
            /\ UNCHANGED archive

(* Defect: the folders above the first are not looked at.                  *)
WalksOneFolder(r) ==
  LET f == reading[r].at IN
  /\ RequestAt(r, "walk") /\ f # None
  /\ IF folder[f].public
       THEN Goes(r, [reading[r] EXCEPT !.at = None]) /\ UNCHANGED archive
       ELSE Fails(r)

(* areFolderAncestorsPublic: one folder, and the way up from there as it   *)
(* is in that row.                                                         *)
Walks(r) ==
  LET f == reading[r].at IN
  /\ RequestAt(r, "walk") /\ f # None
  /\ IF folder[f].public
       THEN Goes(r, [reading[r] EXCEPT !.at = folder[f].up]) /\ UNCHANGED archive
       ELSE Fails(r)

(* The root is reached: the file may be read. For an archive the next file *)
(* is found, in the order given.                                           *)
Grants(r) ==
  LET q == reading[r] IN
  /\ RequestAt(r, "walk") /\ q.at = None
  /\ Goes(r, [q EXCEPT !.granted = @ \cup {Head(q.todo)},
                       !.todo = Tail(@),
                       !.step = IF Len(q.todo) > 1 THEN "find"
                                ELSE IF q.op = "file" THEN "read" ELSE "zip"])
  /\ UNCHANGED archive

(* The file is streamed to its reader.                                     *)
Reads(r) == RequestAt(r, "read") /\ Fails(r)

-----------------------------------------------------------------------------
(* Archives                                                                *)

(* Six hours pass for a file of the directory. The metadata is written     *)
(* last and is the last to become old.                                     *)
Ages(a, part) ==
  /\ archive[a][part] /\ part \notin archive[a].old
  /\ part = "meta" /\ archive[a].zip => "zip" \in archive[a].old
  /\ archive' = [archive EXCEPT ![a].old = @ \cup {part}]
  /\ UNCHANGED <<folder, stored, reading, history>>

Removed(a, parts) ==
  [archive[a] EXCEPT !.zip = @ /\ "zip" \notin parts, !.meta = @ /\ "meta" \notin parts,
                     !.old = @ \ parts]

(* cleanupExpired removes one old file after another before an archive is  *)
(* created.                                                                *)
Cleans(r, a, part) ==
  /\ RequestAt(r, "clean") /\ part \in archive[a].old
  /\ archive' = [archive EXCEPT ![a] = Removed(a, {part})]
  /\ UNCHANGED <<folder, stored, reading, history>>

Cleaned(r) ==
  /\ RequestAt(r, "clean") /\ \A a \in Archives : archive[a].old = {}
  /\ Goes(r, [reading[r] EXCEPT !.step = "find"])
  /\ UNCHANGED archive

(* zipWriter.write: a new archive, still without metadata.                 *)
WritesZip(r, a) ==
  LET q == reading[r] IN
  /\ RequestAt(r, "zip") /\ archive[a] = NoArchive
  /\ \A s \in Readings : reading[s] # None => reading[s].archive # a
  /\ archive' = [archive EXCEPT ![a] =
       [by |-> q.by, zip |-> TRUE, meta |-> FALSE, old |-> {}, holds |-> q.granted]]
  /\ Goes(r, [q EXCEPT !.step = "meta", !.archive = a])

WritesMeta(r) ==
  /\ RequestAt(r, "meta")
  /\ archive' = [archive EXCEPT ![reading[r].archive].meta = TRUE]
  /\ reading' = [reading EXCEPT ![r] = None]
  /\ UNCHANGED <<folder, stored, history>>

(* downloadArchive: readMetadata, which must find both files, and the      *)
(* archive must be one's own.                                              *)
AsksDownload(r, by, a) ==
  /\ reading[r] = None
  /\ archive[a].meta /\ archive[a].zip /\ archive[a].by = by
  /\ reading' = [reading EXCEPT ![r] =
       [op |-> "download", by |-> by, todo |-> <<>>, at |-> None,
        granted |-> archive[a].holds, archive |-> a, step |-> "read"]]
  /\ history' = [history EXCEPT ![r] = NoHistory]
  /\ UNCHANGED <<folder, stored, archive>>

(* confirmArchiveDownload finds the archive likewise and removes its files *)
(* in parallel.                                                            *)
AsksConfirm(r, by, a) ==
  /\ reading[r] = None
  /\ archive[a].meta /\ archive[a].zip /\ archive[a].by = by
  /\ reading' = [reading EXCEPT ![r] =
       [op |-> "confirm", by |-> by, todo |-> <<>>, at |-> None,
        granted |-> {}, archive |-> a, step |-> "remove"]]
  /\ history' = [history EXCEPT ![r] = NoHistory]
  /\ UNCHANGED <<folder, stored, archive>>

Removes(r, part) ==
  LET a == reading[r].archive IN
  /\ RequestAt(r, "remove")
  /\ archive[a][part]
  /\ archive' = [archive EXCEPT ![a] = Removed(a, {part})]
  /\ UNCHANGED <<folder, stored, reading, history>>

(* Both are gone, whoever removed them.                                    *)
Confirmed(r) ==
  /\ RequestAt(r, "remove")
  /\ ~archive[reading[r].archive].zip /\ ~archive[reading[r].archive].meta
  /\ Fails(r)

(* A statement, a write or the connection fails, or the process dies.      *)
Abandoned(r) == reading[r] # None /\ Fails(r)

-----------------------------------------------------------------------------

(* Any tree of folders, any files in it.                                   *)
AccessInit ==
  /\ folder \in [Folders -> FolderRows]
  /\ \A f \in Folders : f \notin Way(folder, folder[f].up)
  /\ stored \in [Stored -> FolderRows]
  /\ reading = [r \in Readings |-> None]
  /\ archive = [a \in Archives |-> NoArchive]
  /\ history = [r \in Readings |-> NoHistory]

AccessNext ==
  \/ \E f \in Folders, up \in Folders \cup {None}, p \in BOOLEAN : ChangeFolder(f, up, p)
  \/ \E x \in Stored : \/ ChangeFile(x, None)
                      \/ \E f \in Folders \cup {None}, p \in BOOLEAN :
                           ChangeFile(x, [up |-> f, public |-> p])
  \/ \E a \in Archives, part \in Kept : Ages(a, part)
  \/ \E r \in Readings :
       \/ \E u \in Readers, x \in Stored : AsksFile(r, u, x)
       \/ \E u \in Readers, n \in 1..Cardinality(Stored) :
            \E files \in [1..n -> Stored] : AsksArchive(r, u, files)
       \/ Finds(r) \/ Walks(r) \/ Grants(r) \/ Reads(r) \/ Cleaned(r) \/ Abandoned(r)
       \/ WritesMeta(r) \/ Confirmed(r)
       \/ \E part \in Kept : Removes(r, part)
       \/ \E a \in Archives :
            \/ \E part \in Kept : Cleans(r, a, part)
            \/ WritesZip(r, a)
            \/ \E u \in Readers : AsksDownload(r, u, a) \/ AsksConfirm(r, u, a)

AccessSpec == AccessInit /\ [][AccessNext]_accessVars

-----------------------------------------------------------------------------
(* Properties                                                              *)

(* The rows, the files of the archives and the steps of the requests.      *)
AccessTypeOK ==
  /\ folder \in [Folders -> FolderRows]
  /\ stored \in [Stored -> FolderRows \cup {None}]
  /\ reading \in [Readings -> Reading \cup {None}]
  /\ \A r \in Readings :
       (\E step \in {"clean", "find", "walk"} : RequestAt(r, step)) => reading[r].todo # <<>>
  /\ archive \in [Archives -> ArchiveFiles]
  /\ history \in [Readings -> Histories]

(* canReadFile looks at one row at a time. With at most one change of a    *)
(* folder or file while a request runs, what it lets be read or packed was *)
(* public with all its folders at some moment of the request; two changes  *)
(* may show a way up that never was public at once.                        *)
ReadWasPublic ==
  \A r \in Readings :
    reading[r] # None /\ reading[r].op \in {"file", "archive"} /\ history[r].changes <= 1 =>
      reading[r].granted \subseteq history[r].public

=============================================================================
