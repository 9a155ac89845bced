------------------------------- MODULE Uploads --------------------------------
(***************************************************************************)
(* A multipart request of gateways/files, from HTTPServer and its          *)
(* RequestBodyParser to FilesController.upload and FileStorageService      *)
(* .create: what of it is on disk, and what has a row in stored_files.     *)
(*                                                                         *)
(* The parts of the request are written side by side. Every call to the    *)
(* file system and the database ends in an action of its own; in between   *)
(* anything else may have failed.                                          *)
(***************************************************************************)
EXTENDS FiniteSets

CONSTANTS Parts   \* the files of the request

VARIABLES
  phase,    \* of the request, see Phases
  part,     \* part[p]: the promise of writeUploadedFile and its file
  content,  \* the parts that have a file on disk
  written,  \* writtenFilePaths
  removing, \* the paths whose unlink is still to come
  create,   \* create[p]: the promise of FileStorageService.create
  rows,     \* the parts that have a row in stored_files
  late      \* history: parts whose file came after the clean-up, or without one

uploadVars == <<phase, part, content, written, removing, create, rows, late>>

(* parsing: until `completed`; cleaning: the unlinks of fail or of         *)
(* cleanupUploadedFiles; called: the controller has the files; gone: the   *)
(* client has gone while it was sending, and nothing ends the parser.      *)
Phases == {"parsing", "gone", "parsed", "cleaning", "called", "answered", "rejected"}

UploadInit ==
  /\ phase = "parsing"
  /\ part = [p \in Parts |-> "absent"]
  /\ content = {}
  /\ written = {}
  /\ removing = {}
  /\ create = [p \in Parts |-> "none"]
  /\ rows = {}
  /\ late = {}

-----------------------------------------------------------------------------
(* Parsing                                                                 *)

(* fail: the first error completes the request and removes what has been   *)
(* written so far. Later errors find it completed.                         *)
UploadFails(paths) ==
  IF phase = "parsing"
    THEN phase' = "cleaning" /\ removing' = paths
    ELSE UNCHANGED <<phase, removing>>

(* The event "file" of a part, for a user who is authorized.               *)
BeginPart(p) ==
  /\ phase = "parsing"
  /\ part[p] = "absent"
  /\ part' = [part EXCEPT ![p] = "mkdir"]
  /\ UNCHANGED <<phase, content, written, removing, create, rows, late>>

(* A part without a name, too many parts, a malformed body.                *)
Malformed ==
  /\ phase = "parsing"
  /\ UploadFails(written)
  /\ UNCHANGED <<part, content, written, create, rows, late>>

(* The connection is lost. pipe passes neither an end nor an error on, and *)
(* the parts that were complete are still written.                         *)
ClientLeaves ==
  /\ phase = "parsing"
  /\ phase' = "gone"
  /\ UNCHANGED <<part, content, written, removing, create, rows, late>>

(* The directory is there: the stream is created and its path noted, also  *)
(* when the request has been given up in the meantime.                     *)
DirectoryMade(p) ==
  /\ part[p] = "mkdir"
  /\ part' = [part EXCEPT ![p] = "opening"]
  /\ written' = written \cup {p}
  /\ UNCHANGED <<phase, content, removing, create, rows, late>>

DirectoryFails(p) ==
  /\ part[p] = "mkdir"
  /\ part' = [part EXCEPT ![p] = "failed"]
  /\ UploadFails(written)
  /\ UNCHANGED <<content, written, create, rows, late>>

(* The file is created. A stream that was destroyed is opened all the same *)
(* and closed at once; if the unlink has been, nobody removes the file.    *)
Opened(p) ==
  /\ part[p] = "opening"
  /\ part' = [part EXCEPT ![p] = "writing"]
  /\ content' = content \cup {p}
  /\ late' = IF phase \in {"gone", "cleaning", "rejected"} /\ p \notin removing
               THEN late \cup {p} ELSE late
  /\ UNCHANGED <<phase, written, removing, create, rows>>

OpenFails(p) ==
  /\ part[p] = "opening"
  /\ part' = [part EXCEPT ![p] = "failed"]
  /\ UploadFails(written)
  /\ UNCHANGED <<content, written, create, rows, late>>

Written(p) ==
  /\ part[p] = "writing"
  /\ part' = [part EXCEPT ![p] = "done"]
  /\ UNCHANGED <<phase, content, written, removing, create, rows, late>>

(* A limit is exceeded, the file is truncated, or reading or writing       *)
(* fails; destroying the parser is an error of the parts under way.        *)
WriteFails(p) ==
  /\ part[p] = "writing"
  /\ part' = [part EXCEPT ![p] = "failed"]
  /\ UploadFails(written)
  /\ UNCHANGED <<content, written, create, rows, late>>

(* "close": the parser has seen all there is, and every file task is done. *)
Parsed ==
  /\ phase = "parsing"
  /\ \A p \in Parts : part[p] \in {"absent", "done"}
  /\ phase' = "parsed"
  /\ UNCHANGED <<part, content, written, removing, create, rows, late>>

(* removeFile: an unlink that finds no file changes nothing.               *)
Unlink(p) ==
  /\ p \in removing
  /\ removing' = removing \ {p}
  /\ content' = content \ {p}
  /\ UNCHANGED <<phase, part, written, create, rows, late>>

Reject ==
  /\ phase = "cleaning"
  /\ removing = {}
  /\ phase' = "rejected"
  /\ UNCHANGED <<part, content, written, removing, create, rows, late>>

-----------------------------------------------------------------------------
(* The controller                                                          *)

(* Defect: a payload that is not valid is rejected without a clean-up.     *)
InvalidPayloadRejects ==
  /\ phase = "parsed"
  /\ phase' = "rejected"
  /\ UNCHANGED <<part, content, written, removing, create, rows, late>>

(* prepareMultipartRequestPayload throws: cleanupUploadedFiles.            *)
InvalidPayload ==
  /\ phase = "parsed"
  /\ phase' = "cleaning"
  /\ removing' = {p \in Parts : part[p] = "done"}
  /\ UNCHANGED <<part, content, written, create, rows, late>>

(* controllerCalled: from here on nobody removes a file. Fields of the     *)
(* wrong type make the controller throw before it creates anything.        *)
CallController ==
  /\ phase = "parsed"
  /\ \/ /\ phase' = "called"
        /\ create' = [p \in Parts |-> IF part[p] = "done" THEN "checking" ELSE "none"]
     \/ /\ phase' = "rejected"
        /\ create' = [p \in Parts |-> IF part[p] = "done" THEN "failed" ELSE "none"]
  /\ UNCHANGED <<part, content, written, removing, rows, late>>

(* assertCanUseFolder, then the INSERT.                                    *)
FolderUsable(p) ==
  /\ create[p] = "checking"
  /\ create' = [create EXCEPT ![p] = "inserting"]
  /\ UNCHANGED <<phase, part, content, written, removing, rows, late>>

InsertRow(p) ==
  /\ create[p] = "inserting"
  /\ create' = [create EXCEPT ![p] = "previewing"]
  /\ rows' = rows \cup {p}
  /\ UNCHANGED <<phase, part, content, written, removing, late>>

(* createPreviewProxy: whether it succeeds or not.                         *)
Preview(p) ==
  /\ create[p] = "previewing"
  /\ create' = [create EXCEPT ![p] = "created"]
  /\ UNCHANGED <<phase, part, content, written, removing, rows, late>>

(* The folder is not there or not the user's, or a statement fails: the    *)
(* request is rejected at the first, while the others go on.               *)
CreateFails(p) ==
  /\ create[p] \in {"checking", "inserting"}
  /\ create' = [create EXCEPT ![p] = "failed"]
  /\ phase' = "rejected"
  /\ UNCHANGED <<part, content, written, removing, rows, late>>

AnswerUpload ==
  /\ phase = "called"
  /\ \A p \in Parts : create[p] \in {"none", "created"}
  /\ phase' = "answered"
  /\ UNCHANGED <<part, content, written, removing, create, rows, late>>

-----------------------------------------------------------------------------

UploadNext ==
  \/ Malformed \/ ClientLeaves \/ Parsed \/ Reject
  \/ InvalidPayload \/ CallController \/ AnswerUpload
  \/ \E p \in Parts :
       \/ BeginPart(p) \/ DirectoryMade(p) \/ DirectoryFails(p) \/ Opened(p)
       \/ OpenFails(p) \/ Written(p) \/ WriteFails(p) \/ Unlink(p)
       \/ FolderUsable(p) \/ InsertRow(p) \/ Preview(p) \/ CreateFails(p)

UploadSpec == UploadInit /\ [][UploadNext]_uploadVars

-----------------------------------------------------------------------------
(* Properties                                                              *)

UploadTypeOK ==
  /\ phase \in Phases
  /\ part \in [Parts -> {"absent", "mkdir", "opening", "writing", "done", "failed"}]
  /\ create \in [Parts -> {"none", "checking", "inserting", "previewing", "created", "failed"}]
  /\ \A s \in {content, written, removing, rows, late} : s \subseteq Parts

(* When a request has been answered or rejected, each of its files on disk *)
(* has a row or is about to get one, except those that were created when   *)
(* the clean-up had passed (late) and those whose row was refused; and     *)
(* there is never a row without its file.                                  *)
UploadsAccountedFor ==
  /\ rows \subseteq content
  /\ phase \in {"answered", "rejected"} =>
       \A p \in content \ late :
         p \in rows \/ create[p] \in {"checking", "inserting", "failed"}

=============================================================================
