------------------------------ MODULE MCClients ------------------------------
(* What is shown in a browser for TLC: the chat as a member sees it, the    *)
(* editor of documents and the lists of files, each on its own: a behaviour *)
(* chooses one (scene) and the others stay as they were at the start.       *)
EXTENDS ChatClient, DocumentEditor, FileViews

VARIABLE scene

AllInRoot == [i \in {"F", "x", "d"} |-> "root"]

Pub == [public |-> TRUE, text |-> "t"]

(* The files there are at first, by who looks at them.                      *)
FilesStart ==
  /\ FilesInit
  /\ \A i \in Items : kept[i] # None => kept[i].text = "t"
  /\ kept["d"] \in {None, Pub}
  /\ viewer = "other" => kept["x"] # None /\ kept["d"] # None
  /\ viewer = "owner" => /\ kept["F"] = kept["d"] /\ kept["x"] \in {None, Pub}
  /\ viewer = "super" => \A i \in Items : kept[i] = Pub
  /\ scene # "files" => viewer = "super"

MCInit ==
  /\ scene \in {"messages", "channel", "editor", "files"}
  /\ ChatInit
  /\ EditorInit /\ \A d \in {"a", "b"} : row[d].content = 0 /\ row[d].title = "t"
  /\ FilesStart
  /\ scene # "messages" => own = {}
  /\ scene # "channel" => chatView.saved

(* What a view that may be old does next is not followed. The list of rooms *)
(* is loaded when the view is mounted, the connection lost when all is      *)
(* quiet.                                                                   *)
MessagesStep ==
  /\ ~crossed
  /\ ChatNext
  /\ Len(inbox') <= 2 /\ room' = room
  /\ (online => online') \/ Quiet
  /\ \A r \in 1..2 : chatRequest'[r] # None =>
       /\ chatRequest'[r].op \notin OwnerOps \cup {"leave"}
       /\ chatRequest'[r].op = "list" => ~mounted \/ chatRequest[r] # None

(* After overlapping requests on the room those under way come to an end.   *)
Ends ==
  /\ \A r \in 1..2 : chatRequest[r] = None => chatRequest'[r] = None
  /\ chatLoad[1] = None => chatLoad'[1] = None
  /\ online' = online /\ mounted' = mounted

ChannelStep ==
  /\ ~(crossed /\ (putOut \/ strayed))
  /\ ChatNext
  /\ Len(inbox') <= 2 /\ text' = text
  /\ chatLoad[1] # None => chatLoad'[1] # chatLoad[1]
  /\ crossed => Ends
  /\ \A r \in 1..2 : chatRequest'[r] # None => chatRequest'[r].op \notin ServiceOps

(* Once what is shown may not be what is kept, saves under way come to an   *)
(* end and nothing else happens. One of the documents keeps its title and   *)
(* is not finalised.                                                        *)
EditorStep ==
  /\ EditorNext
  /\ docCrossed =>
       /\ SavesRunning /\ \A s \in 1..2 : docSave[s] = None => docSave'[s] = None
       /\ ~DocLoading /\ ~DocLoading'
       /\ editor' = editor /\ attaching' = attaching
  /\ \A s \in 1..2 : docSave'[s] # None /\ docSave'[s].uid = "b" =>
       docSave'[s].title = "t" /\ ~docSave'[s].final

(* When nothing is under way but what the browser does not know of.         *)
Settled == events = 0 /\ ~soon /\ ~ListsLoading

Idle == bulk = None /\ \A c \in 1..2 : call[c] = None

CallBegins(c) == call[c] = None /\ call'[c] # None

Moves == place # None /\ place' # place

OthersChanged ==
  /\ kept' # kept
  /\ \A c \in 1..2 : call[c] # None /\ call'[c] # None => call[c].step = call'[c].step

OnlyChanged(i) == \A j \in Items \ {i} : kept'[j] = kept[j]

(* The three tables are read in one order.                                  *)
InOrder ==
  \A l \in 1..2 : lists[l] # None /\ lists'[l] # None =>
    LET read == lists[l].left \ lists'[l].left IN
    read # {} => read = {CHOOSE t \in Tables : t \in lists[l].left}

(* Another user looks while the owner changes the folder.                   *)
WatchStep ==
  /\ OthersChanged => events = 0 /\ ~soon /\ lists[2] = None /\ OnlyChanged("F")
  /\ Moves => events = 0 /\ ~soon
  /\ place' = None => ~ListsLoading
  /\ "owners" \in {place, place'} => events = 0 /\ ~soon

(* The owner makes one change after another, which others may meet at the   *)
(* file; lists are loaded one at a time.                                    *)
ChangeStep ==
  /\ bulk' = None /\ call'[2] = None /\ lists'[2] = None /\ place' # "F"
  /\ picked' = picked \/ picked' = {}
  /\ CallBegins(1) =>
       /\ Settled /\ Idle /\ \A i \in Items : kept[i] \in {None, Pub}
       /\ call'[1].op = "create" => call'[1].row = Pub
       /\ call'[1].op = "update" => call'[1].row.text = "u" /\ call'[1].item # "F"
  /\ OthersChanged =>
       /\ Settled /\ ~Idle /\ OnlyChanged("x")
       /\ kept'["x"] # None =>
            call[1].step \in {"found", "done"} /\ kept'["x"].text # "u"
  /\ Moves => Settled /\ (~Idle => call[1].op = "create")
  /\ place = None /\ place' # None => place' = "root"
  /\ missed /\ missed' => <<kept', lists'>> = <<kept, lists>> /\ call'[1] = None

(* A superadministrator changes several at once, while the owner may delete *)
(* one of them.                                                             *)
BulkStep ==
  LET all == Settled /\ Idle /\ \A i \in Items : kept[i] = Pub IN
  /\ place' \in {"root", None} /\ lists'[2] = None /\ events' <= 1
  /\ \A c \in 1..2 : CallBegins(c) => call'[c].many
  /\ bulk = None /\ bulk' # None => all
  /\ picked' # picked /\ picked' # {} => all /\ Cardinality(picked') # 2
  /\ OthersChanged =>
       Settled /\ bulk # None /\ kept' = [kept EXCEPT !["x"] = None]
  /\ Moves => Settled /\ (~Idle => place' = None)
  /\ missed /\ missed' /\ bulk = None => <<kept', lists'>> = <<kept, lists>>
  /\ place = None /\ place' # None => Idle

(* What may not be what is kept is not followed.                            *)
FilesStep ==
  /\ ~apart
  /\ FilesNext
  /\ InOrder
  /\ connected' # connected => Settled /\ Idle
  /\ viewer = "other" => WatchStep
  /\ viewer = "owner" => ChangeStep
  /\ viewer = "super" => BulkStep

InChat(name, step) == scene = name /\ step /\ UNCHANGED <<editorVars, fileVs, scene>>

InEditor(step) == scene = "editor" /\ step /\ UNCHANGED <<chatVars, fileVs, scene>>

InFiles(step) == scene = "files" /\ step /\ UNCHANGED <<chatVars, editorVars, scene>>

MCNext ==
  \/ InChat("messages", MessagesStep)
  \/ InChat("channel", ChannelStep)
  \/ InEditor(EditorStep)
  \/ InFiles(FilesStep)

MCVars == <<chatVars, editorVars, fileVs, scene>>

MCSpec == MCInit /\ [][MCNext]_MCVars

=============================================================================
