------------------------------ MODULE MCServices ------------------------------
(* The messages of the chat, uploads, the readers of files and the sign-ins *)
(* of a browser for TLC, each on its own: a behaviour chooses one (scene)   *)
(* and the others stay as they were at the start.                           *)
EXTENDS ChatMessages, Uploads, FileAccess, Sessions

VARIABLE scene

(* The public folders a and b next to each other, x in a.                   *)
Plain ==
  /\ folder = [f \in {"a", "b"} |-> [up |-> None, public |-> TRUE]]
  /\ stored = [x \in {"x", "y"} |-> [up |-> IF x = "x" THEN "a" ELSE None, public |-> TRUE]]

(* One user has all files and the old messages, which have no files.        *)
PlainMessages ==
  /\ attached = {}
  /\ \A f, g \in Files : file[f] = file[g]
  /\ \A m \in Messages, f \in Files : message[m].sender = file[f].owner

MCInit ==
  /\ scene \in {"upload", "access", "messages", "sign in"}
  /\ Init /\ (scene # "messages" => PlainMessages)
  /\ AccessInit /\ (scene # "access" => Plain)
  /\ stored["y"].public /\ stored["y"].up # "b"
  /\ SessionsInit /\ (scene # "sign in" => allowed)
  /\ UploadInit

(* Slots are alike: the second is taken while, or after, the first is.      *)
MessagesStep ==
  LET first == CHOOSE p \in Requests : TRUE IN
  Next /\ \A p \in Requests \ {first} : req'[p] # req[p] => req[first] # New

(* The first request meets the changes, two for one file and one for an     *)
(* archive; archives age, are downloaded and confirmed, two requests at a   *)
(* time, while the folders are Plain.                                       *)
AccessStep ==
  LET changed == <<folder', stored'>> # <<folder, stored>>
      begins(r) == reading[r] = None /\ reading'[r] # None IN
  /\ AccessNext
  /\ changed =>
       /\ reading[1] # None /\ reading[1].step # "read" /\ reading[2] = None
       /\ archive["z"] = NoArchive
       /\ history[1].changes < (IF reading[1].op = "file" THEN 2 ELSE 1)
  /\ archive' # archive => Plain
  /\ begins(1) => /\ reading[2] = None
                  /\ reading'[1].op = "archive" \/ archive["z"] = NoArchive
  /\ begins(2) => Plain /\ archive["z"] # NoArchive

NoneAsked == \A r \in 1..2 : request[r] = None

BothAsk == request'[1] # None /\ request'[2] # None

(* A tab shows the page system, or is on its way there.                     *)
OnSystem ==
  \/ \E t \in 1..2 : tab'[t].at = "system"
  \/ \E r \in 1..2 : request'[r] # None /\ request'[r].to = "system"

(* One tab with all pages, which signs in when nothing else is under way. A *)
(* token expires and a session is revoked elsewhere under the first sign-in.*)
OneTab ==
  /\ tab'[2].at = "closed"
  /\ expired' # expired => request[2] = None /\ session[2] = None
  /\ session' # session /\ request' = request /\ ~NoneAsked =>
       request[2] = None /\ request[1] # None /\ request[1].step = "asked" /\ session'[1] # session[1]
  /\ tab[1].challenge => request'[2] = None
  /\ BothAsk =>
       LET ops == {request'[1].op, request'[2].op} IN
       /\ ops \cap {"login", "verify"} = {}
       /\ ops = {"state"} => session[2] = None /\ expired = {}
       /\ expired # {} => "list" \in ops
  /\ tab[1].checked /\ ~tab'[1].checked /\ request' = request =>
       session[2] = None /\ expired = {}

(* Two tabs, each with one request at a time, and two sign-ins.             *)
TwoTabs ==
  /\ expired' = {}
  /\ \A t \in 1..2 : tab'[t].at # "settings" /\ ~tab'[t].challenge
  /\ \A r \in 1..2 : request'[r] # None => request'[r].to # "settings"
  /\ BothAsk => request'[1].tab # request'[2].tab
  /\ session' # session => request' # request

SignStep ==
  /\ SessionsNext
  /\ \A t \in 1..2 :
       /\ (tab[t].at = "closed") # (tab'[t].at = "closed") => NoneAsked
       /\ tab[t].checked /\ ~tab'[t].checked /\ request' = request => NoneAsked
  /\ request[2] = None /\ request'[2] # None => request'[1] # None
  /\ tab[1].at = "closed" => tab'[2].at = "closed"
  /\ OnSystem => tab'[2].at = "closed" /\ session[2] = None /\ ~BothAsk
  /\ allowed => TwoTabs
  /\ ~allowed => OneTab

InUpload(step) ==
  scene = "upload" /\ step /\ UNCHANGED <<accessVars, sessionVs, vars, scene>>

InAccess(step) ==
  scene = "access" /\ step /\ UNCHANGED <<uploadVars, sessionVs, vars, scene>>

InMessages(step) ==
  scene = "messages" /\ step /\ UNCHANGED <<uploadVars, accessVars, sessionVs, scene>>

InSign(step) ==
  scene = "sign in" /\ step /\ UNCHANGED <<uploadVars, accessVars, vars, scene>>

MCNext ==
  \/ InUpload(UploadNext)
  \/ InAccess(AccessStep)
  \/ InMessages(MessagesStep)
  \/ InSign(SignStep)

MCVars == <<uploadVars, accessVars, sessionVs, vars, scene>>

MCSpec == MCInit /\ [][MCNext]_MCVars

=============================================================================
