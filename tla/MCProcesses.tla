------------------------------ MODULE MCProcesses ------------------------------
(* The process cluster, the process runner, the log collector, the commands *)
(* of the database and the notifications for TLC, each on its own: a        *)
(* behaviour chooses one (scene) and the others stay as they were at the    *)
(* start.                                                                   *)
EXTENDS ProcessCluster, ProcessRunner, PackageStatus, DatabaseInit, Notifications

VARIABLE scene

(* One migration of each kind of statement, one that ends with the kind     *)
(* that does not bear to be run twice.                                      *)
TwoMigrations ==
  <<<<[ddl |-> TRUE, again |-> TRUE], [ddl |-> FALSE, again |-> TRUE],
      [ddl |-> TRUE, again |-> FALSE]>>,
    <<[ddl |-> FALSE, again |-> TRUE], [ddl |-> TRUE, again |-> FALSE]>>>>

MCInit ==
  /\ scene \in {"cluster", "status", "runner", "database", "bot", "codes"}
  /\ ClusterInit /\ StatusInit /\ RunnerInit
  /\ DbInit /\ (scene # "database" => dialect = "mysql")
  /\ NoteInit /\ (scene # "bot" => configured = "a" /\ bot = "a")

(* Once something came late, failed, or ran side by side, nothing new is    *)
(* begun: StatusSettles says no more, and what is under way still ends.     *)
(* Slots are alike: the second is taken while the first is.                 *)
StatusStep ==
  LET begins(slot, next) == slot.step = "idle" /\ next.step # "idle" IN
  /\ StatusNext
  /\ crossed => /\ Len(accepted') <= Len(accepted)
                /\ \A t \in DOMAIN chain : ~begins(chain[t], chain'[t])
                /\ \A m \in DOMAIN ask : ~begins(ask[m], ask'[m])
  /\ accepted' = Append(accepted, 2) => accepted # <<>>
  /\ begins(chain[2], chain'[2]) => chain[1].step # "idle"
  /\ begins(ask[2], ask'[2]) => ask[1].step # "idle"

(* The second command is one of the short ones; the role is transferred     *)
(* while it is not there.                                                   *)
DatabaseStep ==
  /\ DbNext
  /\ job[2] = Idle /\ job'[2] # Idle =>
       job[1] # Idle /\ job'[2].steps # Program["initialize"]
  /\ super' # super /\ job' = job => job[2] = Idle

NotesStep == NoteNext /\ (request[2] = None /\ request'[2] # None => request[1] # None)

(* The configuration of the bot, or everything but its change. Users are    *)
(* alike: the first code is for u1.                                         *)
BotStep == NotesStep /\ code' = code

CodesStep ==
  /\ NotesStep
  /\ configured' = configured
  /\ \A r \in 1..2 : ~At(r, "save")'
  /\ code'[1] # None => code'[1].user = "u1"

InCluster(step) ==
  scene = "cluster" /\ step
  /\ UNCHANGED <<statusVars, runnerVars, dbVars, noteVars, scene>>

InStatus(step) ==
  scene = "status" /\ step
  /\ UNCHANGED <<clusterVars, runnerVars, dbVars, noteVars, scene>>

InRunner(step) ==
  scene = "runner" /\ step
  /\ UNCHANGED <<clusterVars, statusVars, dbVars, noteVars, scene>>

InDatabase(step) ==
  scene = "database" /\ step
  /\ UNCHANGED <<clusterVars, statusVars, runnerVars, noteVars, scene>>

InNotes(name, step) ==
  scene = name /\ step
  /\ UNCHANGED <<clusterVars, statusVars, runnerVars, dbVars, scene>>

MCNext ==
  \/ InCluster(ClusterNext)
  \/ InStatus(StatusStep)
  \/ InRunner(RunnerNext)
  \/ InDatabase(DatabaseStep)
  \/ InNotes("bot", BotStep)
  \/ InNotes("codes", CodesStep)

MCVars == <<clusterVars, statusVars, runnerVars, dbVars, noteVars, scene>>

(* The fairness of ClusterSpec and StatusSpec.                              *)
MCSpec ==
  /\ MCInit
  /\ [][MCNext]_MCVars
  /\ WF_MCVars(InCluster(KillTimer))
  /\ WF_MCVars(InCluster(EventLoopEnds))
  /\ \A w \in WorkerSlots :
       WF_MCVars(InCluster(KilledExits(w))) /\ WF_MCVars(InCluster(Disconnect(w)))
  /\ \A m \in 1..2 : WF_MCVars(InStatus(AnswerStep(m)))

=============================================================================
