--------------------------- MODULE ProcessCluster ---------------------------
(***************************************************************************)
(* The primary of libs/ProcessCluster and its workers: restarts within a   *)
(* sliding window, and the shutdown that waits for every worker.           *)
(*                                                                         *)
(* Node lists a worker in cluster.workers until it has both exited and     *)
(* disconnected. A worker whose exit is over may still be listed when the  *)
(* shutdown begins, and is then waited for in vain; the primary ends all   *)
(* the same, because nothing keeps its event loop alive.                   *)
(***************************************************************************)
EXTENDS Naturals, Sequences, FiniteSets

CONSTANTS
  WorkerCount,           \* workers kept running
  WorkerSlots,           \* slots for workers, running or listed
  MaxRestartsPerWorker,
  Window                 \* restartWindowMs, in ticks

ASSUME ClusterAssumption ==
  /\ WorkerCount \in Nat \ {0}
  /\ IsFiniteSet(WorkerSlots) /\ 1..WorkerCount \subseteq WorkerSlots
  /\ WorkerSlots \subseteq Nat \ {0}
  /\ MaxRestartsPerWorker \in Nat
  /\ Window \in Nat

VARIABLES
  worker,     \* worker[w]: "free", "alive", or "dead" and still listed
  restarts,   \* restartTimestamps: for each, the ticks since, newest first
  forks,      \* history: the ticks since each restart made, newest first
  shutting,   \* shuttingDown
  waiting,    \* remainingWorkers
  killed,     \* the timer of the shutdown has sent SIGKILL
  primary     \* "running" or "ended"

clusterVars == <<worker, restarts, forks, shutting, waiting, killed, primary>>

In(state) == {w \in WorkerSlots : worker[w] = state}

ClusterInit ==
  /\ worker = [w \in WorkerSlots |-> IF w <= WorkerCount THEN "alive" ELSE "free"]
  /\ restarts = <<>>
  /\ forks = <<>>
  /\ shutting = FALSE
  /\ waiting = 0
  /\ killed = FALSE
  /\ primary = "running"

Limit == WorkerCount * MaxRestartsPerWorker

(* Those within the window are the newest ones.                            *)
Recent(ticks) ==
  SubSeq(ticks, 1, Cardinality({i \in DOMAIN ticks : ticks[i] <= Window}))

(* shutdown: waits for the workers that are listed, and ends at once if    *)
(* there are none.                                                         *)
Shutdown(listed) ==
  /\ shutting' = TRUE
  /\ waiting' = Cardinality(listed)
  /\ primary' = IF listed = {} THEN "ended" ELSE primary

(* SIGINT or SIGTERM; the workers are sent it in turn.                     *)
Signal ==
  /\ primary = "running"
  /\ ~shutting
  /\ Shutdown(WorkerSlots \ In("free"))
  /\ UNCHANGED <<worker, restarts, forks, killed>>

(* Defect: the number is compared before the restart is counted.           *)
ExitRestartsOneMore(w) ==
  LET now == Recent(<<0>> \o restarts) IN
  /\ primary = "running"
  /\ worker[w] = "alive"
  /\ ~shutting
  /\ restarts' = now
  /\ IF Len(now) - 1 > Limit
       THEN /\ worker' = [worker EXCEPT ![w] = "dead"]
            /\ Shutdown(WorkerSlots \ In("free"))
            /\ UNCHANGED forks
       ELSE /\ \E v \in In("free") :
                 worker' = [worker EXCEPT ![w] = "dead", ![v] = "alive"]
            /\ forks' = Recent(<<0>> \o forks)
            /\ UNCHANGED <<shutting, waiting, primary>>
  /\ UNCHANGED killed

(* "exit" of a worker, of itself: a start that fails is one. It is         *)
(* replaced unless the restarts within the window are too many.            *)
Exit(w) ==
  LET now == Recent(<<0>> \o restarts) IN
  /\ primary = "running"
  /\ worker[w] = "alive"
  /\ ~shutting
  /\ restarts' = now
  /\ IF Len(now) > Limit
       THEN /\ worker' = [worker EXCEPT ![w] = "dead"]
            /\ Shutdown(WorkerSlots \ In("free"))
            /\ UNCHANGED forks
       ELSE /\ \E v \in In("free") :
                 worker' = [worker EXCEPT ![w] = "dead", ![v] = "alive"]
            /\ forks' = Recent(<<0>> \o forks)
            /\ UNCHANGED <<shutting, waiting, primary>>
  /\ UNCHANGED killed

(* Defect: the last but one worker ends the primary.                       *)
ExitInShutdownOffByOne(w) ==
  /\ primary = "running"
  /\ worker[w] = "alive"
  /\ shutting
  /\ worker' = [worker EXCEPT ![w] = "dead"]
  /\ waiting' = waiting - 1
  /\ primary' = IF waiting <= 2 THEN "ended" ELSE primary
  /\ UNCHANGED <<restarts, forks, shutting, killed>>

(* "exit" during the shutdown, by the signal or after it. The last of the  *)
(* workers that were listed ends the primary.                              *)
ExitInShutdown(w) ==
  /\ primary = "running"
  /\ worker[w] = "alive"
  /\ shutting
  /\ worker' = [worker EXCEPT ![w] = "dead"]
  /\ waiting' = waiting - 1
  /\ primary' = IF waiting = 1 THEN "ended" ELSE primary
  /\ UNCHANGED <<restarts, forks, shutting, killed>>

(* "disconnect" of a worker that has exited: it is listed no longer.       *)
Disconnect(w) ==
  /\ primary = "running"
  /\ worker[w] = "dead"
  /\ worker' = [worker EXCEPT ![w] = "free"]
  /\ UNCHANGED <<restarts, forks, shutting, waiting, killed, primary>>

(* The timer of the shutdown: it does not keep the primary alive, but the  *)
(* workers it is there for do.                                             *)
KillTimer ==
  /\ primary = "running"
  /\ shutting
  /\ In("alive") # {}
  /\ killed' = TRUE
  /\ UNCHANGED <<worker, restarts, forks, shutting, waiting, primary>>

(* Node ends when nothing is left to wait for.                             *)
EventLoopEnds ==
  /\ primary = "running"
  /\ In("free") = WorkerSlots
  /\ primary' = "ended"
  /\ UNCHANGED <<worker, restarts, forks, shutting, waiting, killed>>

(* Time passes. Beyond the window one age is like another.                 *)
Older(ticks) == [i \in DOMAIN ticks |-> IF ticks[i] > Window THEN ticks[i] ELSE ticks[i] + 1]

Tick ==
  /\ primary = "running"
  /\ restarts' = Older(restarts)
  /\ forks' = Older(forks)
  /\ UNCHANGED <<worker, shutting, waiting, killed, primary>>

ClusterNext ==
  \/ Signal \/ KillTimer \/ EventLoopEnds \/ Tick
  \/ \E w \in WorkerSlots : Exit(w) \/ ExitInShutdown(w) \/ Disconnect(w)

(* A worker may ignore the signal, but not SIGKILL.                        *)
KilledExits(w) == killed /\ ExitInShutdown(w)

ClusterSpec ==
  /\ ClusterInit
  /\ [][ClusterNext]_clusterVars
  /\ WF_clusterVars(KillTimer)
  /\ WF_clusterVars(EventLoopEnds)
  /\ \A w \in WorkerSlots :
       WF_clusterVars(KilledExits(w)) /\ WF_clusterVars(Disconnect(w))

-----------------------------------------------------------------------------
(* Properties                                                              *)

ClusterTypeOK ==
  /\ worker \in [WorkerSlots -> {"free", "alive", "dead"}]
  /\ restarts \in Seq(0..Window + 1)
  /\ forks \in Seq(0..Window + 1)
  /\ shutting \in BOOLEAN
  /\ waiting \in 0..Cardinality(WorkerSlots)
  /\ killed \in BOOLEAN
  /\ primary \in {"running", "ended"}

(* Within one window no more workers are restarted than the limit, however *)
(* they exit, and while none is refused as many run as were asked for.     *)
RestartsBounded ==
  /\ Len(Recent(forks)) <= Limit
  /\ ~shutting => Cardinality(In("alive")) = WorkerCount

(* A shutdown ends, though a worker may ignore the signal and though one   *)
(* that has exited may still be listed; and no worker is left behind.      *)
ShutdownEnds == shutting ~> primary = "ended" /\ In("alive") = {}

=============================================================================
