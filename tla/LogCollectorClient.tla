------------------------ MODULE LogCollectorClient -------------------------
(***************************************************************************)
(* LogCollectorClient of libs/Logger: the queue of log lines of a process  *)
(* and its TCP connection to the log collector.                            *)
(*                                                                         *)
(* Everything runs on one event loop: an action is one callback, that is a *)
(* record being logged, an event of a socket or the end of a retry timer.  *)
(* Between the event by which a socket stops being writable and its        *)
(* "close" event other callbacks run. A line is its number; the two lines  *)
(* that open a connection and the metrics requests are left out.           *)
(***************************************************************************)
EXTENDS Integers, Sequences, FiniteSets, Functions

CONSTANTS
  Sockets,      \* sockets that exist at a time (a bound)
  NoSocket,     \* this.socket is null
  MaxAttempts,  \* maxConnectionAttempts
  MaxQueue,     \* maxQueueSize
  MaxTimers,    \* retry timers that run at a time (a bound)
  MaxRecords    \* records logged (a bound)

ASSUME ClientAssumption ==
  /\ NoSocket \notin Sockets
  /\ MaxAttempts \in Nat \ {0}
  /\ MaxQueue \in Nat \ {0}
  /\ MaxTimers \in Nat \ {0}
  /\ MaxRecords \in Nat

VARIABLES
  sock,           \* sock[s]: the state of socket s
  current,        \* this.socket
  connecting,     \* this.connecting
  connectedOnce,  \* this.connectedOnce
  attempts,       \* this.connectionAttempts
  disabled,       \* this.disabled, and send does nothing
  queue,          \* this.queue
  timers,         \* the number of retry timers that run
  logged,         \* the number of records logged so far
  sent,           \* history: the lines written, to whichever socket
  crossed         \* history: a connection begun before the close of the last

vars == <<sock, current, connecting, connectedOnce, attempts, disabled,
          queue, timers, logged, sent, crossed>>

(* failed: destroyed or in error before it connected; ending: it was       *)
(* connected and is not writable any more. Both wait for "close".          *)
SocketStates == {"free", "connecting", "open", "failed", "ending"}

Init ==
  /\ sock = [s \in Sockets |-> "free"]
  /\ current = NoSocket
  /\ connecting = FALSE
  /\ connectedOnce = FALSE
  /\ attempts = 0
  /\ disabled = FALSE
  /\ queue = <<>>
  /\ timers = 0
  /\ logged = 0
  /\ sent = <<>>
  /\ crossed = FALSE

-----------------------------------------------------------------------------
(* Defect: the new line is put first.                                      *)
EnqueueFirst(q, line) ==
  LET all == <<line>> \o q
  IN  IF Len(all) > MaxQueue THEN Tail(all) ELSE all

(* Defect: one line too few is kept.                                       *)
EnqueueOffByOne(q, line) ==
  LET all == Append(q, line)
  IN  IF Len(all) >= MaxQueue THEN Tail(all) ELSE all

(* The oldest line makes room for the new one.                             *)
Enqueue(q, line) ==
  LET all == Append(q, line)
  IN  IF Len(all) > MaxQueue THEN Tail(all) ELSE all

Disable ==
  /\ disabled' = TRUE
  /\ queue' = <<>>

Write(lines) ==
  /\ sent' = sent \o lines
  /\ queue' = <<>>

Writable == current # NoSocket /\ sock[current] = "open"

(* Defect: the client gives up while it makes the last attempt.            *)
ConnectGivesUpEarly(lines) ==
  /\ \E s \in Sockets :
       /\ sock[s] = "free"
       /\ sock' = [sock EXCEPT ![s] = "connecting"]
  /\ connecting' = TRUE
  /\ attempts' = attempts + 1
  /\ IF attempts' >= MaxAttempts
       THEN Disable
       ELSE queue' = lines /\ UNCHANGED disabled
  /\ crossed' = (crossed \/ current # NoSocket)

(* lines is the queue at the call.                                         *)
Connect(lines) ==
  \/ /\ attempts >= MaxAttempts
     /\ Disable
     /\ UNCHANGED <<sock, connecting, attempts, crossed>>
  \/ /\ attempts < MaxAttempts
     /\ \E s \in Sockets :
          /\ sock[s] = "free"
          /\ sock' = [sock EXCEPT ![s] = "connecting"]
     /\ connecting' = TRUE
     /\ attempts' = attempts + 1
     /\ queue' = lines
     /\ crossed' = (crossed \/ current # NoSocket)
     /\ UNCHANGED disabled

(* Defect: a connection that is being made is not waited for.              *)
FlushAlwaysConnects(lines) ==
  \/ /\ Writable
     /\ Write(lines)
     /\ UNCHANGED <<sock, connecting, attempts, disabled, crossed>>
  \/ /\ ~Writable
     /\ Connect(lines)
     /\ UNCHANGED sent

Flush(lines) ==
  \/ /\ Writable
     /\ Write(lines)
     /\ UNCHANGED <<sock, connecting, attempts, disabled, crossed>>
  \/ /\ ~Writable
     /\ connecting
     /\ queue' = lines
     /\ UNCHANGED <<sock, connecting, attempts, disabled, sent, crossed>>
  \/ /\ ~Writable
     /\ ~connecting
     /\ Connect(lines)
     /\ UNCHANGED sent

(* send: nothing happens once the client is disabled.                      *)
Log ==
  /\ ~disabled
  /\ logged < MaxRecords
  /\ logged' = logged + 1
  /\ Flush(Enqueue(queue, logged'))
  /\ UNCHANGED <<current, connectedOnce, timers>>

RetryTimer ==
  /\ timers > 0
  /\ timers' = timers - 1
  /\ Flush(queue)
  /\ UNCHANGED <<current, connectedOnce, logged>>

-----------------------------------------------------------------------------
(* Events of a socket                                                      *)

Connected(s) ==
  /\ sock[s] = "connecting"
  /\ sock' = [sock EXCEPT ![s] = "open"]
  /\ current' = s
  /\ connecting' = FALSE
  /\ connectedOnce' = TRUE
  /\ attempts' = 0
  /\ Write(queue)
  /\ UNCHANGED <<disabled, timers, logged, crossed>>

(* "timeout" of a second, or "error".                                      *)
Fail(s) ==
  /\ sock[s] = "connecting"
  /\ sock' = [sock EXCEPT ![s] = "failed"]
  /\ UNCHANGED <<current, connecting, connectedOnce, attempts, disabled,
                 queue, timers, logged, sent, crossed>>

(* The collector, or the network, ends the connection.                     *)
End(s) ==
  /\ sock[s] = "open"
  /\ sock' = [sock EXCEPT ![s] = "ending"]
  /\ UNCHANGED <<current, connecting, connectedOnce, attempts, disabled,
                 queue, timers, logged, sent, crossed>>

ScheduleRetry ==
  \/ /\ disabled
     /\ UNCHANGED <<disabled, queue, timers>>
  \/ /\ ~disabled
     /\ attempts >= MaxAttempts
     /\ Disable
     /\ UNCHANGED timers
  \/ /\ ~disabled
     /\ attempts < MaxAttempts
     /\ timers < MaxTimers
     /\ timers' = timers + 1
     /\ UNCHANGED <<disabled, queue>>

(* Defect: only a connection that was lost is made again.                  *)
CloseRetriesIfConnected(s) ==
  /\ sock[s] \in {"failed", "ending"}
  /\ sock' = [sock EXCEPT ![s] = "free"]
  /\ current' = IF current = s THEN NoSocket ELSE current
  /\ connecting' = FALSE
  /\ IF connectedOnce
       THEN ScheduleRetry
       ELSE UNCHANGED <<disabled, queue, timers>>
  /\ UNCHANGED <<connectedOnce, attempts, logged, sent, crossed>>

Close(s) ==
  /\ sock[s] \in {"failed", "ending"}
  /\ sock' = [sock EXCEPT ![s] = "free"]
  /\ current' = IF current = s THEN NoSocket ELSE current
  /\ connecting' = FALSE
  /\ IF sock[s] = "failed" \/ connectedOnce
       THEN ScheduleRetry
       ELSE UNCHANGED <<disabled, queue, timers>>
  /\ UNCHANGED <<connectedOnce, attempts, logged, sent, crossed>>

-----------------------------------------------------------------------------
Next ==
  \/ Log
  \/ RetryTimer
  \/ \E s \in Sockets : Connected(s) \/ Fail(s) \/ End(s) \/ Close(s)

Spec == Init /\ [][Next]_vars

(* A connection succeeds, fails or times out; a socket that ended closes;  *)
(* timers go off. Nobody has to log, and a connection may last for ever.   *)
FairSpec ==
  /\ Spec
  /\ WF_vars(RetryTimer)
  /\ \A s \in Sockets : WF_vars(Connected(s) \/ Fail(s)) /\ WF_vars(Close(s))

-----------------------------------------------------------------------------
(* Properties                                                              *)

TypeOK ==
  /\ sock \in [Sockets -> SocketStates]
  /\ current \in Sockets \cup {NoSocket}
  /\ connecting \in BOOLEAN /\ connectedOnce \in BOOLEAN
  /\ attempts \in 0..MaxAttempts
  /\ disabled \in BOOLEAN
  /\ queue \in Seq(1..MaxRecords) /\ Len(queue) <= MaxQueue
  /\ timers \in 0..MaxTimers
  /\ logged \in 0..MaxRecords
  /\ sent \in Seq(1..MaxRecords)
  /\ crossed \in BOOLEAN

(* Through any reconnections, the lines are written in the order in which  *)
(* they were logged, and none is written twice.                            *)
LinesInOrder ==
  LET all == sent \o queue
  IN  \A i, j \in 1..Len(all) : i < j => all[i] < all[j]

(* The collector has one connection of a process, unless a record or a     *)
(* timer met a connection that had ended and not yet closed.               *)
OneConnectionUnlessCrossed ==
  \/ Cardinality({s \in Sockets : sock[s] \in {"connecting", "open"}}) <= 1
  \/ crossed

(* "Could not connect [...] after 10 attempts. The application goes on     *)
(* without sending logs": a client that gave up has no connection.         *)
DisabledIsDisconnected ==
  disabled => \A s \in Sockets : sock[s] # "open"

(* This holds until two connections are being made at once.                *)
DisabledIsDisconnectedUnlessCrossed == DisabledIsDisconnected \/ crossed

(* Whatever sockets it goes through, the client is a queue that loses no   *)
(* line but the oldest of too many, and all of them when it gives up;      *)
(* after that it stays silent, although timers go off and sockets connect. *)
Buffer == INSTANCE LogQueue WITH
  waiting <- Range(queue),
  written <- Range(sent),
  closed  <- disabled

ImplementsLogQueue == Buffer!Spec

(* What is in the queue is written in the end, or the client gives up: a   *)
(* line never waits for the next record to be logged.                      *)
QueueDrains == queue # <<>> ~> queue = <<>>

=============================================================================
