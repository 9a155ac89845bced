------------------------------ MODULE LogQueue ------------------------------
(***************************************************************************)
(* What a process may count on when it logs to the collector, whatever     *)
(* becomes of its connections. A line waits until all that wait are        *)
(* written together, and is never taken back after that; it is lost only   *)
(* when as many newer lines as the queue takes have been logged, or when   *)
(* the client gives up, once for all: what waits then is lost, and nothing *)
(* is logged, kept or written any more.                                    *)
(*                                                                         *)
(* LogCollectorClient implements this module.                              *)
(***************************************************************************)
EXTENDS Integers

CONSTANT MaxQueue   \* the lines that may wait

VARIABLES
  logged,     \* the number of lines logged; a line is its number
  waiting,    \* the lines that wait
  written,    \* the lines written
  closed      \* the client gave up

vars == <<logged, waiting, written, closed>>

Init ==
  /\ logged = 0
  /\ waiting = {}
  /\ written = {}
  /\ closed = FALSE

(* Lines are kept, written or given up, all of them.                       *)
Keep(lines) == waiting' = lines /\ UNCHANGED <<written, closed>>

Write(lines) ==
  /\ waiting' = {}
  /\ written' = written \cup lines
  /\ UNCHANGED closed

GiveUp ==
  /\ waiting' = {}
  /\ closed' = TRUE
  /\ UNCHANGED written

Handle(lines) == Keep(lines) \/ Write(lines) \/ GiveUp

(* The newest MaxQueue lines and no others go on waiting.                  *)
Log ==
  /\ ~closed
  /\ logged' = logged + 1
  /\ Handle({n \in waiting \cup {logged'} : n > logged' - MaxQueue})

Flush ==
  /\ ~closed
  /\ Handle(waiting)
  /\ UNCHANGED logged

Spec == Init /\ [][Log \/ Flush]_vars

=============================================================================
