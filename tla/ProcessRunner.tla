--------------------------- MODULE ProcessRunner ----------------------------
(***************************************************************************)
(* scripts/project-runner on Windows: commands that run in tabs of Windows *)
(* Terminal, which the runner knows by files only. A wrapper script in the *)
(* tab writes a pid file, runs the command, and removes the file; the      *)
(* runner looks for the files at intervals.                                *)
(*                                                                         *)
(* "wait" is runParallel: the script also writes the exit code, and the    *)
(* runner waits for it. "separate" is runInSeparateWindows: the runner     *)
(* waits until all tabs are gone, or stops them when it is interrupted.    *)
(***************************************************************************)

CONSTANTS Tabs   \* the commands, one tab each

VARIABLES
  mode,     \* "unset", then "wait" or "separate"
  tab,      \* tab[t]: "opening", "running", "finally", "gone"
  pidFile,  \* pidFile[t]: "none", "empty" (created, not written) or "pid"
  exitFile, \* exitFile[t]: the exit code file, "none", "zero" or "other"
  seen,     \* processRunnerPidFileWasCreated
  awaited,  \* aliveChildren, or the tabs whose promise is not settled
  killing,  \* tabs that stop has still to kill
  outcome,  \* "running", "stopping", "resolved" or "rejected"
  spared    \* history: tabs that stop found no pid of, or failed to kill

runnerVars == <<mode, tab, pidFile, exitFile, seen, awaited, killing, outcome, spared>>

RunnerInit ==
  /\ mode = "unset"
  /\ tab = [t \in Tabs |-> "opening"]
  /\ pidFile = [t \in Tabs |-> "none"]
  /\ exitFile = [t \in Tabs |-> "none"]
  /\ seen = {}
  /\ awaited = Tabs
  /\ killing = {}
  /\ outcome = "running"
  /\ spared = {}

Ended == outcome \in {"resolved", "rejected"}

-----------------------------------------------------------------------------
(* The tabs                                                                *)

(* wt.exe is started with all the tabs.                                    *)
Spawn ==
  /\ mode = "unset"
  /\ mode' \in {"wait", "separate"}
  /\ UNCHANGED <<tab, pidFile, exitFile, seen, awaited, killing, outcome, spared>>

(* "error", or an exit code other than zero, of wt.exe: the error is       *)
(* passed to every child, and no tab opens.                                *)
LauncherFails ==
  /\ mode # "unset"
  /\ ~Ended
  /\ \A t \in Tabs : tab[t] = "opening"
  /\ tab' = [t \in Tabs |-> "gone"]
  /\ awaited' = {}
  /\ outcome' = "rejected"
  /\ UNCHANGED <<mode, pidFile, exitFile, seen, killing, spared>>

(* The wrapper script: Set-Content creates the file and then writes it.    *)
OpenTab(t) ==
  /\ mode # "unset"
  /\ tab[t] = "opening"
  /\ tab' = [tab EXCEPT ![t] = "running"]
  /\ pidFile' = [pidFile EXCEPT ![t] = "empty"]
  /\ UNCHANGED <<mode, exitFile, seen, awaited, killing, outcome, spared>>

WritePid(t) ==
  /\ tab[t] = "running"
  /\ pidFile[t] = "empty"
  /\ pidFile' = [pidFile EXCEPT ![t] = "pid"]
  /\ UNCHANGED <<mode, tab, exitFile, seen, awaited, killing, outcome, spared>>

(* The command ends. The exit code is written before the pid is removed.   *)
CommandEnds(t) ==
  /\ tab[t] = "running"
  /\ pidFile[t] # "empty"
  /\ tab' = [tab EXCEPT ![t] = "finally"]
  /\ \E code \in {"zero", "other"} :
       exitFile' = IF mode = "wait" THEN [exitFile EXCEPT ![t] = code] ELSE exitFile
  /\ UNCHANGED <<mode, pidFile, seen, awaited, killing, outcome, spared>>

RemovePid(t) ==
  /\ tab[t] = "finally"
  /\ tab' = [tab EXCEPT ![t] = "gone"]
  /\ pidFile' = [pidFile EXCEPT ![t] = "none"]
  /\ UNCHANGED <<mode, exitFile, seen, awaited, killing, outcome, spared>>

(* A tab closed by hand ends without its finally: its files stay.          *)
CloseByHand(t) ==
  /\ tab[t] = "running"
  /\ tab' = [tab EXCEPT ![t] = "gone"]
  /\ UNCHANGED <<mode, pidFile, exitFile, seen, awaited, killing, outcome, spared>>

-----------------------------------------------------------------------------
(* The runner that waits for exit codes                                    *)

(* The monitor of waitForWindowsTerminalCommand: the promise of the tab is *)
(* settled with its code and its files are removed; the first to fail, or  *)
(* the last, settles the whole.                                            *)
MonitorExit(t) ==
  /\ mode = "wait"
  /\ t \in awaited
  /\ exitFile[t] # "none"
  /\ awaited' = awaited \ {t}
  /\ pidFile' = [pidFile EXCEPT ![t] = "none"]
  /\ exitFile' = [exitFile EXCEPT ![t] = "none"]
  /\ outcome' = IF Ended THEN outcome
                ELSE IF exitFile[t] = "other" THEN "rejected"
                ELSE IF awaited = {t} THEN "resolved" ELSE outcome
  /\ UNCHANGED <<mode, tab, seen, killing, spared>>

-----------------------------------------------------------------------------
(* The runner of separate windows                                          *)

(* Defect: a tab without a file is taken for one that has ended.           *)
MonitorPidsForgetful ==
  LET present == {t \in Tabs : pidFile[t] # "none"} IN
  /\ mode = "separate"
  /\ ~Ended
  /\ seen' = seen \cup present
  /\ awaited' = awaited \cap present
  /\ outcome' = IF awaited' = {} THEN "resolved" ELSE outcome
  /\ UNCHANGED <<mode, tab, pidFile, exitFile, killing, spared>>

(* The monitor of waitForSeparateWindowProcesses: a tab has ended when its *)
(* file was there and is there no more.                                    *)
MonitorPids ==
  LET present == {t \in Tabs : pidFile[t] # "none"} IN
  /\ mode = "separate"
  /\ ~Ended
  /\ seen' = seen \cup present
  /\ awaited' = awaited \ (seen \ present)
  /\ outcome' = IF awaited' = {} THEN "resolved" ELSE outcome
  /\ UNCHANGED <<mode, tab, pidFile, exitFile, killing, spared>>

(* stop: SIGINT or SIGTERM. getTrackedProcessPid finds no pid in a file    *)
(* that is not there or not written yet, and that tab is left alone.       *)
Stop ==
  LET known == {t \in awaited : pidFile[t] = "pid"} IN
  /\ mode = "separate"
  /\ outcome = "running"
  /\ outcome' = IF known = {} THEN "resolved" ELSE "stopping"
  /\ killing' = known
  /\ pidFile' = [t \in Tabs |-> IF t \in awaited \ known THEN "none" ELSE pidFile[t]]
  /\ spared' = spared \cup (awaited \ known)
  /\ UNCHANGED <<mode, tab, exitFile, seen, awaited>>

(* taskkill of one tab, whether or not it succeeds, and then its file; the *)
(* last one ends the stop.                                                 *)
Kill(t) ==
  /\ t \in killing
  /\ killing' = killing \ {t}
  /\ pidFile' = [pidFile EXCEPT ![t] = "none"]
  /\ \/ tab' = [tab EXCEPT ![t] = "gone"] /\ UNCHANGED spared
     \/ spared' = spared \cup {t} /\ UNCHANGED tab
  /\ outcome' = IF killing' = {} /\ ~Ended THEN "resolved" ELSE outcome
  /\ UNCHANGED <<mode, exitFile, seen, awaited>>

-----------------------------------------------------------------------------

TabStep(t) ==
  OpenTab(t) \/ WritePid(t) \/ CommandEnds(t) \/ RemovePid(t) \/ CloseByHand(t)

Monitor == MonitorPids \/ \E t \in Tabs : MonitorExit(t)

RunnerNext ==
  \/ Spawn \/ LauncherFails \/ Monitor \/ Stop
  \/ \E t \in Tabs : TabStep(t) \/ Kill(t)

RunnerSpec == RunnerInit /\ [][RunnerNext]_runnerVars

-----------------------------------------------------------------------------
(* Properties                                                              *)

RunnerTypeOK ==
  /\ mode \in {"unset", "wait", "separate"}
  /\ tab \in [Tabs -> {"opening", "running", "finally", "gone"}]
  /\ pidFile \in [Tabs -> {"none", "empty", "pid"}]
  /\ exitFile \in [Tabs -> {"none", "zero", "other"}]
  /\ seen \subseteq Tabs
  /\ awaited \subseteq Tabs
  /\ killing \subseteq Tabs
  /\ outcome \in {"running", "stopping", "resolved", "rejected"}
  /\ spared \subseteq Tabs

(* The runner of separate windows does not end before its tabs: every one  *)
(* has ended or been killed, except those that had not yet written their   *)
(* pid when the runner was stopped, or that taskkill failed to kill. Files *)
(* are all it goes by, and a file that is missing may be one to come.      *)
NoTabLeftRunning ==
  mode = "separate" /\ Ended =>
    \A t \in Tabs : tab[t] \in {"opening", "running"} => t \in spared

=============================================================================
