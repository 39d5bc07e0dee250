------------------------------- MODULE Watcher -------------------------------
(***************************************************************************)
(* The supervision of a solver by runsolver (Watcher.hh).  Three actors    *)
(* share the fields of one Watcher object without a lock:                  *)
(*   - the main thread (watchPID), which reaps its children until none is  *)
(*     left, waits for the watcher thread and writes the report;           *)
(*   - the watcher thread (operator()), which samples the process tree     *)
(*     every tick (0.1 s), checks the limits and, once a stop is           *)
(*     requested, sends SIGTERM, waits, sends SIGKILL, and sweeps;         *)
(*   - the signal handler, which runs on top of the main thread and calls  *)
(*     stopSolver.                                                         *)
(* The solver's processes and the kernel are the fourth actor (Kernel).    *)
(***************************************************************************)
EXTENDS ProcessTree

CONSTANTS ScanPeriod,   \* ticks between two full scans of /proc (10)
          EarlyScans,   \* full scans at the start (5)
          DelayTicks,   \* delayBeforeKill*10: ticks from SIGTERM to SIGKILL
          Limits,       \* the limits set: a subset of LimitKinds
          WallLimit,    \* limitWallClockTime, in ticks
          MaxLate,      \* bound: how many ticks a wake-up may be late
          UserSignals   \* may a user send SIGTERM or SIGINT to runsolver?

LimitKinds == {"cpu", "wall", "vsize", "memory"}

ASSUME WatcherAssumption ==
  /\ ScanPeriod \in Nat \ {0} /\ EarlyScans \in Nat
  /\ DelayTicks \in Nat
  /\ Limits \subseteq LimitKinds
  /\ WallLimit \in Nat \ {0}
  /\ MaxLate \in Nat
  /\ UserSignals \in BOOLEAN

VARIABLES
  main,                \* main thread: "wait", "join" or "done"
  thread,              \* watcher thread: where it is in operator()
  handler,             \* signal handler: "idle" or the store it has done
  solverIsRunning,     \* shared: cleared by both threads
  stopSolverRequested, \* shared: set by the watcher thread and the handler
  stopReason,          \* shared: "null" or what asked for the stop
  stopSolverState,     \* ticks since the stop was noticed
  elapsed,             \* ticks since the start, saturating at WallLimit
  firstSecond,         \* count = 0
  subcount,            \* tenths of a second since the last full scan
  childstatus,         \* the process whose status waitpid stored last
  announced,           \* the stopReason that was printed, "none" before
  grace                \* history: ticks since the SIGTERMs were sent

mainVars   == <<main, childstatus>>
clockVars  == <<elapsed, firstSecond, subcount, grace>>
stopVars   == <<stopSolverRequested, stopReason>>
vars == <<kernelVars, treeVars, mainVars, clockVars, stopVars, thread, handler,
          solverIsRunning, stopSolverState, announced>>

Init ==
  /\ KernelInit /\ TreeInit
  /\ main = "wait" /\ thread = "loop" /\ handler = "idle"
  /\ solverIsRunning = TRUE
  /\ stopSolverRequested = FALSE /\ stopReason = "null"
  /\ stopSolverState = 0
  /\ elapsed = 0 /\ firstSecond = TRUE /\ subcount = 1
  /\ childstatus = Runsolver
  /\ announced = "none" /\ grace = 0

-----------------------------------------------------------------------------
(* The main thread: watchPID.  It runs only while the handler does not.    *)

(* waitpid reports the end of a child: the solver, or an adopted orphan.   *)
ReapChild(c) ==
  /\ main = "wait" /\ handler = "idle"
  /\ Reap(c)
  /\ childstatus' = c
  /\ UNCHANGED <<treeVars, clockVars, stopVars, main, thread, handler,
                 solverIsRunning, stopSolverState, announced>>

(* Mutant: the loop of waitpid ends with the process it forked.            *)
SolverReaped ==
  /\ main = "wait" /\ handler = "idle"
  /\ state[Solver] = "gone"
  /\ solverIsRunning' = FALSE
  /\ main' = "join"
  /\ UNCHANGED <<kernelVars, treeVars, clockVars, stopVars, thread, handler,
                 stopSolverState, childstatus, announced>>

(* waitpid fails with ECHILD.                                              *)
NoMoreChildren ==
  /\ main = "wait" /\ handler = "idle"
  /\ NoChild
  /\ solverIsRunning' = FALSE
  /\ main' = "join"
  /\ UNCHANGED <<kernelVars, treeVars, clockVars, stopVars, thread, handler,
                 stopSolverState, childstatus, announced>>

(* join returns; the report is written.                                    *)
Join ==
  /\ main = "join" /\ handler = "idle"
  /\ thread = "done"
  /\ main' = "done"
  /\ UNCHANGED <<kernelVars, treeVars, clockVars, stopVars, thread, handler,
                 solverIsRunning, stopSolverState, childstatus, announced>>

MainStep == (\E c \in Pid : ReapChild(c)) \/ NoMoreChildren \/ Join

-----------------------------------------------------------------------------
(* The signal handler: stopSolver from watcherSigHandler.  The two stores  *)
(* are not atomic for the watcher thread, and the compiler may emit them   *)
(* in either order.  A signal that would change nothing is a stuttering    *)
(* step.                                                                   *)
SignalArrives ==
  /\ UserSignals /\ main # "done" /\ handler = "idle"
  /\ ~ (stopSolverRequested /\ stopReason = "signal")

HandlerUnchanged ==
  UNCHANGED <<kernelVars, treeVars, mainVars, clockVars, thread,
              solverIsRunning, stopSolverState, announced>>

FlagFirst ==
  /\ SignalArrives
  /\ stopSolverRequested' = TRUE
  /\ handler' = "flag"
  /\ UNCHANGED stopReason /\ HandlerUnchanged

ReasonFirst ==
  /\ SignalArrives
  /\ stopReason' = "signal"
  /\ handler' = "reason"
  /\ UNCHANGED stopSolverRequested /\ HandlerUnchanged

SecondStore ==
  /\ handler # "idle"
  /\ stopSolverRequested' = TRUE
  /\ stopReason' = "signal"
  /\ handler' = "idle"
  /\ HandlerUnchanged

HandlerStep == FlagFirst \/ ReasonFirst \/ SecondStore

-----------------------------------------------------------------------------
(* The watcher thread: operator().                                         *)

FullScanDue == subcount = ScanPeriod \/ (firstSecond /\ subcount <= EarlyScans)

(* while(solverIsRunning), the sleep to the next tick, and the call of     *)
(* readProcessData.                                                        *)
Tick ==
  /\ thread = "loop" /\ solverIsRunning
  /\ \E late \in 0..MaxLate :
       elapsed' = IF elapsed + 1 + late > WallLimit THEN WallLimit
                  ELSE elapsed + 1 + late
  /\ grace' = IF stopSolverState = 0 \/ grace = DelayTicks THEN grace
              ELSE grace + 1
  /\ IF FullScanDue THEN StartScan ELSE StartUpdate
  /\ thread' = "sample"
  /\ UNCHANGED <<kernelVars, mainVars, stopVars, firstSecond, subcount, handler,
                 solverIsRunning, stopSolverState, announced>>

(* One step of the reading of /proc, for whichever part of the loop.       *)
Sample ==
  /\ thread \in {"sample", "display", "notice", "lastScan"}
  /\ SampleStep
  /\ UNCHANGED <<kernelVars, mainVars, clockVars, stopVars, thread, handler,
                 solverIsRunning, stopSolverState, announced>>

(* The loop is left, by its condition or by the break after a sample that  *)
(* found nobody although the main thread is done: "just to be sure", scan  *)
(* again.                                                                  *)
LeaveLoop ==
  /\ \/ thread = "loop" /\ ~ solverIsRunning
     \/ thread = "sample" /\ sampling = "ready"
        /\ SolverEnded(tree) /\ ~ solverIsRunning
  /\ StartScan
  /\ thread' = "lastScan"
  /\ solverIsRunning' = FALSE
  /\ UNCHANGED <<kernelVars, mainVars, clockVars, stopVars, handler,
                 stopSolverState, announced>>

(* The reason that stays when several limits are reached: the one that     *)
(* readProcessData tests last.                                             *)
TestOrder == [cpu |-> 1, wall |-> 2, vsize |-> 3, memory |-> 4]
IsLastTested(r, over) == r \in over /\ \A s \in over : TestOrder[s] <= TestOrder[r]

(* Mutant: the stop is requested without a reason.                         *)
StopWithoutReason(over) == stopSolverRequested' = TRUE /\ UNCHANGED stopReason

(* The calls of stopSolver by readProcessData; the thread that makes them  *)
(* is the one that reads both fields later.                                *)
StopSolver(over) ==
  /\ stopSolverRequested' = TRUE
  /\ \E r \in over : IsLastTested(r, over) /\ stopReason' = r

(* displayProcessData: when the solver uses little CPU it looks for heavy   *)
(* processes of other users, and dumpHeavyProcesses reads /proc again into *)
(* the current tree unless the tree is a full scan.  Neither the display   *)
(* period nor the CPU time used is modelled: the thread goes on (next), or *)
(* goes there after one more scan (scan).                                  *)
Display(next, scan) ==
  \/ thread' = next /\ UNCHANGED treeVars
  \/ ~ treeHasAllProcesses /\ thread' = scan /\ StartScan

(* Mutant: the counter of tenths of a second is not set back.              *)
NeverReset == subcount + 1

NextSubcount == IF subcount = ScanPeriod THEN 1 ELSE subcount + 1

(* The end of readProcessData: what was sampled may be over a limit.       *)
CheckLimits ==
  /\ thread = "sample" /\ sampling = "ready"
  /\ ~ (SolverEnded(tree) /\ ~ solverIsRunning)
  /\ \E usage \in SUBSET (Limits \ {"wall"}) :
       LET over == usage \cup {w \in Limits : w = "wall" /\ elapsed >= WallLimit}
       IN  IF over = {}
           THEN UNCHANGED stopVars
           ELSE StopSolver(over)
  /\ subcount'    = NextSubcount
  /\ firstSecond' = (firstSecond /\ subcount # ScanPeriod)
  /\ Display("decide", "display")
  /\ UNCHANGED <<kernelVars, mainVars, elapsed, grace, handler,
                 solverIsRunning, stopSolverState, announced>>

(* if(stopSolverRequested) ...: nothing to do, the first notice, the wait, *)
(* or the end of the wait.                                                 *)
KeepWatching ==
  /\ thread = "decide" /\ ~ stopSolverRequested
  /\ thread' = "loop"
  /\ UNCHANGED <<kernelVars, treeVars, mainVars, clockVars, stopVars, handler,
                 solverIsRunning, stopSolverState, announced>>

NoticeStop ==
  /\ thread = "decide" /\ stopSolverRequested /\ stopSolverState = 0
  /\ announced' = stopReason
  /\ Display("warn", "notice")
  /\ UNCHANGED <<kernelVars, mainVars, clockVars, stopVars, handler,
                 solverIsRunning, stopSolverState>>

SendSIGTERM ==
  /\ thread = "warn"
  /\ StartSignalling
  /\ thread' = "term"
  /\ UNCHANGED <<kernelVars, mainVars, clockVars, stopVars, handler,
                 solverIsRunning, stopSolverState, announced>>

(* Mutant: the ticks of the delay are not counted.                         *)
WaitWithoutCounting ==
  /\ thread = "decide" /\ stopSolverRequested
  /\ stopSolverState > 0 /\ stopSolverState < DelayTicks
  /\ thread' = "loop"
  /\ UNCHANGED <<kernelVars, treeVars, mainVars, clockVars, stopVars, handler,
                 solverIsRunning, stopSolverState, announced>>

WaitBeforeKill ==
  /\ thread = "decide" /\ stopSolverRequested
  /\ stopSolverState > 0 /\ stopSolverState < DelayTicks
  /\ stopSolverState' = stopSolverState + 1
  /\ thread' = "loop"
  /\ UNCHANGED <<kernelVars, treeVars, mainVars, clockVars, stopVars, handler,
                 solverIsRunning, announced>>

(* Mutant: the delay is one tick short.                                    *)
KillOneTickEarly ==
  /\ thread = "decide" /\ stopSolverRequested
  /\ stopSolverState > 0 /\ stopSolverState + 1 >= DelayTicks
  /\ StartSignalling
  /\ thread' = "kill"
  /\ UNCHANGED <<kernelVars, mainVars, clockVars, stopVars, handler,
                 solverIsRunning, stopSolverState, announced>>

SendSIGKILL ==
  /\ thread = "decide" /\ stopSolverRequested
  /\ stopSolverState > 0 /\ stopSolverState >= DelayTicks
  /\ StartSignalling
  /\ thread' = "kill"
  /\ UNCHANGED <<kernelVars, mainVars, clockVars, stopVars, handler,
                 solverIsRunning, stopSolverState, announced>>

(* Mutant: both rounds send SIGKILL.                                       *)
AlwaysKILL(t) == "KILL"

(* One kill(2) of the current traversal.                                   *)
SignalOf(t) == IF t = "term" THEN "TERM" ELSE "KILL"

SignalProcess(p) ==
  /\ thread \in {"term", "kill", "sweep"}
  /\ SignalStep(p, SignalOf(thread))
  /\ UNCHANGED <<mainVars, clockVars, stopVars, thread, handler,
                 solverIsRunning, stopSolverState, announced>>

(* Mutant: ++stopSolverState only after the SIGKILLs.                      *)
CountOnlyKills ==
  /\ thread \in {"term", "kill"} /\ todo = {}
  /\ stopSolverState' = IF thread = "kill" THEN stopSolverState + 1
                        ELSE stopSolverState
  /\ solverIsRunning' = (solverIsRunning /\ thread = "term")
  /\ thread' = "loop"
  /\ UNCHANGED <<kernelVars, treeVars, mainVars, clockVars, stopVars, handler,
                 announced>>

SignalsSent ==
  /\ thread \in {"term", "kill"} /\ todo = {}
  /\ stopSolverState' = stopSolverState + 1
  /\ solverIsRunning' = (solverIsRunning /\ thread = "term")
  /\ thread' = "loop"
  /\ UNCHANGED <<kernelVars, treeVars, mainVars, clockVars, stopVars, handler,
                 announced>>

(* The scan for a display is complete.                                     *)
Displayed ==
  /\ thread \in {"display", "notice"} /\ sampling = "ready"
  /\ thread' = IF thread = "display" THEN "decide" ELSE "warn"
  /\ UNCHANGED <<kernelVars, treeVars, mainVars, clockVars, stopVars, handler,
                 solverIsRunning, stopSolverState, announced>>

(* After the loop and the last scan: SIGKILL at once for whoever is left.  *)
Sweep ==
  /\ thread = "lastScan" /\ sampling = "ready"
  /\ StartSignalling
  /\ thread' = "sweep"
  /\ UNCHANGED <<kernelVars, mainVars, clockVars, stopVars, handler,
                 solverIsRunning, stopSolverState, announced>>

EndOfThread ==
  /\ thread = "sweep" /\ todo = {}
  /\ thread' = "done"
  /\ UNCHANGED <<kernelVars, treeVars, mainVars, clockVars, stopVars, handler,
                 solverIsRunning, stopSolverState, announced>>

WatcherStep ==
  \/ Tick \/ Sample \/ LeaveLoop \/ CheckLimits
  \/ Displayed \/ KeepWatching
  \/ NoticeStop \/ SendSIGTERM \/ WaitBeforeKill \/ SendSIGKILL
  \/ (\E p \in Pid : SignalProcess(p)) \/ SignalsSent
  \/ Sweep \/ EndOfThread

-----------------------------------------------------------------------------
KernelStep ==
  /\ SolverStep
  /\ UNCHANGED <<treeVars, mainVars, clockVars, stopVars, thread, handler,
                 solverIsRunning, stopSolverState, announced>>

(* runsolver has exited.                                                   *)
Exited == main = "done" /\ handler = "idle" /\ UNCHANGED vars

Next == MainStep \/ HandlerStep \/ WatcherStep \/ KernelStep \/ Exited

Spec == Init /\ [][Next]_vars

(* Both threads are scheduled, a handler that has begun is completed, and  *)
(* the kernel ends a process that received SIGKILL.  Nothing is assumed of *)
(* the solver: it may ignore SIGTERM and never end.                        *)
Fairness ==
  /\ WF_vars(WatcherStep)
  /\ WF_vars(MainStep)
  /\ WF_vars(SecondStore)
  /\ \A p \in Pid : WF_vars(KernelStep /\ Killed(p) /\ Exit(p))

FairSpec == Spec /\ Fairness

-----------------------------------------------------------------------------
(* The fields of the watcher keep their types; a full scan comes at least  *)
(* every ScanPeriod ticks.                                                 *)
TypeOK ==
  /\ KernelTypeOK /\ TreeTypeOK
  /\ main \in {"wait", "join", "done"}
  /\ thread \in {"loop", "sample", "display", "decide", "notice", "warn",
                 "term", "kill", "lastScan", "sweep", "done"}
  /\ handler \in {"idle", "flag", "reason"}
  /\ solverIsRunning \in BOOLEAN
  /\ stopSolverRequested \in BOOLEAN
  /\ stopReason \in LimitKinds \cup {"null", "signal"}
  /\ stopSolverState \in Nat
  /\ elapsed \in 0..WallLimit
  /\ firstSecond \in BOOLEAN
  /\ subcount \in 1..ScanPeriod
  /\ childstatus \in Pid \cup {Runsolver}
  /\ announced \in LimitKinds \cup {"none", "null", "signal"}
  /\ grace \in 0..DelayTicks

(* A full scan misses nobody: when it completes, every process that was    *)
(* alive when it began and still is hangs from a root, although the solver *)
(* forked, exited and was adopted while /proc was being read.              *)
ScanComplete ==
  sampling = "ready" =>
    \A p \in present : Alive(p) => p \in Reached(tree)

(* Nobody is sent SIGKILL unless a stop was requested, the SIGTERMs were   *)
(* sent and the whole delay has passed since; this includes the sweep at   *)
(* the end of the thread, which tests none of it.                          *)
KillAfterGrace ==
  (\E p \in Pid : Killed(p)) =>
    stopSolverRequested /\ stopSolverState >= 1 /\ grace = DelayTicks

(* When waitpid reports that runsolver has no child left, the solver has   *)
(* no process left at all: none escapes by losing its parent.              *)
NobodyLeft == main # "wait" => \A p \in Pid : ~ Exists(p)

(* Whoever outlives the watcher thread without having been sent SIGKILL    *)
(* was forked after the last scan began.                                   *)
SweepComplete ==
  thread = "done" =>
    \A p \in Pid : Alive(p) /\ ~ Killed(p) => p \notin present

(* The watcher thread prints a null pointer as the reason of a stop only   *)
(* if it does so while the signal handler is between its two stores, in    *)
(* this order.                                                             *)
ReasonAnnounced ==
  [][announced' = "null" => announced = "null" \/ handler = "flag"]_vars

(* No process is left when the watcher thread ends, except those that are  *)
(* dying of a SIGKILL.                                                     *)
NoSurvivor == thread = "done" => \A p \in Pid : Alive(p) => Killed(p)

(* The promise of module Supervisor is kept: no process is warned before a *)
(* stop is requested or doomed before the delay after the warning, and the *)
(* main thread goes past waitpid only when every process has ended.        *)
S == INSTANCE Supervisor WITH
       Process <- Pid, First <- Solver, Delay <- DelayTicks,
       live    <- {p \in Pid : Alive(p)},
       warned  <- {p \in Pid : Alive(p) /\ "TERM" \in signals[p]},
       doomed  <- {p \in Pid : Alive(p) /\ Killed(p)},
       asked   <- stopSolverRequested,
       phase   <- IF stopSolverState > 0 THEN "waiting"
                  ELSE IF thread \in {"notice", "warn", "term"} THEN "warning"
                  ELSE "watching",
       waited  <- grace,
       over    <- main # "wait"

(* The supervision implements module Supervisor.                           *)
KeepsPromise == S!Spec

(* Once a stop is requested the watcher thread ends, whatever the solver   *)
(* does.                                                                   *)
StopEnforced == stopSolverRequested ~> thread = "done"

(* With a wall clock limit runsolver ends, unless a process was forked     *)
(* behind the back of the last scan.                                       *)
Termination == <>(main = "done" \/ (thread = "done" /\ ~ NoSurvivor))

=============================================================================
