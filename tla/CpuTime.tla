------------------------------- MODULE CpuTime -------------------------------
(***************************************************************************)
(* The CPU time runsolver attributes to the solver.  A process accumulates *)
(* its own time and the time of the children it waited for (utime+stime    *)
(* and cutime+cstime of /proc/pid/stat); the time of a child runsolver     *)
(* itself waited for is reported by getrusage(RUSAGE_CHILDREN).  The       *)
(* watcher thread adds up the time it read for the processes of the tree   *)
(* (currentCPUTime) and the time the main thread stored for the completed  *)
(* ones (completedCPUTime), and compares the sum with the limit.  The two  *)
(* are taken at different moments and no lock ties them together.          *)
(*                                                                         *)
(* The stop protocol that follows a limit, and when a sample is a full     *)
(* scan, are those of module Watcher; here a sample may be of either kind. *)
(***************************************************************************)
EXTENDS ProcessTree, Functions

CONSTANTS CpuLimit,      \* limitCPUTime, in units of CPU time
          MaxCpu,        \* bound: units of CPU time the solver may use
          IgnoresChild   \* may a solver process ignore SIGCHLD?

ASSUME CpuAssumption == /\ CpuLimit \in Nat \ {0}
                        /\ MaxCpu \in Nat
                        /\ IgnoresChild \in BOOLEAN

VARIABLES own,               \* utime+stime of each process
          waited,            \* its cutime+cstime
          childrenTime,      \* RUSAGE_CHILDREN of runsolver
          discarded,         \* history: the time of the children nobody waited for
          data,              \* what the current sample read of each process
          currentCPUTime,    \* sum over the tree
          completedCPUTime,  \* stored by the main thread
          main,              \* "wait", "reaped" or "ended"
          thread,            \* "loop", "sample" or "sampled"
          stop               \* has the CPU limit asked for a stop?

kernelTimes == <<own, waited, childrenTime, discarded>>
watcherCpuVars == <<data, currentCPUTime, thread, stop>>
mainCpuVars == <<completedCPUTime, main>>
vars == <<kernelVars, treeVars, kernelTimes, watcherCpuVars, mainCpuVars>>

Total == SumFunctionOnSet(own, Pid)

Init ==
  /\ KernelInit /\ TreeInit
  /\ own = [p \in Pid |-> 0] /\ waited = [p \in Pid |-> 0] /\ childrenTime = 0
  /\ discarded = 0
  /\ data = [p \in Pid |-> 0]
  /\ currentCPUTime = 0 /\ completedCPUTime = 0
  /\ main = "wait" /\ thread = "loop" /\ stop = FALSE

-----------------------------------------------------------------------------
(* The kernel and the solver.                                              *)
Compute(p) ==
  /\ Alive(p) /\ Total < MaxCpu
  /\ own' = [own EXCEPT ![p] = @ + 1]
  /\ UNCHANGED <<kernelVars, waited, childrenTime, discarded>>

ForkOrExit ==
  /\ \E p, q \in Pid : Fork(p, q) \/ Exit(p)
  /\ UNCHANGED kernelTimes

WaitForChild(p, c) ==
  /\ Wait(p, c)
  /\ waited' = [waited EXCEPT ![p] = @ + own[c] + waited[c]]
  /\ UNCHANGED <<own, childrenTime, discarded>>

(* The parent ignores SIGCHLD: the kernel reaps the child, and its time is *)
(* credited to nobody.                                                     *)
DiscardChild(p, c) ==
  /\ IgnoresChild
  /\ Wait(p, c)
  /\ discarded' = discarded + own[c] + waited[c]
  /\ UNCHANGED <<own, waited, childrenTime>>

KernelStep ==
  /\ \/ \E p \in Pid : Compute(p)
     \/ ForkOrExit
     \/ \E p, c \in Pid : WaitForChild(p, c) \/ DiscardChild(p, c)
  /\ UNCHANGED <<treeVars, watcherCpuVars, mainCpuVars>>

-----------------------------------------------------------------------------
(* The main thread.                                                        *)
ReapChild(c) ==
  /\ main = "wait"
  /\ Reap(c)
  /\ childrenTime' = childrenTime + own[c] + waited[c]
  /\ main' = "reaped"
  /\ UNCHANGED <<treeVars, own, waited, discarded, watcherCpuVars,
                 completedCPUTime>>

StoreCompleted ==
  /\ main = "reaped"
  /\ completedCPUTime' = childrenTime
  /\ main' = "wait"
  /\ UNCHANGED <<kernelVars, treeVars, kernelTimes, watcherCpuVars>>

NoMoreChildren ==
  /\ main = "wait" /\ NoChild
  /\ main' = "ended"
  /\ UNCHANGED <<kernelVars, treeVars, kernelTimes, watcherCpuVars,
                 completedCPUTime>>

(* Mutant: the last sample is added to the time of the report.             *)
PlusLastSample == childrenTime + currentCPUTime

(* The CPU time of the report: RUSAGE_CHILDREN already contains            *)
(* completedCPUTime.                                                       *)
SolverCPUTime == childrenTime

MainStep == (\E c \in Pid : ReapChild(c)) \/ StoreCompleted \/ NoMoreChildren

-----------------------------------------------------------------------------
(* The watcher thread: readProcessData.                                    *)
BeginSample ==
  /\ thread = "loop" /\ main # "ended" /\ ~ stop
  /\ StartScan \/ StartUpdate
  /\ thread' = "sample"
  /\ UNCHANGED <<kernelVars, kernelTimes, data, currentCPUTime, stop, mainCpuVars>>

(* Reading /proc/pid/stat gives ppid and the times at one moment.          *)
ReadProcess(p) ==
  /\ thread = "sample"
  /\ ScanStep(p) \/ UpdateStep(p)
  /\ data' = [data EXCEPT ![p] = own[p] + waited[p]]
  /\ UNCHANGED <<kernelVars, kernelTimes, currentCPUTime, thread, stop, mainCpuVars>>

LoseProcess(p) ==
  /\ thread = "sample"
  /\ LoseChild(p) \/ LoseRoot(p)
  /\ UNCHANGED <<kernelVars, kernelTimes, watcherCpuVars, mainCpuVars>>

AllRead ==
  /\ thread = "sample"
  /\ SampleComplete
  /\ UNCHANGED <<kernelVars, kernelTimes, watcherCpuVars, mainCpuVars>>

(* Mutant: the sum is over every process read since the start.              *)
SumEveryone ==
  /\ thread = "sample" /\ sampling = "ready"
  /\ currentCPUTime' = SumFunctionOnSet(data, Pid)
  /\ thread' = "sampled"
  /\ UNCHANGED <<kernelVars, treeVars, kernelTimes, data, stop, mainCpuVars>>

(* currentCPUTimeRec: the own and waited-for time of every process the     *)
(* traversal meets.                                                        *)
SumTree ==
  /\ thread = "sample" /\ sampling = "ready"
  /\ currentCPUTime' = SumFunctionOnSet(data, Reached(tree))
  /\ thread' = "sampled"
  /\ UNCHANGED <<kernelVars, treeVars, kernelTimes, data, stop, mainCpuVars>>

CheckCPULimit ==
  /\ thread = "sampled"
  /\ stop' = (stop \/ currentCPUTime + completedCPUTime >= CpuLimit)
  /\ thread' = "loop"
  /\ UNCHANGED <<kernelVars, treeVars, kernelTimes, data, currentCPUTime, mainCpuVars>>

WatcherStep ==
  \/ BeginSample
  \/ \E p \in Pid : ReadProcess(p) \/ LoseProcess(p)
  \/ AllRead \/ SumTree \/ CheckCPULimit

(* Nothing more to observe: every process has ended.                       *)
Ended == main = "ended" /\ thread = "loop" /\ UNCHANGED vars

Next == KernelStep \/ MainStep \/ WatcherStep \/ Ended

Spec == Init /\ [][Next]_vars

-----------------------------------------------------------------------------
(* Adding up a sample never counts a unit of CPU time twice, although a    *)
(* child may end and be waited for by its parent, which then reports its   *)
(* time as well, while the tree is being read.                             *)
TreeNeverOvercounts == currentCPUTime <= Total

(* The CPU time of the report is what all the processes of the solver      *)
(* used, except the children of a process that ignores SIGCHLD: nothing    *)
(* else is lost, nothing is counted twice.                                 *)
ReportExact == main = "ended" => SolverCPUTime + discarded = Total

(* The CPU limit stops a solver only if it used the CPU time it was given. *)
NoEarlyStop == stop => Total >= CpuLimit
=============================================================================
