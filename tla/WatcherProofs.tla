---------------------------- MODULE WatcherProofs ----------------------------
(***************************************************************************)
(* Proofs about module Watcher, for every number of processes and every    *)
(* value of the limits and delays.                                         *)
(***************************************************************************)
EXTENDS Watcher, WellFoundedInduction, TLAPS

-----------------------------------------------------------------------------
(* What the kernel and a sample do, whoever else runs: types.              *)

(* The kernel's steps keep the types of the processes.                     *)
LEMMA KernelType ==
  ASSUME KernelTypeOK, SolverStep \/ \E c \in Pid : Reap(c)
  PROVE  KernelTypeOK'
<1>1. ASSUME NEW p \in Pid, NEW q \in Pid, Fork(p, q)
      PROVE  KernelTypeOK'
  BY <1>1 DEF KernelTypeOK, Fork, Pid
<1>2. ASSUME NEW p \in Pid, NEW c \in Pid, Wait(p, c)
      PROVE  KernelTypeOK'
  BY <1>2 DEF KernelTypeOK, Wait
<1>3. ASSUME NEW p \in Pid, Exit(p)
      PROVE  KernelTypeOK'
  BY <1>3 DEF KernelTypeOK, Exit
<1>4. ASSUME NEW p \in Pid, Recycle(p)
      PROVE  KernelTypeOK'
  BY <1>4 DEF KernelTypeOK, Recycle
<1>5. ASSUME NEW c \in Pid, Reap(c)
      PROVE  KernelTypeOK'
  BY <1>5 DEF KernelTypeOK, Reap
<1>6. QED  BY <1>1, <1>2, <1>3, <1>4, <1>5 DEF SolverStep

(* Beginning a sample keeps the types of the tree.                         *)
LEMMA ScanType ==
  ASSUME TreeTypeOK, StartScan \/ StartUpdate
  PROVE  TreeTypeOK'
BY DEF TreeTypeOK, StartScan, StartUpdate, Clone, Roots

(* So does each step of a sample.                                          *)
LEMMA SampleType ==
  ASSUME KernelTypeOK, TreeTypeOK, SampleStep
  PROVE  TreeTypeOK'
<1>1. ASSUME NEW p \in Pid, ScanStep(p)
      PROVE  TreeTypeOK'
  BY <1>1 DEF TreeTypeOK, KernelTypeOK, ScanStep, PPid
<1>2. ASSUME NEW p \in Pid, UpdateStep(p)
      PROVE  TreeTypeOK'
  BY <1>2 DEF TreeTypeOK, UpdateStep, Children
<1>3. ASSUME NEW p \in Pid, LoseChild(p)
      PROVE  TreeTypeOK'
  BY <1>3 DEF TreeTypeOK, LoseChild
<1>4. ASSUME NEW p \in Pid, LoseRoot(p)
      PROVE  TreeTypeOK'
  BY <1>4, ScanType DEF LoseRoot
<1>5. CASE SampleComplete
  BY <1>5 DEF TreeTypeOK, SampleComplete
<1>6. QED  BY <1>1, <1>2, <1>3, <1>4, <1>5 DEF SampleStep

LEMMA SignalType ==
  ASSUME KernelTypeOK, TreeTypeOK,
         \/ StartSignalling /\ UNCHANGED kernelVars
         \/ \E p \in Pid, sig \in {"TERM", "KILL"} : SignalStep(p, sig)
  PROVE  KernelTypeOK' /\ TreeTypeOK'
<1>1. CASE StartSignalling /\ UNCHANGED kernelVars
  BY <1>1 DEF StartSignalling, kernelVars, KernelTypeOK, TreeTypeOK,
     SignalledBy, Reached
<1>2. ASSUME NEW p \in Pid, NEW sig \in {"TERM", "KILL"}, SignalStep(p, sig)
      PROVE  KernelTypeOK' /\ TreeTypeOK'
  BY <1>2 DEF SignalStep, Kill, KernelTypeOK, TreeTypeOK
<1>3. QED  BY <1>1, <1>2

-----------------------------------------------------------------------------
(* The shape of the forest.  No order of process ids is needed: that the   *)
(* parent relation has no cycle is stated with sets.                       *)

(* The parent of an existing process is runsolver or a process that runs.  *)
ParentRuns ==
  \A p \in Pid : Exists(p) => parent[p] = Runsolver \/ Alive(parent[p])

(* Every nonempty set of existing processes has a member whose parent is   *)
(* outside the set.                                                        *)
Acyclic ==
  \A T \in SUBSET Pid :
    T # {} /\ (\A p \in T : Exists(p)) => \E p \in T : parent[p] \notin T

Forest == ParentRuns /\ Acyclic

LEMMA ForestFork ==
  ASSUME KernelTypeOK, Forest, NEW p \in Pid, NEW q \in Pid, Fork(p, q)
  PROVE  Forest'
<1> USE DEF KernelTypeOK, Exists, Alive, Runsolver, Pid
<1>1. state[q] = "free" /\ p # q /\ parent'[q] = p
  BY DEF Fork, NextPid
<1>2. \A r \in Pid : r # q => state'[r] = state[r] /\ parent'[r] = parent[r]
  BY DEF Fork
<1>3. state'[q] = "alive" /\ state[p] = "alive"
  BY DEF Fork
<1>4. ParentRuns'
  BY <1>1, <1>2, <1>3 DEF Forest, ParentRuns
<1>5. ASSUME NEW T \in SUBSET Pid, T # {}, \A r \in T : Exists(r)'
      PROVE  \E r \in T : parent'[r] \notin T
  <2>1. CASE q \notin T
    BY <1>2, <1>5, <2>1 DEF Forest, Acyclic
  <2>2. CASE q \in T /\ p \notin T
    BY <1>1, <2>2
  <2>3. CASE q \in T /\ p \in T
    <3>1. PICK r \in T \ {q} : parent[r] \notin T \ {q}
      <4>1. T \ {q} \in SUBSET Pid /\ p \in T \ {q}
        BY <1>1, <2>3
      <4>2. \A r \in T \ {q} : Exists(r)
        BY <1>2, <1>5
      <4>3. QED  BY <4>1, <4>2 DEF Forest, Acyclic
    <3>2. parent[r] # q
      BY <1>1, <1>2, <1>5 DEF Forest, ParentRuns
    <3>3. QED  BY <1>2, <3>1, <3>2
  <2>4. QED  BY <2>1, <2>2, <2>3
<1>6. QED  BY <1>4, <1>5 DEF Forest, Acyclic

LEMMA ForestExit ==
  ASSUME KernelTypeOK, Forest, NEW p \in Pid, Exit(p)
  PROVE  Forest'
<1> USE DEF KernelTypeOK, Exists, Alive, Runsolver, Pid
<1>1. \A r \in Pid : Exists(r)' <=> Exists(r)
  BY DEF Exit
<1>2. \A r \in Pid : parent'[r] = Runsolver \/ (parent'[r] = parent[r] /\ (Exists(r) => parent[r] # p))
  BY DEF Exit
<1>3. ParentRuns'
  BY <1>1, <1>2 DEF Exit, Forest, ParentRuns
<1>4. ASSUME NEW T \in SUBSET Pid, T # {}, \A r \in T : Exists(r)'
      PROVE  \E r \in T : parent'[r] \notin T
  <2>1. PICK r \in T : parent[r] \notin T
    BY <1>1, <1>4 DEF Forest, Acyclic
  <2>2. QED  BY <1>2, <2>1
<1>5. QED  BY <1>3, <1>4 DEF Forest, Acyclic

(* A process that only a Wait or a Reap made disappear was a zombie: it    *)
(* was nobody's parent.                                                    *)
LEMMA ForestGone ==
  ASSUME KernelTypeOK, Forest, NEW c \in Pid, state[c] = "zombie",
         state' = [state EXCEPT ![c] = "gone"], parent' = parent
  PROVE  Forest'
<1> USE DEF KernelTypeOK, Exists, Alive, Runsolver, Pid
<1>1. \A r \in Pid : Exists(r)' => Exists(r)
  OBVIOUS
<1>2. \A r \in Pid : Alive(r) <=> Alive(r)'
  OBVIOUS
<1>3. ParentRuns'
  BY <1>1, <1>2 DEF Forest, ParentRuns
<1>4. Acyclic'
  BY <1>1 DEF Forest, Acyclic
<1>5. QED  BY <1>3, <1>4 DEF Forest

LEMMA ForestStep ==
  ASSUME KernelTypeOK, Forest,
         SolverStep \/ (\E c \in Pid : Reap(c)) \/ (UNCHANGED <<state, parent>>)
  PROVE  Forest'
<1>1. ASSUME NEW p \in Pid, NEW c \in Pid, Wait(p, c)
      PROVE  Forest'
  BY <1>1, ForestGone DEF Wait
<1>2. ASSUME NEW c \in Pid, Reap(c)
      PROVE  Forest'
  BY <1>2, ForestGone DEF Reap
<1>3. ASSUME NEW p \in Pid, Recycle(p)
      PROVE  Forest'
  <2> USE DEF KernelTypeOK, Exists, Alive
  <2>1. \A r \in Pid : Exists(r)' <=> Exists(r)
    BY <1>3 DEF Recycle
  <2>2. \A r \in Pid : Alive(r) <=> Alive(r)'
    BY <1>3 DEF Recycle
  <2>3. ParentRuns'
    BY <1>3, <2>1, <2>2 DEF Forest, ParentRuns, Recycle
  <2>4. Acyclic'
    BY <1>3, <2>1 DEF Forest, Acyclic, Recycle
  <2>5. QED  BY <2>3, <2>4 DEF Forest
<1>4. CASE UNCHANGED <<state, parent>>
  BY <1>4 DEF Forest, ParentRuns, Acyclic, Exists, Alive
<1>5. QED
  BY <1>1, <1>2, <1>3, <1>4, ForestFork, ForestExit DEF SolverStep

(* A forest with a process has a child of runsolver: ECHILD means that     *)
(* nobody is left.                                                         *)
LEMMA NoChildNobody ==
  ASSUME KernelTypeOK, Forest, NoChild
  PROVE  \A p \in Pid : ~ Exists(p)
<1> DEFINE E == {p \in Pid : Exists(p)}
<1> SUFFICES ASSUME E # {} PROVE FALSE
  OBVIOUS
<1>1. PICK p \in E : parent[p] \notin E
  BY DEF Forest, Acyclic
<1>2. parent[p] = Runsolver
  BY <1>1 DEF Forest, ParentRuns, Exists, Alive, KernelTypeOK
<1>3. QED  BY <1>1, <1>2 DEF NoChild, IsChild

-----------------------------------------------------------------------------
(* Pids that do not wrap around.                                           *)

(* A process is older than its children, and no id is used again.          *)
Ordered ==
  \A p \in Pid : /\ state[p] # "foreign"
                 /\ Exists(p) => parent[p] < p

LEMMA OrderedStep ==
  ASSUME ~ PidsWrap, KernelTypeOK, Ordered,
         SolverStep \/ (\E c \in Pid : Reap(c)) \/ (UNCHANGED <<state, parent>>)
  PROVE  Ordered'
<1> USE DEF KernelTypeOK, Ordered, Exists, Alive
<1>1. ASSUME NEW p \in Pid, NEW q \in Pid, Fork(p, q)
      PROVE  Ordered'
  BY <1>1 DEF Fork, NextPid, Pid
<1>2. ASSUME NEW p \in Pid, Exit(p)
      PROVE  Ordered'
  BY <1>2 DEF Exit, Pid, Runsolver
<1>3. ASSUME NEW p \in Pid, NEW c \in Pid, Wait(p, c) \/ Recycle(c) \/ Reap(c)
      PROVE  Ordered'
  BY <1>3 DEF Wait, Recycle, Reap, IsChild
<1>4. CASE UNCHANGED <<state, parent>>
  BY <1>4
<1>5. QED  BY <1>1, <1>2, <1>3, <1>4 DEF SolverStep

-----------------------------------------------------------------------------
(* Type correctness.                                                       *)

(* Every action keeps the types.                                           *)
LEMMA TypeStep ==
  ASSUME TypeOK, [Next]_vars
  PROVE  TypeOK'
<1> USE WatcherAssumption, KernelAssumption
<1> USE DEF TypeOK, mainVars, clockVars, stopVars
<1>1. CASE UNCHANGED vars
  BY <1>1 DEF vars, KernelTypeOK, TreeTypeOK, kernelVars, treeVars
<1>2. CASE MainStep
  <2>1. ASSUME NEW c \in Pid, ReapChild(c)
        PROVE  TypeOK'
    <3>1. KernelTypeOK'
      BY <2>1, KernelType DEF ReapChild
    <3>2. QED  BY <2>1, <3>1 DEF ReapChild, TreeTypeOK, treeVars
  <2>2. CASE NoMoreChildren
    <3>1. solverIsRunning' \in BOOLEAN
      BY <2>2 DEF NoMoreChildren
    <3>2. KernelTypeOK' /\ TreeTypeOK'
      BY <2>2 DEF NoMoreChildren, KernelTypeOK, TreeTypeOK, kernelVars, treeVars
    <3>3. QED  BY <2>2, <3>1, <3>2 DEF NoMoreChildren
  <2>3. CASE Join
    BY <2>3 DEF Join, KernelTypeOK, TreeTypeOK, kernelVars, treeVars
  <2>4. QED  BY <1>2, <2>1, <2>2, <2>3 DEF MainStep
<1>3. CASE HandlerStep
  <2>1. KernelTypeOK' /\ TreeTypeOK'
    BY <1>3 DEF HandlerStep, FlagFirst, ReasonFirst, SecondStore, HandlerUnchanged,
                KernelTypeOK, TreeTypeOK, kernelVars, treeVars
  <2>2. stopSolverRequested' \in BOOLEAN
    BY <1>3 DEF HandlerStep, FlagFirst, ReasonFirst, SecondStore
  <2>3. stopReason' \in {stopReason, "signal"} /\ handler' \in {"idle", "flag", "reason"}
    BY <1>3 DEF HandlerStep, FlagFirst, ReasonFirst, SecondStore
  <2>4. HandlerUnchanged
    BY <1>3 DEF HandlerStep, FlagFirst, ReasonFirst, SecondStore
  <2>5. QED  BY <2>1, <2>2, <2>3, <2>4 DEF HandlerUnchanged
<1>4. CASE KernelStep
  <2>1. KernelTypeOK'
    BY <1>4, KernelType DEF KernelStep
  <2>2. QED  BY <1>4, <2>1 DEF KernelStep, TreeTypeOK, treeVars
<1>5. CASE Tick
  <2>1. TreeTypeOK'
    BY <1>5, ScanType DEF Tick
  <2>2. elapsed' \in 0..WallLimit /\ grace' \in 0..DelayTicks
    BY <1>5 DEF Tick
  <2>3. QED  BY <1>5, <2>1, <2>2 DEF Tick, KernelTypeOK, kernelVars
<1>6. CASE Sample
  <2>1. TreeTypeOK'
    BY <1>6, SampleType DEF Sample
  <2>2. QED  BY <1>6, <2>1 DEF Sample, KernelTypeOK, kernelVars
<1>7. CASE LeaveLoop
  <2>1. TreeTypeOK'
    BY <1>7, ScanType DEF LeaveLoop
  <2>2. QED  BY <1>7, <2>1 DEF LeaveLoop, KernelTypeOK, kernelVars
<1>8. CASE CheckLimits
  <2>1. TreeTypeOK'
    BY <1>8, ScanType DEF CheckLimits, StopSolver, Display, TreeTypeOK, treeVars
  <2>2. stopSolverRequested' \in BOOLEAN
        /\ stopReason' \in LimitKinds \cup {"null", "signal"}
    BY <1>8 DEF CheckLimits, StopSolver
  <2>5. subcount' \in 1..ScanPeriod
    BY <1>8 DEF CheckLimits, StopSolver, NextSubcount
  <2>6. firstSecond' \in BOOLEAN
    BY <1>8 DEF CheckLimits, StopSolver
  <2>7. thread' \in {"decide", "display"}
    BY <1>8 DEF CheckLimits, StopSolver, Display
  <2>8. QED  BY <1>8, <2>1, <2>2, <2>5, <2>6, <2>7
             DEF CheckLimits, StopSolver, KernelTypeOK, kernelVars
<1>9. CASE Displayed \/ KeepWatching \/ WaitBeforeKill \/ SignalsSent \/ EndOfThread
  <2>1. KernelTypeOK' /\ TreeTypeOK'
    BY <1>9 DEF Displayed, KeepWatching, WaitBeforeKill, SignalsSent, EndOfThread,
                KernelTypeOK, TreeTypeOK, kernelVars, treeVars
  <2>2. CASE Displayed \/ KeepWatching
    BY <2>1, <2>2 DEF Displayed, KeepWatching
  <2>3. CASE WaitBeforeKill \/ EndOfThread
    BY <2>1, <2>3 DEF WaitBeforeKill, EndOfThread
  <2>4. CASE SignalsSent
    <3>1. solverIsRunning' \in BOOLEAN
      BY <2>4 DEF SignalsSent
    <3>2. QED  BY <2>1, <2>4, <3>1 DEF SignalsSent
  <2>5. QED  BY <1>9, <2>2, <2>3, <2>4
<1>10. CASE NoticeStop
  <2>1. TreeTypeOK'
    BY <1>10, ScanType DEF NoticeStop, Display, TreeTypeOK, treeVars
  <2>2. thread' \in {"warn", "notice"}
    BY <1>10 DEF NoticeStop, Display
  <2>3. QED  BY <1>10, <2>1, <2>2 DEF NoticeStop, KernelTypeOK, kernelVars
<1>11. CASE SendSIGTERM \/ SendSIGKILL \/ Sweep
  <2>1. KernelTypeOK' /\ TreeTypeOK'
    BY <1>11, SignalType DEF SendSIGTERM, SendSIGKILL, Sweep
  <2>2. QED  BY <1>11, <2>1 DEF SendSIGTERM, SendSIGKILL, Sweep
<1>12. ASSUME NEW p \in Pid, SignalProcess(p)
       PROVE  TypeOK'
  <2>1. KernelTypeOK' /\ TreeTypeOK'
    BY <1>12, SignalType DEF SignalProcess, SignalOf
  <2>2. QED  BY <1>12, <2>1 DEF SignalProcess
<1>13. QED
  BY <1>1, <1>2, <1>3, <1>4, <1>5, <1>6, <1>7, <1>8, <1>9, <1>10, <1>11, <1>12
  DEF Next, WatcherStep, Exited

LEMMA TypeInit == Init => TypeOK
<1> SUFFICES ASSUME Init PROVE TypeOK
  OBVIOUS
<1>1. KernelTypeOK /\ TreeTypeOK
  BY DEF Init, KernelInit, TreeInit, KernelTypeOK, TreeTypeOK
<1>2. elapsed \in 0..WallLimit /\ subcount \in 1..ScanPeriod /\ grace \in 0..DelayTicks
  BY WatcherAssumption DEF Init
<1>3. QED  BY <1>1, <1>2 DEF Init, TypeOK

(* Every variable of the supervision keeps its type, for any number of     *)
(* processes and any limits and delays.                                    *)
THEOREM TypeCorrect == Spec => []TypeOK
<1>1. TypeOK /\ [Next]_vars => TypeOK'
  BY TypeStep
<1>2. QED  BY <1>1, TypeInit, PTL DEF Spec

-----------------------------------------------------------------------------
(* Runsolver changes the forest only by reaping.                           *)
LEMMA ForestFrame ==
  ASSUME [Next]_vars
  PROVE  SolverStep \/ (\E c \in Pid : Reap(c)) \/ (UNCHANGED <<state, parent>>)
<1> USE DEF kernelVars
<1>1. CASE MainStep
  BY <1>1 DEF MainStep, ReapChild, NoMoreChildren, Join
<1>2. CASE HandlerStep
  BY <1>2 DEF HandlerStep, FlagFirst, ReasonFirst, SecondStore, HandlerUnchanged
<1>3. CASE WatcherStep
  BY <1>3 DEF WatcherStep, Tick, Sample, LeaveLoop, CheckLimits, StopSolver, Displayed,
       KeepWatching, NoticeStop, SendSIGTERM, WaitBeforeKill, SendSIGKILL,
       SignalProcess, SignalStep, Kill, SignalsSent, Sweep, EndOfThread
<1>4. CASE KernelStep
  BY <1>4 DEF KernelStep
<1>5. CASE UNCHANGED vars
  BY <1>5 DEF vars
<1>6. QED  BY <1>1, <1>2, <1>3, <1>4, <1>5 DEF Next, Exited

(* Only NoMoreChildren makes the main thread leave the loop of waitpid.    *)
LEMMA MainFrame ==
  ASSUME [Next]_vars, main = "wait", main' # "wait"
  PROVE  NoMoreChildren
<1> USE DEF mainVars
<1>1. CASE MainStep
  BY <1>1 DEF MainStep, ReapChild, Join
<1>2. CASE HandlerStep
  BY <1>2 DEF HandlerStep, FlagFirst, ReasonFirst, SecondStore, HandlerUnchanged
<1>3. CASE WatcherStep
  BY <1>3 DEF WatcherStep, Tick, Sample, LeaveLoop, CheckLimits, StopSolver, Displayed,
       KeepWatching, NoticeStop, SendSIGTERM, WaitBeforeKill, SendSIGKILL,
       SignalProcess, SignalStep, Kill, SignalsSent, Sweep, EndOfThread
<1>4. CASE KernelStep
  BY <1>4 DEF KernelStep
<1>5. CASE UNCHANGED vars
  BY <1>5 DEF vars
<1>6. QED  BY <1>1, <1>2, <1>3, <1>4, <1>5 DEF Next, Exited

(* Who does not exist does not come back.                                  *)
LEMMA NobodyStays ==
  ASSUME KernelTypeOK, \A p \in Pid : ~ Exists(p),
         SolverStep \/ (\E c \in Pid : Reap(c)) \/ (UNCHANGED <<state, parent>>)
  PROVE  \A p \in Pid : ~ Exists(p)'
BY DEF KernelTypeOK, SolverStep, Fork, Exit, Wait, Recycle, Reap, Exists, Alive, IsChild

LEMMA ForestInit == Init => Forest /\ NobodyLeft
<1> SUFFICES ASSUME Init PROVE Forest /\ NobodyLeft
  OBVIOUS
<1> USE KernelAssumption DEF Init, KernelInit, Exists, Alive, Pid, Runsolver
<1>1. ParentRuns
  BY DEF ParentRuns
<1>2. ASSUME NEW T \in SUBSET Pid, T # {}
      PROVE  \E p \in T : parent[p] \notin T
  <2>1. PICK p \in T : TRUE
    BY <1>2
  <2>2. parent[p] \notin T
    BY <2>1
  <2>3. QED  BY <2>2
<1>3. NobodyLeft
  BY DEF NobodyLeft
<1>4. QED  BY <1>1, <1>2, <1>3 DEF Forest, Acyclic

LEMMA NobodyLeftStep ==
  ASSUME TypeOK, Forest, NobodyLeft, [Next]_vars
  PROVE  Forest' /\ NobodyLeft'
<1>1. KernelTypeOK
  BY DEF TypeOK
<1>2. Forest'
  BY <1>1, ForestFrame, ForestStep
<1>3. CASE main # "wait"
  BY <1>1, <1>2, <1>3, ForestFrame, NobodyStays DEF NobodyLeft, Exists
<1>4. CASE main = "wait" /\ main' # "wait"
  <2>1. NoMoreChildren
    BY <1>4, MainFrame
  <2>2. \A p \in Pid : ~ Exists(p)
    BY <1>1, <2>1, NoChildNobody DEF NoMoreChildren
  <2>3. QED  BY <1>2, <2>1, <2>2 DEF NoMoreChildren, NobodyLeft, kernelVars, Exists
<1>5. CASE main' = "wait"
  BY <1>2, <1>5 DEF NobodyLeft
<1>6. QED  BY <1>3, <1>4, <1>5

(* When waitpid reports that runsolver has no child left, the solver has   *)
(* no process left, whatever its processes forked and in whatever order    *)
(* they ended.                                                             *)
THEOREM NobodyIsLeft == Spec => []NobodyLeft
<1> DEFINE IInv == TypeOK /\ Forest /\ NobodyLeft
<1>1. Init => IInv
  BY ForestInit, TypeInit
<1>2. IInv /\ [Next]_vars => IInv'
  BY TypeStep, NobodyLeftStep
<1>3. QED  BY <1>1, <1>2, PTL DEF Spec

-----------------------------------------------------------------------------
(* SIGKILL only after the delay.  The sweep at the end of the watcher      *)
(* thread tests nothing: either the stop protocol has run to its end, or   *)
(* the main thread has seen ECHILD, and then the last scan finds nobody.   *)

(* A stop was requested, the SIGTERMs were sent, the delay has passed.     *)
Due == stopSolverRequested /\ stopSolverState >= 1 /\ grace = DelayTicks

(* How far the protocol is, seen from each point of the loop.              *)
ProtocolInv ==
  /\ stopSolverState > 0 => stopSolverRequested
  /\ thread \in {"notice", "warn", "term"} =>
       stopSolverRequested /\ stopSolverState = 0
  /\ thread \in {"sample", "display", "decide"} /\ stopSolverState > 0 =>
       grace >= stopSolverState \/ grace = DelayTicks
  /\ thread = "loop" /\ stopSolverState > 0 =>
       grace >= stopSolverState - 1 \/ grace = DelayTicks
  /\ thread = "kill" => Due

(* Why the loop was left, and what that says of the last scan.             *)
LeftInv ==
  /\ ~ solverIsRunning => main # "wait" \/ Due
  /\ thread \in {"lastScan", "sweep", "done"} => ~ solverIsRunning
  /\ thread \in {"lastScan", "sweep"} /\ ~ Due => Roots(tree) = {}
  /\ thread = "sweep" /\ ~ Due => todo = {}

GraceInv == ProtocolInv /\ LeftInv /\ KillAfterGrace

(* What is due stays due.                                                  *)
LEMMA DueStays ==
  ASSUME TypeOK, Due, [Next]_vars
  PROVE  Due'
<1> USE WatcherAssumption DEF Due, TypeOK, mainVars, clockVars, stopVars
<1>1. CASE MainStep
  BY <1>1 DEF MainStep, ReapChild, NoMoreChildren, Join
<1>2. CASE HandlerStep
  BY <1>2 DEF HandlerStep, FlagFirst, ReasonFirst, SecondStore, HandlerUnchanged
<1>3. CASE WatcherStep
  <2>1. CASE Tick
    <3>1. grace' = grace
      BY <2>1 DEF Tick
    <3>2. UNCHANGED <<stopSolverRequested, stopSolverState>>
      BY <2>1 DEF Tick
    <3>3. QED  BY <3>1, <3>2
  <2>8. CASE WaitBeforeKill
    <3>1. stopSolverState' >= 1
      BY <2>8 DEF WaitBeforeKill
    <3>2. UNCHANGED <<stopSolverRequested, grace>>
      BY <2>8 DEF WaitBeforeKill
    <3>3. QED  BY <3>1, <3>2
  <2>7. CASE SignalsSent
    <3>1. stopSolverState' >= 1
      BY <2>7 DEF SignalsSent
    <3>2. stopSolverRequested' /\ grace' = grace
      BY <2>7 DEF SignalsSent
    <3>3. QED  BY <3>1, <3>2
  <2>2. CASE CheckLimits
    BY <2>2 DEF CheckLimits, StopSolver
  <2>3. CASE Sample \/ LeaveLoop \/ Displayed \/ KeepWatching
    BY <2>3 DEF Sample, LeaveLoop, Displayed, KeepWatching
  <2>4. CASE NoticeStop \/ SendSIGTERM \/ SendSIGKILL \/ Sweep \/ EndOfThread
    BY <2>4 DEF NoticeStop, SendSIGTERM, SendSIGKILL, Sweep, EndOfThread
  <2>5. ASSUME NEW p \in Pid, SignalProcess(p)
        PROVE  Due'
    BY <2>5 DEF SignalProcess
  <2>6. QED  BY <1>3, <2>1, <2>2, <2>3, <2>4, <2>5, <2>7, <2>8 DEF WatcherStep
<1>4. CASE KernelStep
  BY <1>4 DEF KernelStep
<1>5. CASE UNCHANGED vars
  BY <1>5 DEF vars
<1>6. QED  BY <1>1, <1>2, <1>3, <1>4, <1>5 DEF Next, Exited

(* A traversal of a tree without roots meets nobody.                       *)
LEMMA NoRootsNobody ==
  ASSUME NEW t, Roots(t) = {}
  PROVE  Reached(t) = {}
<1>1. TraversalClosed(t, {})
  BY DEF TraversalClosed, Roots
<1>2. QED  BY <1>1 DEF Reached

LEMMA ProtocolStep ==
  ASSUME TypeOK, ProtocolInv, [Next]_vars
  PROVE  ProtocolInv'
<1> USE WatcherAssumption
<1> USE DEF ProtocolInv, Due, TypeOK, mainVars, clockVars, stopVars
<1>1. CASE MainStep
  BY <1>1 DEF MainStep, ReapChild, NoMoreChildren, Join
<1>2. CASE HandlerStep
  BY <1>2 DEF HandlerStep, FlagFirst, ReasonFirst, SecondStore, HandlerUnchanged
<1>3. CASE Tick
  BY <1>3 DEF Tick
<1>4. CASE Sample \/ Displayed \/ KeepWatching \/ Sweep \/ EndOfThread
  BY <1>4 DEF Sample, Displayed, KeepWatching, Sweep, EndOfThread
<1>5. CASE LeaveLoop
  BY <1>5 DEF LeaveLoop
<1>6. CASE CheckLimits
  BY <1>6 DEF CheckLimits, StopSolver, Display
<1>7. CASE NoticeStop
  BY <1>7 DEF NoticeStop, Display
<1>8. CASE SendSIGTERM \/ SendSIGKILL
  BY <1>8 DEF SendSIGTERM, SendSIGKILL
<1>9. CASE WaitBeforeKill
  BY <1>9 DEF WaitBeforeKill
<1>10. ASSUME NEW p \in Pid, SignalProcess(p)
       PROVE  ProtocolInv'
  BY <1>10 DEF SignalProcess
<1>11. CASE SignalsSent
  BY <1>11 DEF SignalsSent
<1>12. CASE KernelStep
  BY <1>12 DEF KernelStep
<1>13. CASE UNCHANGED vars
  BY <1>13 DEF vars
<1>14. QED
  BY <1>1, <1>2, <1>3, <1>4, <1>5, <1>6, <1>7, <1>8, <1>9, <1>10, <1>11, <1>12, <1>13
  DEF Next, WatcherStep, Exited

LEMMA LeftStep ==
  ASSUME TypeOK, NobodyLeft, NobodyLeft', ProtocolInv, LeftInv, [Next]_vars
  PROVE  LeftInv'
<1>1. Due => Due'
  BY DueStays
<1>2. main # "wait" => main' # "wait"
  <2> USE DEF mainVars, vars
  <2>1. CASE MainStep
    BY <2>1 DEF MainStep, ReapChild, NoMoreChildren, Join
  <2>2. CASE WatcherStep
    BY <2>2 DEF WatcherStep, Tick, Sample, LeaveLoop, CheckLimits, StopSolver, Displayed,
         KeepWatching, NoticeStop, SendSIGTERM, WaitBeforeKill, SendSIGKILL,
         SignalProcess, SignalsSent, Sweep, EndOfThread
  <2>3. QED
    BY <2>1, <2>2 DEF Next, HandlerStep, FlagFirst, ReasonFirst, SecondStore,
       HandlerUnchanged, KernelStep, Exited
<1> USE DEF LeftInv, mainVars, clockVars, stopVars
<1>3. CASE MainStep
  BY <1>1, <1>2, <1>3 DEF MainStep, ReapChild, NoMoreChildren, Join, treeVars, Roots
<1>4. CASE HandlerStep
  BY <1>1, <1>2, <1>4 DEF HandlerStep, FlagFirst, ReasonFirst, SecondStore,
     HandlerUnchanged, treeVars, Roots
<1>5. CASE KernelStep \/ UNCHANGED vars
  BY <1>1, <1>2, <1>5 DEF KernelStep, vars, treeVars, Roots
<1>6. CASE Tick
  BY <1>1, <1>2, <1>6 DEF Tick
<1>7. CASE Sample
  <2>1. SolverEnded(tree) /\ thread = "lastScan" /\ ~ Due => Roots(tree') = {}
    <3> SUFFICES ASSUME Roots(tree) = {}, thread = "lastScan", ~ Due
                 PROVE  Roots(tree') = {}
      BY DEF SolverEnded
    <3>1. \A p \in Pid : ~ Exists(p)
      BY DEF NobodyLeft
    <3>2. \A p \in Pid : tree[p] # Runsolver
      BY DEF Roots
    <3> USE DEF TypeOK, TreeTypeOK, KernelTypeOK
    <3>3. ASSUME NEW p \in Pid, ScanStep(p)
          PROVE  \A r \in Pid : tree'[r] # Runsolver
      BY <3>1, <3>2, <3>3 DEF ScanStep, Readable, PPid, Exists, Runsolver, Somebody, NoData
    <3>4. ASSUME NEW p \in Pid, UpdateStep(p) \/ LoseChild(p) \/ LoseRoot(p)
          PROVE  \A r \in Pid : tree'[r] # Runsolver
      BY <3>2, <3>4 DEF UpdateStep, LoseChild, LoseRoot, StartScan, Runsolver, NoData
    <3>5. CASE SampleComplete
      BY <3>2, <3>5 DEF SampleComplete
    <3>6. QED  BY <1>7, <3>2, <3>3, <3>4, <3>5 DEF Sample, SampleStep, Roots
  <2>2. QED  BY <1>1, <1>2, <1>7, <2>1 DEF Sample, SolverEnded
<1>8. CASE LeaveLoop
  <2>1. Roots(tree') = {}
    BY <1>8 DEF LeaveLoop, StartScan, Roots, NoData, Runsolver
  <2>2. QED  BY <1>1, <1>2, <1>8, <2>1 DEF LeaveLoop
<1>9. CASE CheckLimits
  BY <1>1, <1>2, <1>9 DEF CheckLimits, StopSolver, Display
<1>10. CASE NoticeStop
  BY <1>1, <1>2, <1>10 DEF NoticeStop, Display
<1>11. CASE Displayed \/ KeepWatching \/ WaitBeforeKill \/ SendSIGTERM \/ SendSIGKILL
  BY <1>1, <1>2, <1>11
  DEF Displayed, KeepWatching, WaitBeforeKill, SendSIGTERM, SendSIGKILL
<1>12. ASSUME NEW p \in Pid, SignalProcess(p)
       PROVE  LeftInv'
  BY <1>1, <1>2, <1>12 DEF SignalProcess, SignalStep, Roots
<1>13. CASE SignalsSent
  BY <1>1, <1>2, <1>13 DEF SignalsSent, ProtocolInv
<1>14. CASE Sweep
  BY <1>1, <1>2, <1>14, NoRootsNobody DEF Sweep, StartSignalling, SignalledBy, Roots
<1>15. CASE EndOfThread
  BY <1>1, <1>2, <1>15 DEF EndOfThread
<1>16. QED
  BY <1>3, <1>4, <1>5, <1>6, <1>7, <1>8, <1>9, <1>10, <1>11, <1>12, <1>13, <1>14, <1>15
  DEF Next, WatcherStep, Exited

LEMMA GraceStep ==
  ASSUME TypeOK, ProtocolInv, LeftInv, KillAfterGrace, [Next]_vars
  PROVE  KillAfterGrace'
<1>1. SUFFICES ASSUME NEW p \in Pid, Killed(p)'
               PROVE  Due'
  BY DEF KillAfterGrace, Due
<1>2. CASE Killed(p)
  BY <1>2, DueStays DEF KillAfterGrace, Due
<1>3. CASE ~ Killed(p)
  <2> USE <1>1, <1>3 DEF Killed, kernelVars
  <2> USE DEF TypeOK, KernelTypeOK
  <2>1. CASE MainStep
    BY <2>1 DEF MainStep, ReapChild, Reap, NoMoreChildren, Join
  <2>2. CASE HandlerStep
    BY <2>2 DEF HandlerStep, FlagFirst, ReasonFirst, SecondStore, HandlerUnchanged
  <2>3. CASE KernelStep
    BY <2>3 DEF KernelStep, SolverStep, Fork, Exit, Wait, Recycle
  <2>4. CASE UNCHANGED vars
    BY <2>4 DEF vars
  <2>5. ASSUME NEW q \in Pid, SignalProcess(q)
        PROVE  Due'
    <3>1. thread \in {"kill", "sweep"} /\ todo # {}
      BY <2>5 DEF SignalProcess, SignalStep, SignalOf, Kill
    <3>2. Due
      BY <3>1 DEF ProtocolInv, LeftInv
    <3>3. QED  BY <3>2, DueStays
  <2>6. CASE WatcherStep /\ ~ \E q \in Pid : SignalProcess(q)
    BY <2>6 DEF WatcherStep, Tick, Sample, LeaveLoop, CheckLimits, StopSolver, Displayed,
       KeepWatching, NoticeStop, SendSIGTERM, WaitBeforeKill, SendSIGKILL,
       SignalsSent, Sweep, EndOfThread
  <2>7. QED  BY <2>1, <2>2, <2>3, <2>4, <2>5, <2>6 DEF Next, Exited
<1>4. QED  BY <1>2, <1>3

LEMMA GraceInit == Init => GraceInv
<1> SUFFICES ASSUME Init PROVE GraceInv
  OBVIOUS
<1>1. ProtocolInv /\ LeftInv
  BY DEF Init, ProtocolInv, LeftInv
<1>2. KillAfterGrace
  BY DEF Init, KernelInit, KillAfterGrace, Killed
<1>3. QED  BY <1>1, <1>2 DEF GraceInv

(* No process is sent SIGKILL before a stop was requested, the SIGTERMs    *)
(* were sent and the whole delay has passed, by whichever of the two       *)
(* places that send it.                                                    *)
THEOREM KillsAfterGrace == Spec => []KillAfterGrace
<1> DEFINE IInv == TypeOK /\ Forest /\ NobodyLeft /\ GraceInv
<1>1. Init => IInv
  BY ForestInit, TypeInit, GraceInit
<1>2. IInv /\ [Next]_vars => IInv'
  BY TypeStep, NobodyLeftStep, ProtocolStep, LeftStep, GraceStep DEF GraceInv
<1>3. IInv => KillAfterGrace
  BY DEF GraceInv
<1>4. QED  BY <1>1, <1>2, <1>3, PTL DEF Spec

-----------------------------------------------------------------------------
(* The reason of the stop.  stopSolver stores the reason before the flag   *)
(* for whoever reads both in the same thread; only the handler, whose      *)
(* stores another thread observes, can be met between the two.             *)

(* A stop that is requested without a reason is one of the handler, which  *)
(* has stored the flag first.                                              *)
ReasonInv == stopSolverRequested /\ stopReason = "null" => handler = "flag"

LEMMA ReasonStep ==
  ASSUME ReasonInv, [Next]_vars
  PROVE  ReasonInv'
<1> USE DEF ReasonInv, mainVars, stopVars
<1>1. CASE MainStep
  BY <1>1 DEF MainStep, ReapChild, NoMoreChildren, Join
<1>2. CASE HandlerStep
  BY <1>2 DEF HandlerStep, FlagFirst, ReasonFirst, SecondStore, HandlerUnchanged
<1>3. CASE CheckLimits
  <2>1. \/ UNCHANGED stopVars
        \/ \E r \in Limits : stopReason' = r
    BY <1>3 DEF CheckLimits, StopSolver, IsLastTested
  <2>2. "null" \notin Limits
    BY WatcherAssumption DEF LimitKinds
  <2>3. handler' = handler
    BY <1>3 DEF CheckLimits
  <2>4. QED  BY <2>1, <2>2, <2>3
<1>4. CASE WatcherStep /\ ~ CheckLimits
  BY <1>4 DEF WatcherStep, Tick, Sample, LeaveLoop, Displayed,
       KeepWatching, NoticeStop, SendSIGTERM, WaitBeforeKill, SendSIGKILL,
       SignalProcess, SignalsSent, Sweep, EndOfThread
<1>5. CASE KernelStep \/ UNCHANGED vars
  BY <1>5 DEF KernelStep, vars
<1>6. QED  BY <1>1, <1>2, <1>3, <1>4, <1>5 DEF Next, Exited

(* Only the notice of the stop prints the reason.                          *)
LEMMA AnnouncedFrame ==
  ASSUME [Next]_vars, announced' # announced
  PROVE  NoticeStop
<1>1. CASE MainStep
  BY <1>1 DEF MainStep, ReapChild, NoMoreChildren, Join
<1>2. CASE HandlerStep
  BY <1>2 DEF HandlerStep, FlagFirst, ReasonFirst, SecondStore, HandlerUnchanged
<1>3. CASE WatcherStep
  BY <1>3 DEF WatcherStep, Tick, Sample, LeaveLoop, CheckLimits, Displayed,
       KeepWatching, SendSIGTERM, WaitBeforeKill, SendSIGKILL,
       SignalProcess, SignalsSent, Sweep, EndOfThread
<1>4. CASE KernelStep \/ UNCHANGED vars
  BY <1>4 DEF KernelStep, vars
<1>5. QED  BY <1>1, <1>2, <1>3, <1>4 DEF Next, Exited

(* A null pointer is printed as the reason of a stop only in the window    *)
(* between the two stores of the signal handler, whatever the limits and   *)
(* however the samples, the signals and the notice interleave.             *)
THEOREM ReasonIsAnnounced == Spec => ReasonAnnounced
<1> DEFINE Step == announced' = "null" => announced = "null" \/ handler = "flag"
<1>1. Init => ReasonInv
  BY DEF Init, ReasonInv
<1>2. ReasonInv /\ [Next]_vars => ReasonInv'
  BY ReasonStep
<1>3. ReasonInv /\ [Next]_vars => [Step]_vars
  <2> SUFFICES ASSUME ReasonInv, [Next]_vars, announced' = "null", announced # "null"
               PROVE  handler = "flag"
    OBVIOUS
  <2>1. NoticeStop
    BY AnnouncedFrame
  <2>2. QED  BY <2>1 DEF NoticeStop, ReasonInv
<1>4. QED  BY <1>1, <1>2, <1>3, PTL DEF Spec, ReasonAnnounced

-----------------------------------------------------------------------------
(* The refinement: the watcher keeps the promise of module Supervisor.     *)

(* A process that has not been forked has received no signal.              *)
FreeUnsignalled == \A p \in Pid : state[p] = "free" => signals[p] = {}

PromiseInv == TypeOK /\ Forest /\ NobodyLeft /\ GraceInv /\ FreeUnsignalled

LEMMA FreeStep ==
  ASSUME TypeOK, FreeUnsignalled, [Next]_vars
  PROVE  FreeUnsignalled'
<1> USE DEF FreeUnsignalled, TypeOK, KernelTypeOK, kernelVars
<1>1. CASE MainStep
  BY <1>1 DEF MainStep, ReapChild, Reap, NoMoreChildren, Join
<1>2. CASE HandlerStep
  BY <1>2 DEF HandlerStep, FlagFirst, ReasonFirst, SecondStore, HandlerUnchanged
<1>3. CASE KernelStep
  BY <1>3 DEF KernelStep, SolverStep, Fork, Exit, Wait, Recycle
<1>4. CASE UNCHANGED vars
  BY <1>4 DEF vars
<1>5. ASSUME NEW q \in Pid, SignalProcess(q)
      PROVE  FreeUnsignalled'
  BY <1>5 DEF SignalProcess, SignalStep, Kill
<1>6. CASE WatcherStep /\ ~ \E q \in Pid : SignalProcess(q)
  BY <1>6 DEF WatcherStep, Tick, Sample, LeaveLoop, CheckLimits, Displayed,
     KeepWatching, NoticeStop, SendSIGTERM, WaitBeforeKill, SendSIGKILL,
     SignalsSent, Sweep, EndOfThread
<1>7. QED  BY <1>1, <1>2, <1>3, <1>4, <1>5, <1>6 DEF Next, Exited

(* The processes of the supervisor, seen from the kernel.                  *)
Live   == {p \in Pid : Alive(p)}
Warned == {p \in Pid : Alive(p) /\ "TERM" \in signals[p]}
Doomed == {p \in Pid : Alive(p) /\ Killed(p)}
Phase  == IF stopSolverState > 0 THEN "waiting"
          ELSE IF thread \in {"notice", "warn", "term"} THEN "warning"
          ELSE "watching"
promise == <<Live, Warned, Doomed, stopSolverRequested, Phase, grace, main # "wait">>

(* A step of the solver's processes starts or finishes one, or is not seen. *)
LEMMA PromiseKernel ==
  ASSUME PromiseInv, KernelStep
  PROVE  S!Next \/ UNCHANGED promise
<1>1. UNCHANGED <<stopSolverRequested, Phase, grace, main>>
  BY DEF KernelStep, stopVars, mainVars, clockVars, Phase
<1> USE DEF PromiseInv, TypeOK, KernelTypeOK, Live, Warned, Doomed, Alive, Killed
<1>2. ASSUME NEW p \in Pid, NEW q \in Pid, Fork(p, q)
      PROVE  S!Start(q)
  <2>1. state[q] = "free" /\ signals[q] = {} /\ signals' = signals
    BY <1>2 DEF Fork, NextPid, FreeUnsignalled
  <2>2. Live' = Live \cup {q} /\ Warned' = Warned /\ Doomed' = Doomed
    BY <1>2, <2>1 DEF Fork
  <2>3. p \in Live \ Doomed /\ q \notin Live
    BY <1>2, <2>1 DEF Fork
  <2>4. QED  BY <1>1, <2>2, <2>3 DEF S!Start, Phase
<1>3. ASSUME NEW p \in Pid, Exit(p)
      PROVE  S!Finish(p)
  <2>1. Live' = Live \ {p} /\ Warned' = Warned \ {p} /\ Doomed' = Doomed \ {p}
    BY <1>3 DEF Exit
  <2>2. p \in Live
    BY <1>3 DEF Exit
  <2>3. QED  BY <1>1, <2>1, <2>2 DEF S!Finish, Phase
<1>4. ASSUME NEW p \in Pid, NEW c \in Pid, Wait(p, c) \/ Recycle(c)
      PROVE  UNCHANGED promise
  <2>1. Live' = Live /\ Warned' = Warned /\ Doomed' = Doomed
    BY <1>4 DEF Wait, Recycle
  <2>2. QED  BY <1>1, <2>1 DEF promise
<1>5. QED  BY <1>2, <1>3, <1>4 DEF KernelStep, SolverStep, S!Next

(* Reaping is not seen; leaving the loop of waitpid concludes the run.     *)
LEMMA PromiseMain ==
  ASSUME PromiseInv, MainStep
  PROVE  S!Next \/ UNCHANGED promise
<1> USE DEF PromiseInv, TypeOK, KernelTypeOK
<1>1. UNCHANGED <<stopSolverRequested, Phase, grace, signals>>
  BY DEF MainStep, ReapChild, Reap, NoMoreChildren, Join, stopVars, clockVars,
         kernelVars, Phase
<1>2. ASSUME NEW c \in Pid, ReapChild(c)
      PROVE  UNCHANGED promise
  <2>1. Live' = Live /\ Warned' = Warned /\ Doomed' = Doomed
    BY <1>2 DEF ReapChild, Reap, Live, Warned, Doomed, Alive, Killed
  <2>2. main' = main
    BY <1>2 DEF ReapChild
  <2>3. QED  BY <1>1, <2>1, <2>2 DEF promise
<1>3. CASE NoMoreChildren
  <2>1. \A p \in Pid : ~ Exists(p)
    BY <1>3, NoChildNobody DEF NoMoreChildren
  <2>2. Live = {}
    BY <2>1 DEF Live, Exists, Alive
  <2>3. Live' = Live /\ Warned' = Warned /\ Doomed' = Doomed
    BY <1>3 DEF NoMoreChildren, kernelVars, Live, Warned, Doomed, Alive, Killed
  <2>4. (main # "wait")' = TRUE
    BY <1>3 DEF NoMoreChildren
  <2>5. S!Conclude
    BY <1>1, <2>2, <2>3, <2>4 DEF S!Conclude, Live, Warned, Doomed, Phase
  <2>6. QED  BY <2>5 DEF S!Next
<1>4. CASE Join
  <2>1. Live' = Live /\ Warned' = Warned /\ Doomed' = Doomed
    BY <1>4 DEF Join, kernelVars, Live, Warned, Doomed, Alive, Killed
  <2>2. (main # "wait")' = (main # "wait")
    BY <1>4 DEF Join
  <2>3. QED  BY <1>1, <2>1, <2>2 DEF promise
<1>5. QED  BY <1>2, <1>3, <1>4 DEF MainStep

(* The handler asks for a stop.                                            *)
LEMMA PromiseHandler ==
  ASSUME PromiseInv, HandlerStep
  PROVE  S!Next \/ UNCHANGED promise
<1>1. HandlerUnchanged
  BY DEF HandlerStep, FlagFirst, ReasonFirst, SecondStore
<1>2. UNCHANGED <<Live, Warned, Doomed, Phase, grace, main # "wait">>
  BY <1>1 DEF HandlerUnchanged, kernelVars, clockVars, mainVars,
              Live, Warned, Doomed, Phase, Alive, Killed
<1>3. stopSolverRequested' = TRUE \/ stopSolverRequested' = stopSolverRequested
  BY DEF HandlerStep, FlagFirst, ReasonFirst, SecondStore
<1>4. CASE stopSolverRequested' = TRUE
  <2>1. S!AskToStop
    BY <1>2, <1>4 DEF S!AskToStop, Live, Warned, Doomed, Phase
  <2>2. QED  BY <2>1 DEF S!Next
<1>5. CASE stopSolverRequested' = stopSolverRequested
  BY <1>2, <1>5 DEF promise
<1>6. QED  BY <1>3, <1>4, <1>5

(* The watcher thread sends signals in the phase and after the delay that  *)
(* the promise names.                                                      *)
LEMMA PromiseSignal ==
  ASSUME PromiseInv, NEW p \in Pid, SignalProcess(p)
  PROVE  S!Next \/ UNCHANGED promise
<1> USE DEF PromiseInv, TypeOK, KernelTypeOK
<1>1. UNCHANGED <<stopSolverRequested, Phase, grace, main # "wait", state>>
  BY DEF SignalProcess, SignalStep, Kill, stopVars, clockVars, mainVars, Phase
<1>2. Live' = Live
  BY <1>1 DEF Live, Alive
<1>3. CASE ~ Alive(p)
  <2>1. Warned' = Warned /\ Doomed' = Doomed
    BY <1>3 DEF SignalProcess, SignalStep, Kill, Warned, Doomed, Alive, Killed
  <2>2. QED  BY <1>1, <1>2, <2>1 DEF promise
<1>4. CASE Alive(p) /\ thread = "term"
  <2>1. Phase = "warning"
    BY <1>4 DEF GraceInv, ProtocolInv, Phase
  <2>2. Warned' = Warned \cup {p} /\ Doomed' = Doomed
    BY <1>4 DEF SignalProcess, SignalStep, SignalOf, Kill, Warned, Doomed, Alive, Killed
  <2>3. S!Warn(p)
    BY <1>1, <1>2, <1>4, <2>1, <2>2 DEF S!Warn, Live, Warned, Doomed, Phase
  <2>4. QED  BY <2>3 DEF S!Next
<1>5. CASE Alive(p) /\ thread # "term"
  <2>1. thread \in {"kill", "sweep"} /\ todo # {}
    BY <1>5 DEF SignalProcess, SignalStep
  <2>2. Due
    BY <2>1 DEF GraceInv, ProtocolInv, LeftInv
  <2>3. Phase = "waiting" /\ grace = DelayTicks
    BY <2>2 DEF Due, Phase
  <2>4. Doomed' = Doomed \cup {p} /\ Warned' = Warned
    BY <1>5 DEF SignalProcess, SignalStep, SignalOf, Kill, Warned, Doomed, Alive, Killed
  <2>5. S!Doom(p)
    BY <1>1, <1>2, <1>5, <2>3, <2>4 DEF S!Doom, Live, Warned, Doomed, Phase
  <2>6. QED  BY <2>5 DEF S!Next
<1>6. QED  BY <1>3, <1>4, <1>5

(* The other steps of the watcher thread leave the processes alone.        *)
LEMMA PromiseWatcher ==
  ASSUME PromiseInv, WatcherStep, ~ \E p \in Pid : SignalProcess(p)
  PROVE  S!Next \/ UNCHANGED promise
<1> USE DEF PromiseInv, TypeOK
<1>1. UNCHANGED <<Live, Warned, Doomed, main # "wait">>
  <2>1. UNCHANGED <<state, signals, main>>
    BY DEF WatcherStep, Tick, Sample, LeaveLoop, CheckLimits, Displayed,
       KeepWatching, NoticeStop, SendSIGTERM, WaitBeforeKill, SendSIGKILL,
       SignalsSent, Sweep, EndOfThread, kernelVars, mainVars
  <2>2. QED  BY <2>1 DEF Live, Warned, Doomed, Alive, Killed
<1>2. CASE Tick
  <2>1. UNCHANGED <<stopSolverRequested, Phase>>
    BY <1>2 DEF Tick, stopVars, Phase
  <2>2. CASE grace' = grace
    BY <1>1, <2>1, <2>2 DEF promise
  <2>3. CASE grace' # grace
    <3>1. Phase = "waiting" /\ grace' = grace + 1 /\ grace # DelayTicks
      BY <1>2, <2>3 DEF Tick, Phase
    <3>2. grace < DelayTicks
      BY <3>1, WatcherAssumption
    <3>3. S!Tick
      BY <1>1, <2>1, <3>1, <3>2 DEF S!Tick, Live, Warned, Doomed, Phase
    <3>4. QED  BY <3>3 DEF S!Next
  <2>4. QED  BY <2>2, <2>3
<1>3. CASE CheckLimits
  <2>1. UNCHANGED <<Phase, grace>>
    BY <1>3 DEF CheckLimits, Display, clockVars, Phase
  <2>2. stopSolverRequested' = TRUE \/ stopSolverRequested' = stopSolverRequested
    BY <1>3 DEF CheckLimits, StopSolver, stopVars
  <2>3. CASE stopSolverRequested' = TRUE
    <3>1. S!AskToStop
      BY <1>1, <2>1, <2>3 DEF S!AskToStop, Live, Warned, Doomed, Phase
    <3>2. QED  BY <3>1 DEF S!Next
  <2>4. CASE stopSolverRequested' = stopSolverRequested
    BY <1>1, <2>1, <2>4 DEF promise
  <2>5. QED  BY <2>2, <2>3, <2>4
<1>4. CASE NoticeStop
  <2>1. Phase = "watching" /\ Phase' = "warning" /\ stopSolverRequested
    BY <1>4 DEF NoticeStop, Display, Phase
  <2>2. UNCHANGED <<stopSolverRequested, grace>>
    BY <1>4 DEF NoticeStop, stopVars, clockVars
  <2>3. S!BeginWarning
    BY <1>1, <2>1, <2>2 DEF S!BeginWarning, Live, Warned, Doomed, Phase
  <2>4. QED  BY <2>3 DEF S!Next
<1>5. CASE SignalsSent
  <2>1. UNCHANGED <<stopSolverRequested, grace>>
    BY <1>5 DEF SignalsSent, stopVars, clockVars
  <2>2. Phase' = "waiting"
    BY <1>5 DEF SignalsSent, Phase
  <2>3. Phase = "warning" \/ Phase = "waiting"
    BY <1>5 DEF SignalsSent, GraceInv, ProtocolInv, Due, Phase
  <2>4. CASE Phase = "warning"
    <3>1. S!BeginWaiting
      BY <1>1, <2>1, <2>2, <2>4 DEF S!BeginWaiting, Live, Warned, Doomed, Phase
    <3>2. QED  BY <3>1 DEF S!Next
  <2>5. CASE Phase = "waiting"
    BY <1>1, <2>1, <2>2, <2>5 DEF promise
  <2>6. QED  BY <2>3, <2>4, <2>5
<1>6. CASE WaitBeforeKill
  <2>1. Phase' = Phase
    BY <1>6 DEF WaitBeforeKill, Phase
  <2>2. UNCHANGED <<stopSolverRequested, grace>>
    BY <1>6 DEF WaitBeforeKill, stopVars, clockVars
  <2>3. QED  BY <1>1, <2>1, <2>2 DEF promise
<1>7. CASE \/ Sample \/ LeaveLoop \/ Displayed \/ KeepWatching
           \/ SendSIGTERM \/ SendSIGKILL \/ Sweep \/ EndOfThread
  <2>1. Phase' = Phase
    BY <1>7 DEF Sample, LeaveLoop, Displayed, KeepWatching, SendSIGTERM,
                SendSIGKILL, Sweep, EndOfThread, Phase
  <2>2. UNCHANGED <<stopSolverRequested, grace>>
    BY <1>7 DEF Sample, LeaveLoop, Displayed, KeepWatching, SendSIGTERM,
                SendSIGKILL, Sweep, EndOfThread, stopVars, clockVars
  <2>3. QED  BY <1>1, <2>1, <2>2 DEF promise
<1>8. QED
  BY <1>2, <1>3, <1>4, <1>5, <1>6, <1>7 DEF WatcherStep

LEMMA PromiseInit == Init => PromiseInv /\ S!Init
<1> SUFFICES ASSUME Init PROVE PromiseInv /\ S!Init
  OBVIOUS
<1>1. FreeUnsignalled
  BY DEF Init, KernelInit, FreeUnsignalled
<1>2. PromiseInv
  BY <1>1, TypeInit, ForestInit, GraceInit DEF PromiseInv
<1> USE KernelAssumption DEF Init, KernelInit, Live, Warned, Doomed, Alive, Killed
<1>3. Live = {Solver} /\ Warned = {} /\ Doomed = {}
  OBVIOUS
<1>4. S!Init
  BY <1>3 DEF S!Init, Phase
<1>5. QED  BY <1>2, <1>4

LEMMA PromiseStep ==
  ASSUME PromiseInv, [Next]_vars
  PROVE  PromiseInv' /\ [S!Next]_(S!supervisorVars)
<1>1. PromiseInv'
  BY TypeStep, NobodyLeftStep, ProtocolStep, LeftStep, GraceStep, FreeStep
  DEF PromiseInv, GraceInv
<1>2. UNCHANGED vars => UNCHANGED promise
  BY DEF vars, kernelVars, stopVars, mainVars, clockVars, promise,
         Live, Warned, Doomed, Phase, Alive, Killed
<1>3. S!Next \/ UNCHANGED promise
  BY <1>2, PromiseKernel, PromiseMain, PromiseHandler, PromiseSignal, PromiseWatcher
  DEF Next, Exited
<1>4. UNCHANGED promise => UNCHANGED S!supervisorVars
  BY DEF promise, S!supervisorVars, Live, Warned, Doomed, Phase
<1>5. QED  BY <1>1, <1>3, <1>4

(* The supervision implements module Supervisor, whoever forks, ends or is *)
(* adopted and whether or not process ids wrap around.                     *)
THEOREM PromiseKept == Spec => KeepsPromise
<1>1. PromiseInv /\ [Next]_vars => PromiseInv' /\ [S!Next]_(S!supervisorVars)
  BY PromiseStep
<1>2. QED  BY <1>1, PromiseInit, PTL DEF Spec, KeepsPromise, S!Spec

-----------------------------------------------------------------------------
(* What a full scan finds, when process ids do not wrap around: /proc is   *)
(* read in increasing order of pids, so a parent is read before its        *)
(* children, and the only new parent an orphan may get is runsolver.       *)

(* The parents of the processes that ran when the scan began ran then.     *)
PresentInv ==
  \A p \in present :
    /\ state[p] # "free"
    /\ Exists(p) => parent[p] = Runsolver \/ parent[p] \in present

(* Only the threads' scanning states leave the sample incomplete.          *)
ReadyInv ==
  /\ thread \notin {"sample", "display", "notice", "lastScan"} => sampling = "ready"
  /\ sampling = "update" => present = {}

(* Has the scan been to p?                                                 *)
Visited(p) == sampling = "scan" => p \notin todo

(* Who was there when the scan began, and has been put in the tree.        *)
Hanging == {p \in present : Visited(p) /\ tree[p] # NoData}

HangingInv ==
  /\ \A p \in present : Alive(p) /\ Visited(p) => p \in Hanging
  /\ \A p \in Hanging : tree[p] = Runsolver \/ tree[p] \in Hanging
  /\ \A T \in SUBSET Hanging : T # {} => \E p \in T : tree[p] \notin T

(* The sweep has killed, or is about to, whoever the last scan found.      *)
SweepInv ==
  thread \in {"sweep", "done"} =>
    \A p \in present : Alive(p) => Killed(p) \/ (thread = "sweep" /\ p \in todo)

ScanInv == Ordered /\ PresentInv /\ ReadyInv /\ HangingInv

(* A tree that hangs together is traversed from its roots.                 *)
LEMMA HangingReached ==
  ASSUME TypeOK, HangingInv
  PROVE  \A p \in Hanging : p \in Reached(tree)
<1> SUFFICES ASSUME NEW p \in Hanging, NEW Seen \in SUBSET Pid, TraversalClosed(tree, Seen)
             PROVE  p \in Seen
  BY DEF Reached, Hanging, TypeOK, TreeTypeOK
<1> DEFINE T == Hanging \ Seen
<1> SUFFICES ASSUME p \notin Seen PROVE FALSE
  OBVIOUS
<1>1. PICK r \in T : tree[r] \notin T
  <2>1. T \in SUBSET Hanging /\ T # {}
    OBVIOUS
  <2>2. QED  BY <2>1 DEF HangingInv
<1>2. tree[r] = Runsolver \/ tree[r] \in Seen
  BY <1>1 DEF HangingInv
<1>3. r \in Pid
  BY DEF Hanging, TypeOK, TreeTypeOK
<1>4. QED  BY <1>1, <1>2, <1>3 DEF TraversalClosed

LEMMA ScanIsComplete ==
  ASSUME TypeOK, HangingInv
  PROVE  ScanComplete
BY HangingReached DEF ScanComplete, HangingInv, Visited

(* A new scan starts from an empty tree.                                   *)
LEMMA StartInv ==
  ASSUME TypeOK, ParentRuns, Ordered, StartScan \/ StartUpdate, UNCHANGED kernelVars
  PROVE  PresentInv' /\ HangingInv' /\ (sampling' = "update" => present' = {})
<1> USE DEF TypeOK, KernelTypeOK, TreeTypeOK
<1>1. CASE StartUpdate
  BY <1>1 DEF StartUpdate, PresentInv, HangingInv, Hanging
<1>2. CASE StartScan
  <2>1. PresentInv'
    BY <1>2 DEF StartScan, PresentInv, ParentRuns, Exists, Alive, kernelVars
  <2>2. Hanging' = {} /\ \A p \in present' : ~ Visited(p)'
    BY <1>2 DEF StartScan, Hanging, Visited, Alive
  <2>3. HangingInv'
    BY <2>2 DEF HangingInv
  <2>4. QED  BY <1>2, <2>1, <2>3 DEF StartScan
<1>3. QED  BY <1>1, <1>2

(* The scan reads the next process.                                        *)
LEMMA ScanStepInv ==
  ASSUME TypeOK, ScanInv, ParentRuns, NEW p \in Pid, ScanStep(p), UNCHANGED kernelVars
  PROVE  HangingInv'
<1> USE DEF TypeOK, KernelTypeOK, TreeTypeOK
<1>1. /\ p \in todo /\ sampling = "scan" /\ sampling' = "scan" /\ present' = present
      /\ todo' = todo \ {p} /\ p \notin Hanging
      /\ \A r \in Pid : r # p => tree'[r] = tree[r]
  BY DEF ScanStep, Hanging, Visited
<1>2. tree'[p] = IF Readable(p) THEN parent[p] ELSE NoData
  BY DEF ScanStep, PPid, ScanInv, Ordered
<1>3. \A r \in Pid : Alive(r)' <=> Alive(r)
  BY DEF Alive, kernelVars
<1>4. CASE p \in present /\ Readable(p)
  <2>1. Alive(p) /\ parent[p] < p /\ tree'[p] = parent[p]
    BY <1>2, <1>4 DEF Readable, Alive, Exists, ScanInv, Ordered
  <2>2. parent[p] = Runsolver \/ parent[p] \in Hanging
    <3> SUFFICES ASSUME parent[p] # Runsolver
                 PROVE  parent[p] \in Hanging
      OBVIOUS
    <3>1. parent[p] \in present /\ Alive(parent[p])
      BY <1>4, <2>1 DEF ScanInv, PresentInv, ParentRuns, Exists, Alive
    <3>2. parent[p] \notin todo
      <4>1. \A q \in todo : p <= q
        BY DEF ScanStep
      <4>2. p \in Int /\ parent[p] \in Int
        BY DEF Pid, Runsolver
      <4>3. QED  BY <2>1, <4>1, <4>2
    <3>3. QED  BY <3>1, <3>2 DEF ScanInv, HangingInv, Visited
  <2>3. Hanging' = Hanging \cup {p}
    <3>1. tree'[p] # NoData
      BY <2>1 DEF NoData, Pid, Runsolver
    <3>2. Hanging' \subseteq Hanging \cup {p}
      BY <1>1 DEF Hanging, Visited
    <3>3. Hanging \subseteq Hanging'
      BY <1>1 DEF Hanging, Visited
    <3>4. p \in Hanging'
      BY <1>1, <1>4, <3>1 DEF Hanging, Visited
    <3>5. QED  BY <3>2, <3>3, <3>4
  <2>4. \A q \in present' : Alive(q)' /\ Visited(q)' => q \in Hanging'
    BY <1>1, <1>3, <2>3 DEF ScanInv, HangingInv, Visited
  <2>5. \A q \in Hanging' : tree'[q] = Runsolver \/ tree'[q] \in Hanging'
    BY <1>1, <2>1, <2>2, <2>3 DEF ScanInv, HangingInv, Hanging
  <2>6. ASSUME NEW T \in SUBSET Hanging', T # {}
        PROVE  \E q \in T : tree'[q] \notin T
    <3>1. \A q \in T \ {p} : q \in Hanging /\ q \in Pid /\ tree'[q] = tree[q] /\ tree[q] # p
      <4>1. \A q \in T \ {p} : q \in Hanging /\ q \in Pid
        BY <2>3, <2>6 DEF Hanging
      <4>2. \A q \in T \ {p} : tree[q] = Runsolver \/ tree[q] \in Hanging
        BY <4>1 DEF ScanInv, HangingInv
      <4>3. Runsolver # p
        BY DEF Pid, Runsolver
      <4>4. QED  BY <1>1, <4>1, <4>2, <4>3
    <3>2. CASE T = {p}
      <4>1. tree'[p] # p
        BY <2>1 DEF Pid, Runsolver
      <4>2. QED  BY <3>2, <4>1
    <3>3. CASE T \ {p} # {}
      <4>1. PICK q \in T \ {p} : tree[q] \notin T \ {p}
        <5>1. T \ {p} \in SUBSET Hanging
          BY <3>1
        <5>2. QED  BY <3>3, <5>1 DEF ScanInv, HangingInv
      <4>2. tree'[q] \notin T
        BY <3>1, <4>1
      <4>3. QED  BY <4>2
    <3>4. QED  BY <2>6, <3>2, <3>3
  <2>7. QED  BY <2>4, <2>5, <2>6 DEF HangingInv
<1>5. CASE ~ (p \in present /\ Readable(p))
  <2>1. Hanging' = Hanging
    <3>1. p \notin Hanging'
      BY <1>1, <1>2, <1>5 DEF Hanging
    <3>2. \A r \in Pid : r # p => (Visited(r)' <=> Visited(r))
      BY <1>1 DEF Visited
    <3>3. QED  BY <1>1, <3>1, <3>2 DEF Hanging
  <2>2. \A r \in Hanging : r \in Pid /\ r # p /\ tree'[r] = tree[r]
    BY <1>1 DEF Hanging
  <2>3. \A q \in present' : Alive(q)' /\ Visited(q)' => q \in Hanging'
    <3>1. Alive(p) => Readable(p)
      BY DEF Alive, Readable
    <3>2. QED  BY <1>1, <1>3, <1>5, <2>1, <3>1 DEF ScanInv, HangingInv, Visited
  <2>4. QED  BY <2>1, <2>2, <2>3 DEF ScanInv, HangingInv
<1>6. QED  BY <1>4, <1>5


(* Any other step of a sample leaves what hangs together as it is.         *)
LEMMA SampleStepInv ==
  ASSUME TypeOK, ScanInv, ParentRuns, SampleStep, UNCHANGED kernelVars
  PROVE  PresentInv' /\ HangingInv' /\ (sampling' = "update" => present' = {})
<1> USE DEF TypeOK, KernelTypeOK, TreeTypeOK
<1>1. ASSUME NEW p \in Pid, ScanStep(p)
      PROVE  PresentInv' /\ HangingInv' /\ (sampling' = "update" => present' = {})
  <2>1. PresentInv'
    BY <1>1 DEF ScanStep, ScanInv, PresentInv, Exists, Alive, kernelVars
  <2>2. HangingInv'
    BY <1>1, ScanStepInv
  <2>3. sampling' = "scan"
    BY <1>1 DEF ScanStep
  <2>4. QED  BY <2>1, <2>2, <2>3
<1>2. ASSUME NEW p \in Pid, UpdateStep(p) \/ LoseChild(p)
      PROVE  PresentInv' /\ HangingInv' /\ (sampling' = "update" => present' = {})
  <2>1. present' = {}
    BY <1>2 DEF UpdateStep, LoseChild, ScanInv, ReadyInv
  <2>2. QED  BY <2>1 DEF PresentInv, HangingInv, Hanging
<1>3. ASSUME NEW p \in Pid, LoseRoot(p)
      PROVE  PresentInv' /\ HangingInv' /\ (sampling' = "update" => present' = {})
  BY <1>3, StartInv DEF LoseRoot, ScanInv
<1>4. CASE SampleComplete
  <2>1. PresentInv'
    BY <1>4 DEF SampleComplete, ScanInv, PresentInv, Exists, Alive, kernelVars
  <2>2. Hanging' = Hanging /\ \A p \in Pid : Visited(p)
    BY <1>4 DEF SampleComplete, Hanging, Visited
  <2>3. UNCHANGED <<tree, present>> /\ \A p \in Pid : Alive(p)' <=> Alive(p)
    BY <1>4 DEF SampleComplete, Alive, kernelVars
  <2>4. HangingInv'
    BY <2>2, <2>3 DEF ScanInv, HangingInv
  <2>5. sampling' = "ready"
    BY <1>4 DEF SampleComplete
  <2>6. QED  BY <2>1, <2>4, <2>5
<1>5. QED  BY <1>1, <1>2, <1>3, <1>4 DEF SampleStep

(* What the solver does meanwhile only takes processes away from those     *)
(* that were there when the scan began, or makes runsolver their parent.   *)
LEMMA KernelStepInv ==
  ASSUME ~ PidsWrap, TypeOK, ScanInv,
         SolverStep \/ (\E c \in Pid : Reap(c)) \/ (UNCHANGED <<state, parent>>)
  PROVE  /\ Ordered'
         /\ UNCHANGED treeVars => PresentInv' /\ HangingInv'
         /\ \A p \in present : Alive(p)' => Alive(p)
<1> USE DEF TypeOK, KernelTypeOK, Exists, Alive
<1>1. Ordered'
  BY OrderedStep DEF ScanInv
<1>2. \A r \in present : Alive(r)' => Alive(r)
  <2> USE DEF ScanInv, PresentInv, TreeTypeOK
  <2>1. ASSUME NEW p \in Pid, NEW q \in Pid, Fork(p, q)
        PROVE  \A r \in present : Alive(r)' => Alive(r)
    BY <2>1 DEF Fork, NextPid
  <2>2. ASSUME NEW p \in Pid, Exit(p)
        PROVE  \A r \in present : Alive(r)' => Alive(r)
    BY <2>2 DEF Exit
  <2>3. ASSUME NEW p \in Pid, NEW c \in Pid, Wait(p, c) \/ Recycle(c) \/ Reap(c)
        PROVE  \A r \in present : Alive(r)' => Alive(r)
    BY <2>3 DEF Wait, Recycle, Reap
  <2>4. CASE UNCHANGED <<state, parent>>
    BY <2>4
  <2>5. QED  BY <2>1, <2>2, <2>3, <2>4 DEF SolverStep
<1>3. ASSUME UNCHANGED treeVars
      PROVE  PresentInv'
  <2> USE <1>3 DEF ScanInv, PresentInv, TreeTypeOK, treeVars
  <2>1. ASSUME NEW p \in Pid, NEW q \in Pid, Fork(p, q)
        PROVE  PresentInv'
    BY <2>1 DEF Fork, NextPid
  <2>2. ASSUME NEW p \in Pid, Exit(p)
        PROVE  PresentInv'
    BY <2>2 DEF Exit
  <2>3. ASSUME NEW p \in Pid, NEW c \in Pid, Wait(p, c) \/ Recycle(c) \/ Reap(c)
        PROVE  PresentInv'
    BY <2>3 DEF Wait, Recycle, Reap, IsChild
  <2>4. CASE UNCHANGED <<state, parent>>
    BY <2>4
  <2>5. QED  BY <2>1, <2>2, <2>3, <2>4 DEF SolverStep
<1>4. ASSUME UNCHANGED treeVars
      PROVE  HangingInv'
  <2>1. Hanging' = Hanging /\ \A p \in Pid : Visited(p)' <=> Visited(p)
    BY <1>4 DEF Hanging, Visited, treeVars
  <2>2. UNCHANGED <<tree, present>> /\ present \subseteq Pid
    BY <1>4 DEF treeVars, TreeTypeOK
  <2>3. QED  BY <1>2, <2>1, <2>2 DEF ScanInv, HangingInv
<1>5. QED  BY <1>1, <1>2, <1>3, <1>4

(* Sending signals does not change the sample.                             *)
LEMMA SignalStepInv ==
  ASSUME TypeOK, ScanInv, sampling = "ready",
         UNCHANGED <<tree, present, sampling, state, parent>>
  PROVE  PresentInv' /\ HangingInv'
<1> USE DEF TypeOK, KernelTypeOK, TreeTypeOK, Exists, Alive
<1>1. PresentInv'
  BY DEF ScanInv, PresentInv
<1>2. Hanging' = Hanging /\ \A p \in Pid : Visited(p)' <=> Visited(p)
  BY DEF Hanging, Visited
<1>3. HangingInv'
  BY <1>2 DEF ScanInv, HangingInv
<1>4. QED  BY <1>1, <1>3

LEMMA ScanInvStep ==
  ASSUME ~ PidsWrap, TypeOK, Forest, ScanInv, [Next]_vars
  PROVE  ScanInv'
<1>1. SolverStep \/ (\E c \in Pid : Reap(c)) \/ (UNCHANGED <<state, parent>>)
  BY ForestFrame
<1>2. Ordered' /\ (UNCHANGED treeVars => PresentInv' /\ HangingInv')
  BY <1>1, KernelStepInv
<1>3. ParentRuns /\ Ordered
  BY DEF Forest, ScanInv
<1>4. CASE UNCHANGED <<treeVars, thread>>
  BY <1>2, <1>4 DEF ScanInv, ReadyInv, treeVars
<1>5. CASE MainStep \/ HandlerStep \/ KernelStep
  BY <1>4, <1>5 DEF MainStep, ReapChild, NoMoreChildren, Join, HandlerStep, FlagFirst,
     ReasonFirst, SecondStore, HandlerUnchanged, KernelStep
<1>6. CASE Tick \/ LeaveLoop
  <2>1. PresentInv' /\ HangingInv' /\ (sampling' = "update" => present' = {})
    BY <1>3, <1>6, StartInv DEF Tick, LeaveLoop
  <2>2. thread' \in {"sample", "lastScan"}
    BY <1>6 DEF Tick, LeaveLoop
  <2>3. QED  BY <1>2, <2>1, <2>2 DEF ScanInv, ReadyInv
<1>7. CASE Sample
  <2>1. PresentInv' /\ HangingInv' /\ (sampling' = "update" => present' = {})
    BY <1>3, <1>7, SampleStepInv DEF Sample
  <2>2. thread' \in {"sample", "display", "notice", "lastScan"}
    BY <1>7 DEF Sample
  <2>3. QED  BY <1>2, <2>1, <2>2 DEF ScanInv, ReadyInv
<1>8. CASE CheckLimits \/ NoticeStop
  <2>1. UNCHANGED kernelVars /\ sampling = "ready"
    BY <1>8 DEF CheckLimits, NoticeStop, ScanInv, ReadyInv
  <2>2. \/ UNCHANGED treeVars /\ thread' \in {"decide", "warn"}
        \/ StartScan /\ thread' \in {"display", "notice"}
    BY <1>8 DEF CheckLimits, NoticeStop, Display
  <2>3. CASE UNCHANGED treeVars
    BY <1>2, <2>1, <2>3 DEF ScanInv, ReadyInv, treeVars
  <2>4. CASE StartScan /\ thread' \in {"display", "notice"}
    <3>1. PresentInv' /\ HangingInv' /\ (sampling' = "update" => present' = {})
      BY <1>3, <2>1, <2>4, StartInv
    <3>2. QED  BY <1>2, <2>4, <3>1 DEF ScanInv, ReadyInv
  <2>5. QED  BY <2>2, <2>3, <2>4
<1>9. CASE Displayed \/ KeepWatching \/ WaitBeforeKill \/ SignalsSent \/ EndOfThread
  <2>1. UNCHANGED treeVars /\ sampling = "ready"
    BY <1>9 DEF Displayed, KeepWatching, WaitBeforeKill, SignalsSent, EndOfThread,
                ScanInv, ReadyInv
  <2>2. QED  BY <1>2, <2>1 DEF ScanInv, ReadyInv, treeVars
<1>10. CASE SendSIGTERM \/ SendSIGKILL \/ Sweep
  <2>1. UNCHANGED <<tree, present, sampling, state, parent>> /\ sampling = "ready"
    BY <1>10 DEF SendSIGTERM, SendSIGKILL, Sweep, StartSignalling, ScanInv, ReadyInv,
                 kernelVars
  <2>2. PresentInv' /\ HangingInv'
    BY <2>1, SignalStepInv
  <2>3. QED  BY <1>2, <2>1, <2>2 DEF ScanInv, ReadyInv
<1>11. ASSUME NEW p \in Pid, SignalProcess(p)
       PROVE  ScanInv'
  <2>1. UNCHANGED <<tree, present, sampling, state, parent>> /\ sampling = "ready"
    BY <1>11 DEF SignalProcess, SignalStep, Kill, ScanInv, ReadyInv
  <2>2. PresentInv' /\ HangingInv'
    BY <2>1, SignalStepInv
  <2>3. QED  BY <1>2, <2>1, <2>2 DEF ScanInv, ReadyInv
<1>12. CASE UNCHANGED vars
  BY <1>4, <1>12 DEF vars
<1>13. QED
  BY <1>5, <1>6, <1>7, <1>8, <1>9, <1>10, <1>11, <1>12 DEF Next, WatcherStep, Exited

LEMMA ScanInit == Init => ScanInv /\ SweepInv
<1> SUFFICES ASSUME Init PROVE ScanInv /\ SweepInv
  OBVIOUS
<1> USE KernelAssumption
<1>1. Ordered
  BY DEF Init, KernelInit, Ordered, Pid, Runsolver
<1>2. PresentInv /\ ReadyInv /\ SweepInv
  BY DEF Init, TreeInit, PresentInv, ReadyInv, SweepInv
<1>3. HangingInv
  BY DEF Init, TreeInit, HangingInv, Hanging
<1>4. QED  BY <1>1, <1>2, <1>3 DEF ScanInv

(* Between the last scan and the end of the thread nobody it found is      *)
(* forgotten.                                                              *)
LEMMA SweepStep ==
  ASSUME ~ PidsWrap, TypeOK, ScanInv, SweepInv, [Next]_vars
  PROVE  SweepInv'
<1> USE DEF TypeOK, KernelTypeOK, TreeTypeOK
<1>1. \A p \in present : Alive(p)' => Alive(p)
  BY ForestFrame, KernelStepInv
<1>2. CASE UNCHANGED <<treeVars, thread>> /\ \A p \in present : Killed(p) => Killed(p)'
  BY <1>1, <1>2 DEF SweepInv, treeVars
<1>3. CASE MainStep \/ HandlerStep \/ KernelStep \/ UNCHANGED vars
  <2>1. UNCHANGED <<treeVars, thread>>
    BY <1>3 DEF MainStep, ReapChild, NoMoreChildren, Join, HandlerStep, FlagFirst,
       ReasonFirst, SecondStore, HandlerUnchanged, KernelStep, vars
  <2>2. UNCHANGED signals
    BY <1>3 DEF MainStep, ReapChild, Reap, NoMoreChildren, Join, HandlerStep, FlagFirst,
       ReasonFirst, SecondStore, HandlerUnchanged, KernelStep, SolverStep, Fork, Exit,
       Wait, Recycle, vars, kernelVars
  <2>3. QED  BY <1>2, <2>1, <2>2 DEF Killed
<1>4. CASE Sweep
  <2>1. ScanComplete /\ sampling = "ready"
    BY <1>4, ScanIsComplete DEF Sweep, ScanInv
  <2>2. todo' = Reached(tree) /\ UNCHANGED <<tree, present, state>> /\ thread' = "sweep"
    BY <1>4 DEF Sweep, StartSignalling, SignalledBy, kernelVars
  <2>3. QED  BY <2>1, <2>2 DEF ScanComplete, SweepInv, Alive
<1>5. ASSUME NEW p \in Pid, SignalProcess(p)
      PROVE  SweepInv'
  <2> SUFFICES ASSUME thread' \in {"sweep", "done"}, NEW r \in present', Alive(r)'
               PROVE  Killed(r)' \/ (thread' = "sweep" /\ r \in todo')
    BY DEF SweepInv
  <2>1. thread = "sweep" /\ thread' = "sweep" /\ present' = present /\ state' = state
    BY <1>5 DEF SignalProcess, SignalStep, Kill
  <2>2. Killed(r) \/ r \in todo
    BY <2>1 DEF SweepInv, Alive
  <2>3. todo' = todo \ {p} /\ signals' = IF state[p] \in {"alive", "foreign"}
                THEN [signals EXCEPT ![p] = @ \cup {"KILL"}] ELSE signals
    BY <1>5, <2>1 DEF SignalProcess, SignalStep, SignalOf, Kill
  <2>4. CASE r = p
    BY <2>1, <2>3, <2>4 DEF Alive, Killed
  <2>5. CASE r # p
    BY <2>1, <2>2, <2>3, <2>5 DEF Killed
  <2>6. QED  BY <2>4, <2>5
<1>6. CASE EndOfThread
  BY <1>6 DEF EndOfThread, SweepInv, treeVars, Alive, Killed, kernelVars
<1>7. CASE WatcherStep /\ ~ Sweep /\ ~ EndOfThread /\ ~ \E p \in Pid : SignalProcess(p)
  <2>1. thread' \notin {"sweep", "done"}
    BY <1>7 DEF WatcherStep, Tick, Sample, LeaveLoop, CheckLimits, Display, Displayed,
       KeepWatching, NoticeStop, SendSIGTERM, WaitBeforeKill, SendSIGKILL, SignalsSent
  <2>2. QED  BY <2>1 DEF SweepInv
<1>8. QED  BY <1>3, <1>4, <1>5, <1>6, <1>7 DEF Next, Exited

(* When process ids do not wrap around, a full scan misses nobody who was  *)
(* there when it began, although /proc is read while the solver's          *)
(* processes fork, end and are adopted.                                    *)
THEOREM ScansMissNobody ==
  ASSUME ~ PidsWrap
  PROVE  Spec => []ScanComplete
<1> DEFINE IInv == TypeOK /\ Forest /\ NobodyLeft /\ ScanInv
<1>1. Init => IInv
  BY ForestInit, TypeInit, ScanInit
<1>2. IInv /\ [Next]_vars => IInv'
  BY TypeStep, NobodyLeftStep, ScanInvStep
<1>3. IInv => ScanComplete
  BY ScanIsComplete DEF ScanInv
<1>4. QED  BY <1>1, <1>2, <1>3, PTL DEF Spec

(* Then whoever outlives the watcher thread without a SIGKILL was forked   *)
(* after the last scan began.                                              *)
THEOREM SweepsMissNobody ==
  ASSUME ~ PidsWrap
  PROVE  Spec => []SweepComplete
<1> DEFINE IInv == TypeOK /\ Forest /\ NobodyLeft /\ ScanInv /\ SweepInv
<1>1. Init => IInv
  BY ForestInit, TypeInit, ScanInit
<1>2. IInv /\ [Next]_vars => IInv'
  BY TypeStep, NobodyLeftStep, ScanInvStep, SweepStep
<1>3. IInv => SweepComplete
  BY DEF SweepInv, SweepComplete
<1>4. QED  BY <1>1, <1>2, <1>3, PTL DEF Spec

=============================================================================
