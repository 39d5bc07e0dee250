---------------------------- MODULE CpuTimeProofs ----------------------------
(***************************************************************************)
(* Proofs about module CpuTime, for every number of processes and every    *)
(* use of the CPU: what is accounted for, and what a sample adds up.       *)
(***************************************************************************)
EXTENDS CpuTime, SumTheorems, TLAPS

-----------------------------------------------------------------------------
(* What the kernel and a sample do, whoever else runs, as in WatcherProofs:*)
(* types.                                                                  *)

(* The kernel's steps keep the types of the processes.                     *)
LEMMA KernelType ==
  ASSUME KernelTypeOK, SolverStep \/ \E c \in Pid : Reap(c)
  PROVE  KernelTypeOK'
<1>1. ASSUME NEW p \in Pid, NEW q \in Pid, Fork(p, q)
      PROVE  KernelTypeOK'
  BY <1>1 DEF KernelTypeOK, Fork, Pid
<1>2. ASSUME NEW p \in Pid, NEW c \in Pid, Wait(p, c)
      PROVE  KernelTypeOK'
  BY <1>2 DEF KernelTypeOK, Wait
<1>3. ASSUME NEW p \in Pid, Exit(p)
      PROVE  KernelTypeOK'
  BY <1>3 DEF KernelTypeOK, Exit
<1>4. ASSUME NEW p \in Pid, Recycle(p)
      PROVE  KernelTypeOK'
  BY <1>4 DEF KernelTypeOK, Recycle
<1>5. ASSUME NEW c \in Pid, Reap(c)
      PROVE  KernelTypeOK'
  BY <1>5 DEF KernelTypeOK, Reap
<1>6. QED  BY <1>1, <1>2, <1>3, <1>4, <1>5 DEF SolverStep

(* Beginning a sample keeps the types of the tree.                         *)
LEMMA ScanType ==
  ASSUME TreeTypeOK, StartScan \/ StartUpdate
  PROVE  TreeTypeOK'
BY DEF TreeTypeOK, StartScan, StartUpdate, Clone, Roots

(* So does each step of a sample.                                          *)
LEMMA SampleType ==
  ASSUME KernelTypeOK, TreeTypeOK, SampleStep
  PROVE  TreeTypeOK'
<1>1. ASSUME NEW p \in Pid, ScanStep(p)
      PROVE  TreeTypeOK'
  BY <1>1 DEF TreeTypeOK, KernelTypeOK, ScanStep, PPid
<1>2. ASSUME NEW p \in Pid, UpdateStep(p)
      PROVE  TreeTypeOK'
  BY <1>2 DEF TreeTypeOK, UpdateStep, Children
<1>3. ASSUME NEW p \in Pid, LoseChild(p)
      PROVE  TreeTypeOK'
  BY <1>3 DEF TreeTypeOK, LoseChild
<1>4. ASSUME NEW p \in Pid, LoseRoot(p)
      PROVE  TreeTypeOK'
  BY <1>4, ScanType DEF LoseRoot
<1>5. CASE SampleComplete
  BY <1>5 DEF TreeTypeOK, SampleComplete
<1>6. QED  BY <1>1, <1>2, <1>3, <1>4, <1>5 DEF SampleStep

-----------------------------------------------------------------------------
(* The shape of the forest.  No order of process ids is needed: that the   *)
(* parent relation has no cycle is stated with sets.                       *)

(* The parent of an existing process is runsolver or a process that runs.  *)
ParentRuns ==
  \A p \in Pid : Exists(p) => parent[p] = Runsolver \/ Alive(parent[p])

(* Every nonempty set of existing processes has a member whose parent is   *)
(* outside the set.                                                        *)
Acyclic ==
  \A T \in SUBSET Pid :
    T # {} /\ (\A p \in T : Exists(p)) => \E p \in T : parent[p] \notin T

Forest == ParentRuns /\ Acyclic

LEMMA ForestFork ==
  ASSUME KernelTypeOK, Forest, NEW p \in Pid, NEW q \in Pid, Fork(p, q)
  PROVE  Forest'
<1> USE DEF KernelTypeOK, Exists, Alive, Runsolver, Pid
<1>1. state[q] = "free" /\ p # q /\ parent'[q] = p
  BY DEF Fork, NextPid
<1>2. \A r \in Pid : r # q => state'[r] = state[r] /\ parent'[r] = parent[r]
  BY DEF Fork
<1>3. state'[q] = "alive" /\ state[p] = "alive"
  BY DEF Fork
<1>4. ParentRuns'
  BY <1>1, <1>2, <1>3 DEF Forest, ParentRuns
<1>5. ASSUME NEW T \in SUBSET Pid, T # {}, \A r \in T : Exists(r)'
      PROVE  \E r \in T : parent'[r] \notin T
  <2>1. CASE q \notin T
    BY <1>2, <1>5, <2>1 DEF Forest, Acyclic
  <2>2. CASE q \in T /\ p \notin T
    BY <1>1, <2>2
  <2>3. CASE q \in T /\ p \in T
    <3>1. PICK r \in T \ {q} : parent[r] \notin T \ {q}
      <4>1. T \ {q} \in SUBSET Pid /\ p \in T \ {q}
        BY <1>1, <2>3
      <4>2. \A r \in T \ {q} : Exists(r)
        BY <1>2, <1>5
      <4>3. QED  BY <4>1, <4>2 DEF Forest, Acyclic
    <3>2. parent[r] # q
      BY <1>1, <1>2, <1>5 DEF Forest, ParentRuns
    <3>3. QED  BY <1>2, <3>1, <3>2
  <2>4. QED  BY <2>1, <2>2, <2>3
<1>6. QED  BY <1>4, <1>5 DEF Forest, Acyclic

LEMMA ForestExit ==
  ASSUME KernelTypeOK, Forest, NEW p \in Pid, Exit(p)
  PROVE  Forest'
<1> USE DEF KernelTypeOK, Exists, Alive, Runsolver, Pid
<1>1. \A r \in Pid : Exists(r)' <=> Exists(r)
  BY DEF Exit
<1>2. \A r \in Pid : parent'[r] = Runsolver \/ (parent'[r] = parent[r] /\ (Exists(r) => parent[r] # p))
  BY DEF Exit
<1>3. ParentRuns'
  BY <1>1, <1>2 DEF Exit, Forest, ParentRuns
<1>4. ASSUME NEW T \in SUBSET Pid, T # {}, \A r \in T : Exists(r)'
      PROVE  \E r \in T : parent'[r] \notin T
  <2>1. PICK r \in T : parent[r] \notin T
    BY <1>1, <1>4 DEF Forest, Acyclic
  <2>2. QED  BY <1>2, <2>1
<1>5. QED  BY <1>3, <1>4 DEF Forest, Acyclic

(* A process that only a Wait or a Reap made disappear was a zombie: it    *)
(* was nobody's parent.                                                    *)
LEMMA ForestGone ==
  ASSUME KernelTypeOK, Forest, NEW c \in Pid, state[c] = "zombie",
         state' = [state EXCEPT ![c] = "gone"], parent' = parent
  PROVE  Forest'
<1> USE DEF KernelTypeOK, Exists, Alive, Runsolver, Pid
<1>1. \A r \in Pid : Exists(r)' => Exists(r)
  OBVIOUS
<1>2. \A r \in Pid : Alive(r) <=> Alive(r)'
  OBVIOUS
<1>3. ParentRuns'
  BY <1>1, <1>2 DEF Forest, ParentRuns
<1>4. Acyclic'
  BY <1>1 DEF Forest, Acyclic
<1>5. QED  BY <1>3, <1>4 DEF Forest

LEMMA ForestStep ==
  ASSUME KernelTypeOK, Forest,
         SolverStep \/ (\E c \in Pid : Reap(c)) \/ (UNCHANGED <<state, parent>>)
  PROVE  Forest'
<1>1. ASSUME NEW p \in Pid, NEW c \in Pid, Wait(p, c)
      PROVE  Forest'
  BY <1>1, ForestGone DEF Wait
<1>2. ASSUME NEW c \in Pid, Reap(c)
      PROVE  Forest'
  BY <1>2, ForestGone DEF Reap
<1>3. ASSUME NEW p \in Pid, Recycle(p)
      PROVE  Forest'
  <2> USE DEF KernelTypeOK, Exists, Alive
  <2>1. \A r \in Pid : Exists(r)' <=> Exists(r)
    BY <1>3 DEF Recycle
  <2>2. \A r \in Pid : Alive(r) <=> Alive(r)'
    BY <1>3 DEF Recycle
  <2>3. ParentRuns'
    BY <1>3, <2>1, <2>2 DEF Forest, ParentRuns, Recycle
  <2>4. Acyclic'
    BY <1>3, <2>1 DEF Forest, Acyclic, Recycle
  <2>5. QED  BY <2>3, <2>4 DEF Forest
<1>4. CASE UNCHANGED <<state, parent>>
  BY <1>4 DEF Forest, ParentRuns, Acyclic, Exists, Alive
<1>5. QED
  BY <1>1, <1>2, <1>3, <1>4, ForestFork, ForestExit DEF SolverStep

(* A forest with a process has a child of runsolver: ECHILD means that     *)
(* nobody is left.                                                         *)
LEMMA NoChildNobody ==
  ASSUME KernelTypeOK, Forest, NoChild
  PROVE  \A p \in Pid : ~ Exists(p)
<1> DEFINE E == {p \in Pid : Exists(p)}
<1> SUFFICES ASSUME E # {} PROVE FALSE
  OBVIOUS
<1>1. PICK p \in E : parent[p] \notin E
  BY DEF Forest, Acyclic
<1>2. parent[p] = Runsolver
  BY <1>1 DEF Forest, ParentRuns, Exists, Alive, KernelTypeOK
<1>3. QED  BY <1>1, <1>2 DEF NoChild, IsChild

-----------------------------------------------------------------------------
(* Pids that do not wrap around.                                           *)

(* A process is older than its children, and no id is used again.          *)
Ordered ==
  \A p \in Pid : /\ state[p] # "foreign"
                 /\ Exists(p) => parent[p] < p

LEMMA OrderedStep ==
  ASSUME ~ PidsWrap, KernelTypeOK, Ordered,
         SolverStep \/ (\E c \in Pid : Reap(c)) \/ (UNCHANGED <<state, parent>>)
  PROVE  Ordered'
<1> USE DEF KernelTypeOK, Ordered, Exists, Alive
<1>1. ASSUME NEW p \in Pid, NEW q \in Pid, Fork(p, q)
      PROVE  Ordered'
  BY <1>1 DEF Fork, NextPid, Pid
<1>2. ASSUME NEW p \in Pid, Exit(p)
      PROVE  Ordered'
  BY <1>2 DEF Exit, Pid, Runsolver
<1>3. ASSUME NEW p \in Pid, NEW c \in Pid, Wait(p, c) \/ Recycle(c) \/ Reap(c)
      PROVE  Ordered'
  BY <1>3 DEF Wait, Recycle, Reap, IsChild
<1>4. CASE UNCHANGED <<state, parent>>
  BY <1>4
<1>5. QED  BY <1>1, <1>2, <1>3, <1>4 DEF SolverStep

-----------------------------------------------------------------------------
(* Sums over processes.                                                    *)
LEMMA PidFinite == IsFiniteSet(Pid)
BY KernelAssumption, FS_Interval DEF Pid

(* A sum of natural numbers is one.                                        *)
LEMMA SumIsNat ==
  ASSUME NEW f, NEW S \in SUBSET Pid, \A p \in S : f[p] \in Nat
  PROVE  SumFunctionOnSet(f, S) \in Nat
<1>1. IsFiniteSet(S) /\ {} \in SUBSET S
  BY PidFinite, FS_Subset
<1>2. SumFunctionOnSet(f, {}) <= SumFunctionOnSet(f, S)
  BY <1>1, SumOfPart
<1>3. SumFunctionOnSet(f, S) \in Int
  BY <1>1, SumIsInt
<1>4. QED  BY <1>2, <1>3, SumEmpty

-----------------------------------------------------------------------------
(* Types.                                                                  *)
TypeOK ==
  /\ KernelTypeOK /\ TreeTypeOK
  /\ own \in [Pid -> Nat] /\ waited \in [Pid -> Nat] /\ data \in [Pid -> Nat]
  /\ childrenTime \in Nat /\ discarded \in Nat
  /\ currentCPUTime \in Nat /\ completedCPUTime \in Nat
  /\ main \in {"wait", "reaped", "ended"}
  /\ thread \in {"loop", "sample", "sampled"}
  /\ stop \in BOOLEAN

LEMMA TypeInit == Init => TypeOK
<1> SUFFICES ASSUME Init PROVE TypeOK
  OBVIOUS
<1>1. KernelTypeOK
  BY KernelAssumption DEF Init, KernelInit, KernelTypeOK, Pid, Runsolver
<1>2. TreeTypeOK
  BY DEF Init, TreeInit, TreeTypeOK
<1>3. QED  BY <1>1, <1>2 DEF Init, TypeOK

(* The steps of the processes are steps of the kernel.                     *)
LEMMA KernelFrame ==
  ASSUME [Next]_vars
  PROVE  SolverStep \/ (\E c \in Pid : Reap(c)) \/ (UNCHANGED kernelVars)
<1> USE DEF SolverStep, ForkOrExit
<1>1. CASE KernelStep
  BY <1>1 DEF KernelStep, Compute, WaitForChild, DiscardChild
<1>2. CASE MainStep
  BY <1>2 DEF MainStep, ReapChild, StoreCompleted, NoMoreChildren
<1>3. CASE WatcherStep
  BY <1>3 DEF WatcherStep, BeginSample, ReadProcess, LoseProcess, AllRead, SumTree,
     CheckCPULimit
<1>4. CASE Ended \/ UNCHANGED vars
  BY <1>4 DEF Ended, vars
<1>5. QED  BY <1>1, <1>2, <1>3, <1>4 DEF Next

(* Those of the sample are steps of the tree.                              *)
LEMMA TreeFrame ==
  ASSUME [Next]_vars
  PROVE  \/ UNCHANGED treeVars
         \/ StartScan \/ StartUpdate
         \/ SampleStep
<1>1. CASE KernelStep
  BY <1>1 DEF KernelStep
<1>2. CASE MainStep
  BY <1>2 DEF MainStep, ReapChild, StoreCompleted, NoMoreChildren
<1>3. CASE WatcherStep
  BY <1>3 DEF WatcherStep, BeginSample, ReadProcess, LoseProcess, AllRead, SumTree,
     CheckCPULimit, SampleStep
<1>4. CASE Ended \/ UNCHANGED vars
  BY <1>4 DEF Ended, vars
<1>5. QED  BY <1>1, <1>2, <1>3, <1>4 DEF Next

LEMMA TypeStep ==
  ASSUME TypeOK, [Next]_vars
  PROVE  TypeOK'
<1>1. KernelTypeOK'
  <2>1. CASE UNCHANGED kernelVars
    BY <2>1 DEF kernelVars, TypeOK, KernelTypeOK
  <2>2. QED  BY <2>1, KernelFrame, KernelType DEF TypeOK
<1>2. TreeTypeOK'
  <2>1. CASE UNCHANGED treeVars
    BY <2>1 DEF treeVars, TypeOK, TreeTypeOK
  <2>2. QED  BY <2>1, TreeFrame, ScanType, SampleType DEF TypeOK
<1>3. SumFunctionOnSet(data, Reached(tree)) \in Nat
  BY SumIsNat DEF TypeOK, Reached
<1> DEFINE Rest == /\ own \in [Pid -> Nat] /\ waited \in [Pid -> Nat]
                   /\ data \in [Pid -> Nat]
                   /\ childrenTime \in Nat /\ discarded \in Nat
                   /\ currentCPUTime \in Nat /\ completedCPUTime \in Nat
                   /\ main \in {"wait", "reaped", "ended"}
                   /\ thread \in {"loop", "sample", "sampled"}
                   /\ stop \in BOOLEAN
<1>4. Rest'
  <2> SUFFICES ASSUME Rest PROVE Rest'
    BY DEF TypeOK
  <2> USE DEF kernelTimes, watcherCpuVars, mainCpuVars
  <2>1. CASE KernelStep
    <3>1. ASSUME NEW p \in Pid, Compute(p) PROVE own' \in [Pid -> Nat]
      BY <3>1 DEF Compute
    <3>2. ASSUME NEW p \in Pid, NEW c \in Pid, WaitForChild(p, c) \/ DiscardChild(p, c)
          PROVE  waited' \in [Pid -> Nat] /\ discarded' \in Nat
      BY <3>2 DEF WaitForChild, DiscardChild
    <3>3. QED
      BY <2>1, <3>1, <3>2 DEF KernelStep, Compute, ForkOrExit, WaitForChild, DiscardChild
  <2>2. CASE MainStep
    BY <2>2 DEF MainStep, ReapChild, StoreCompleted, NoMoreChildren
  <2>3. CASE WatcherStep
    <3>1. ASSUME NEW p \in Pid, ReadProcess(p) PROVE Rest'
      BY <3>1 DEF ReadProcess
    <3>2. CASE SumTree
      BY <1>3, <3>2 DEF SumTree
    <3>3. CASE CheckCPULimit
      BY <3>3 DEF CheckCPULimit
    <3>4. QED
      BY <2>3, <3>1, <3>2, <3>3 DEF WatcherStep, BeginSample, LoseProcess, AllRead
  <2>4. CASE Ended \/ UNCHANGED vars
    BY <2>4 DEF Ended, vars
  <2>5. QED  BY <2>1, <2>2, <2>3, <2>4 DEF Next
<1>5. QED  BY <1>1, <1>2, <1>4 DEF TypeOK

-----------------------------------------------------------------------------
(* Where the time is: what a process used, and what it was credited with,  *)
(* is held by the process until it is reaped, and then by its parent, by   *)
(* runsolver, or by nobody.                                                *)
Time(p) == own[p] + waited[p]
holds == [p \in Pid |-> IF Exists(p) THEN Time(p) ELSE 0]

Fresh == \A p \in Pid : state[p] = "free" => own[p] = 0 /\ waited[p] = 0

Accounted == Total = SumFunctionOnSet(holds, Pid) + childrenTime + discarded

AccountInv ==
  /\ Forest /\ Fresh /\ Accounted
  /\ main = "ended" => \A p \in Pid : ~ Exists(p)

LEMMA HoldsType ==
  ASSUME TypeOK
  PROVE  /\ \A p \in Pid : own[p] \in Nat /\ waited[p] \in Nat /\ holds[p] \in Nat
         /\ Total \in Nat /\ SumFunctionOnSet(holds, Pid) \in Nat
<1>1. \A p \in Pid : own[p] \in Nat /\ waited[p] \in Nat /\ holds[p] \in Nat
  BY DEF TypeOK, holds, Time
<1>2. QED  BY <1>1, SumIsNat DEF Total

LEMMA FreshStep ==
  ASSUME TypeOK, Fresh, [Next]_vars
  PROVE  Fresh'
<1> USE DEF TypeOK, KernelTypeOK, Fresh
<1>1. ASSUME NEW p \in Pid, Compute(p) PROVE Fresh'
  BY <1>1 DEF Compute, Alive, kernelVars
<1>2. ASSUME ForkOrExit PROVE Fresh'
  BY <1>2 DEF ForkOrExit, Fork, Exit, kernelTimes
<1>3. ASSUME NEW p \in Pid, NEW c \in Pid, WaitForChild(p, c) \/ DiscardChild(p, c)
      PROVE  Fresh'
  BY <1>3 DEF WaitForChild, DiscardChild, Wait, Alive
<1>4. CASE MainStep
  BY <1>4 DEF MainStep, ReapChild, StoreCompleted, NoMoreChildren, Reap, kernelVars,
     kernelTimes
<1>5. CASE WatcherStep
  BY <1>5 DEF WatcherStep, BeginSample, ReadProcess, LoseProcess, AllRead, SumTree,
     CheckCPULimit, kernelVars, kernelTimes
<1>6. CASE Ended \/ UNCHANGED vars
  BY <1>6 DEF Ended, vars, kernelVars, kernelTimes
<1>7. QED  BY <1>1, <1>2, <1>3, <1>4, <1>5, <1>6 DEF Next, KernelStep

(* A process that is reaped holds nothing any more.                        *)
LEMMA ReapedHoldsNothing ==
  ASSUME TypeOK, TypeOK', NEW c \in Pid, state[c] = "zombie",
         state' = [state EXCEPT ![c] = "gone"], UNCHANGED <<own, waited>>
  PROVE  SumFunctionOnSet(holds', Pid) = SumFunctionOnSet(holds, Pid) - Time(c)
<1>1. holds[c] = Time(c) /\ holds'[c] = 0
  BY DEF holds, Time, Exists, TypeOK, KernelTypeOK
<1>2. \A q \in Pid \ {c} : holds'[q] = holds[q]
  BY DEF holds, Time, Exists, TypeOK, KernelTypeOK
<1>3. \A q \in Pid : holds[q] \in Int
  BY HoldsType
<1> HIDE DEF holds
<1>4. SumFunctionOnSet(holds', Pid) = SumFunctionOnSet(holds, Pid) - holds[c] + holds'[c]
  BY <1>1, <1>2, <1>3, PidFinite, SumChange
<1>5. QED  BY <1>1, <1>4, HoldsType

LEMMA AccountedStep ==
  ASSUME TypeOK, TypeOK', AccountInv, [Next]_vars
  PROVE  Accounted'
<1> DEFINE Held == SumFunctionOnSet(holds, Pid)
<1> USE DEF TypeOK, KernelTypeOK
<1>1. /\ Total \in Nat /\ Held \in Nat
      /\ \A q \in Pid : own[q] \in Int /\ waited[q] \in Int /\ holds[q] \in Int
  BY HoldsType
<1>2. Total = Held + childrenTime + discarded
  BY DEF AccountInv, Accounted
<1>3. ASSUME \A q \in Pid : holds'[q] = holds[q], UNCHANGED <<own, childrenTime, discarded>>
      PROVE  Accounted'
  <2>1. Held' = Held
    BY <1>1, <1>3, PidFinite, SumSame
  <2>2. QED  BY <1>2, <1>3, <2>1 DEF Accounted, Total
<1>4. ASSUME NEW p \in Pid, Compute(p) PROVE Accounted'
  <2>1. own'[p] = own[p] + 1 /\ \A q \in Pid \ {p} : own'[q] = own[q]
    BY <1>4 DEF Compute
  <2>2. Total' = Total - own[p] + own'[p]
    BY <1>1, <2>1, PidFinite, SumChange DEF Total
  <2>3. holds'[p] = holds[p] + 1 /\ \A q \in Pid \ {p} : holds'[q] = holds[q]
    BY <1>4, <2>1 DEF Compute, holds, Time, Exists, Alive, kernelVars
  <2>4. Held' = Held - holds[p] + holds'[p]
    <3> HIDE DEF holds, TypeOK, KernelTypeOK
    <3>1. holds'[p] \in Int
      BY <1>1, <2>3
    <3>2. /\ \A q \in Pid : holds[q] \in Int
          /\ \A q \in Pid \ {p} : holds'[q] = holds[q]
      BY <1>1, <2>3
    <3>3. QED  BY <3>1, <3>2, PidFinite, SumChange
  <2> HIDE DEF Held, TypeOK
  <2>5. UNCHANGED <<childrenTime, discarded>> /\ childrenTime \in Nat /\ discarded \in Nat
    BY <1>4 DEF Compute, TypeOK
  <2>6. Accounted' <=> Total' = Held' + childrenTime' + discarded'
    BY DEF Accounted, Held
  <2>7. QED  BY <1>1, <1>2, <2>1, <2>2, <2>3, <2>4, <2>5, <2>6
<1>5. ASSUME NEW p \in Pid, NEW q \in Pid, Fork(p, q), UNCHANGED kernelTimes
      PROVE  Accounted'
  <2>1. state[q] = "free" /\ Time(q) = 0 /\ Time(q)' = 0
    BY <1>5 DEF Fork, NextPid, AccountInv, Fresh, Time, kernelTimes
  <2>2. \A r \in Pid : holds'[r] = holds[r]
    BY <1>5, <2>1 DEF Fork, holds, Time, Exists, kernelTimes
  <2>3. QED  BY <1>3, <1>5, <2>2 DEF kernelTimes
<1>6. ASSUME NEW p \in Pid, Exit(p), UNCHANGED kernelTimes
      PROVE  Accounted'
  <2>1. \A r \in Pid : holds'[r] = holds[r]
    BY <1>6 DEF Exit, Alive, holds, Time, Exists, kernelTimes
  <2>2. QED  BY <1>3, <1>6, <2>1 DEF kernelTimes
<1>7. ASSUME NEW p \in Pid, NEW c \in Pid, WaitForChild(p, c)
      PROVE  Accounted'
  <2> DEFINE g == [holds EXCEPT ![c] = 0]
  <2>1. p # c /\ state[c] = "zombie" /\ state[p] = "alive"
    BY <1>7 DEF WaitForChild, Wait, Alive
  <2>2. holds[c] = Time(c) /\ Time(c) \in Int
    BY <1>1, <2>1 DEF holds, Time, Exists
  <2>3. /\ g[c] = 0
        /\ \A q \in Pid \ {c} : g[q] = holds[q]
        /\ \A q \in Pid : g[q] \in Int
    BY <1>1 DEF holds
  <2>4. holds'[p] = holds[p] + Time(c)
    BY <1>7, <2>1 DEF WaitForChild, Wait, Alive, holds, Time, Exists
  <2>5. \A q \in Pid \ {p} : holds'[q] = g[q]
    BY <1>7, <2>1 DEF WaitForChild, Wait, Alive, holds, Time, Exists
  <2>6. g[p] = holds[p] /\ holds'[p] \in Int
    BY <1>1, <2>1, <2>2, <2>3, <2>4
  <2>7. UNCHANGED <<own, childrenTime, discarded>>
    BY <1>7 DEF WaitForChild
  <2> HIDE DEF g, holds, TypeOK, KernelTypeOK
  <2>8. SumFunctionOnSet(g, Pid) = Held - holds[c] + g[c]
    BY <1>1, <2>3, PidFinite, SumChange
  <2>9. SumFunctionOnSet(holds', Pid) = SumFunctionOnSet(g, Pid) - g[p] + holds'[p]
    <3>1. (\A q \in Pid : g[q] \in Int) /\ holds'[p] \in Int
      BY <2>3, <2>6
    <3>2. QED  BY <2>5, <3>1, PidFinite, SumChange
  <2>10. Held' = Held
    BY <1>1, <2>2, <2>3, <2>4, <2>6, <2>8, <2>9
  <2>11. QED  BY <1>2, <2>7, <2>10 DEF Accounted, Total
<1>8. ASSUME NEW p \in Pid, NEW c \in Pid, DiscardChild(p, c)
      PROVE  Accounted'
  <2>1. /\ state[c] = "zombie" /\ state' = [state EXCEPT ![c] = "gone"]
        /\ UNCHANGED <<own, waited, childrenTime>>
        /\ discarded' = discarded + own[c] + waited[c]
    BY <1>8 DEF DiscardChild, Wait
  <2>2. Held' = Held - Time(c)
    BY <2>1, ReapedHoldsNothing
  <2>3. QED
    BY <1>1, <1>2, <2>1, <2>2 DEF Accounted, Total, Time
<1>9. ASSUME NEW c \in Pid, ReapChild(c)
      PROVE  Accounted'
  <2>1. /\ state[c] = "zombie" /\ state' = [state EXCEPT ![c] = "gone"]
        /\ UNCHANGED <<own, waited, discarded>>
        /\ childrenTime' = childrenTime + own[c] + waited[c]
    BY <1>9 DEF ReapChild, Reap
  <2>2. Held' = Held - Time(c)
    BY <2>1, ReapedHoldsNothing
  <2>3. QED
    BY <1>1, <1>2, <2>1, <2>2 DEF Accounted, Total, Time
<1>10. ASSUME UNCHANGED <<kernelVars, kernelTimes>>
       PROVE  Accounted'
  BY <1>2, <1>10 DEF Accounted, Total, holds, Time, Exists, kernelVars, kernelTimes
<1>11. CASE KernelStep
  BY <1>4, <1>5, <1>6, <1>7, <1>8, <1>11 DEF KernelStep, ForkOrExit
<1>12. CASE MainStep
  BY <1>9, <1>10, <1>12 DEF MainStep, StoreCompleted, NoMoreChildren
<1>13. CASE WatcherStep
  BY <1>10, <1>13 DEF WatcherStep, BeginSample, ReadProcess, LoseProcess, AllRead,
     SumTree, CheckCPULimit
<1>14. CASE Ended \/ UNCHANGED vars
  BY <1>10, <1>14 DEF Ended, vars
<1>15. QED  BY <1>11, <1>12, <1>13, <1>14 DEF Next

(* ECHILD means that nobody is left, and nobody comes back.                *)
LEMMA EndedStep ==
  ASSUME TypeOK, AccountInv, [Next]_vars, main' = "ended"
  PROVE  \A p \in Pid : ~ Exists(p)'
<1> USE DEF TypeOK, KernelTypeOK
<1>1. CASE NoMoreChildren
  <2>1. \A p \in Pid : ~ Exists(p)
    BY <1>1, NoChildNobody DEF NoMoreChildren, AccountInv
  <2>2. QED  BY <1>1, <2>1 DEF NoMoreChildren, kernelVars, Exists
<1>2. CASE ~ NoMoreChildren
  <2>1. main = "ended"
    BY <1>2 DEF Next, vars, KernelStep, MainStep, ReapChild, StoreCompleted, WatcherStep,
       BeginSample, ReadProcess, LoseProcess, AllRead, SumTree, CheckCPULimit, Ended,
       mainCpuVars
  <2>2. \A p \in Pid : ~ Exists(p)
    BY <2>1 DEF AccountInv
  <2>3. UNCHANGED state
    <3>1. CASE KernelStep
      BY <2>2, <3>1 DEF KernelStep, Compute, ForkOrExit, Fork, Exit, WaitForChild,
         DiscardChild, Wait, Alive, Exists
    <3>2. CASE MainStep
      BY <2>1, <3>2 DEF MainStep, ReapChild, StoreCompleted, NoMoreChildren
    <3>3. CASE WatcherStep
      BY <3>3 DEF WatcherStep, BeginSample, ReadProcess, LoseProcess, AllRead, SumTree,
         CheckCPULimit, kernelVars
    <3>4. CASE Ended \/ UNCHANGED vars
      BY <3>4 DEF Ended, vars, kernelVars
    <3>5. QED  BY <3>1, <3>2, <3>3, <3>4 DEF Next
  <2>4. QED  BY <2>2, <2>3 DEF Exists
<1>3. QED  BY <1>1, <1>2

LEMMA AccountInit == Init => AccountInv
<1> SUFFICES ASSUME Init PROVE AccountInv
  OBVIOUS
<1> USE DEF Init, KernelInit
<1>1. Forest
  <2>1. \A p \in Pid : parent[p] = Runsolver
    OBVIOUS
  <2>2. Runsolver \notin Pid
    BY DEF Runsolver, Pid
  <2>3. ParentRuns
    BY <2>1 DEF ParentRuns
  <2>4. Acyclic
    BY <2>1, <2>2 DEF Acyclic
  <2>5. QED  BY <2>3, <2>4 DEF Forest
<1>2. Fresh /\ main # "ended"
  BY DEF Fresh
<1>3. (\A p \in Pid : own[p] = 0) /\ (\A p \in Pid : holds[p] = 0)
  BY DEF holds, Time
<1>4. Total = 0 /\ SumFunctionOnSet(holds, Pid) = 0
  BY <1>3, PidFinite, SumZero DEF Total
<1>5. Accounted
  BY <1>4 DEF Accounted
<1>6. QED  BY <1>1, <1>2, <1>5 DEF AccountInv

LEMMA AccountStep ==
  ASSUME TypeOK, TypeOK', AccountInv, [Next]_vars
  PROVE  AccountInv'
<1>1. Forest'
  BY KernelFrame, ForestStep DEF TypeOK, AccountInv, kernelVars
<1>2. Fresh'
  BY FreshStep DEF AccountInv
<1>3. Accounted'
  BY AccountedStep
<1>4. main' = "ended" => \A p \in Pid : ~ Exists(p)'
  BY EndedStep
<1>5. QED  BY <1>1, <1>2, <1>3, <1>4 DEF AccountInv

(* Every variable of the accounting keeps its type, for any number of      *)
(* processes.                                                              *)
THEOREM TypeCorrect == Spec => []TypeOK
<1>1. TypeOK /\ [Next]_vars => TypeOK'
  BY TypeStep
<1>2. QED  BY <1>1, TypeInit, PTL DEF Spec

(* No unit of CPU time is lost or counted twice, wherever it is.           *)
THEOREM EverythingIsAccounted == Spec => []AccountInv
<1>1. TypeOK /\ TypeOK' /\ AccountInv /\ [Next]_vars => AccountInv'
  BY AccountStep
<1>2. QED  BY <1>1, TypeCorrect, AccountInit, PTL DEF Spec

(* The time of the report (RUSAGE_CHILDREN at the end, runsolver.cc) is    *)
(* what all the processes used, but for the children of those that ignore  *)
(* SIGCHLD, however many processes there are and whoever waits for whom.   *)
THEOREM ReportIsExact == Spec => []ReportExact
<1>1. TypeOK /\ AccountInv => ReportExact
  <2> SUFFICES ASSUME TypeOK, AccountInv, main = "ended"
               PROVE  SolverCPUTime + discarded = Total
    BY DEF ReportExact
  <2>1. \A p \in Pid : holds[p] = 0
    BY DEF AccountInv, holds
  <2>2. SumFunctionOnSet(holds, Pid) = 0
    BY <2>1, PidFinite, SumZero
  <2>3. QED
    BY <2>2 DEF AccountInv, Accounted, SolverCPUTime, TypeOK
<1>2. QED  BY <1>1, TypeCorrect, EverythingIsAccounted, PTL

-----------------------------------------------------------------------------
(* A sample.  R is what was read so far and counts with what was read of   *)
(* it; everybody else counts with what it has now.  A process read later   *)
(* never adds what a process read before already reported, because a       *)
(* process is read only after the process it hangs from.                   *)
Hangs(c, R) == tree[c] = Runsolver \/ tree[c] \in R

Counted(R) == [p \in Pid |-> IF p \in R THEN data[p] ELSE holds[p]]

(* The tree is older than the forest: an orphan has moved to runsolver.    *)
TreeShape ==
  \A c \in Pid : tree[c] # NoData =>
    /\ state[c] # "free"
    /\ tree[c] < c /\ tree[c] # Somebody
    /\ Exists(c) => parent[c] \in {tree[c], Runsolver}

ReadSoFar(R) ==
  /\ R \cap todo = {}
  /\ \A c \in Pid : Hangs(c, R) => c \in R \cup todo
  /\ \A c \in R : Hangs(c, R)
  /\ sampling = "scan" =>
       \A c \in todo : tree[c] = NoData /\ \A q \in Pid : c < q => q \in todo
  /\ sampling = "update" => \A c \in todo : Hangs(c, R)
  /\ sampling = "ready" => todo = {}
  /\ SumFunctionOnSet(Counted(R), Pid) <= Total

SampleInv ==
  /\ Ordered /\ TreeShape
  /\ currentCPUTime <= Total
  /\ thread = "sample" => \E R \in SUBSET Pid : ReadSoFar(R)

LEMMA CountedType ==
  ASSUME TypeOK, NEW R \in SUBSET Pid
  PROVE  /\ \A p \in Pid : Counted(R)[p] \in Nat
         /\ SumFunctionOnSet(Counted(R), Pid) \in Nat
<1>1. \A p \in Pid : Counted(R)[p] \in Nat
  BY HoldsType DEF TypeOK, Counted
<1>2. QED  BY <1>1, SumIsNat

LEMMA CountedTypeNext ==
  ASSUME NEW R \in SUBSET Pid, TypeOK'
  PROVE  /\ \A p \in Pid : holds'[p] \in Nat /\ Counted(R)'[p] \in Nat
         /\ Total' \in Nat /\ SumFunctionOnSet(Counted(R)', Pid) \in Nat
<1>1. \A p \in Pid : own'[p] \in Nat /\ holds'[p] \in Nat
  BY DEF TypeOK, holds, Time
<1>2. \A p \in Pid : Counted(R)'[p] \in Nat
  BY <1>1 DEF TypeOK, Counted
<1>3. SumFunctionOnSet(Counted(R)', Pid) \in Nat
  BY <1>2, SumIsNat
<1>4. SumFunctionOnSet(own', Pid) \in Nat
  BY <1>1, SumIsNat
<1>5. QED  BY <1>1, <1>2, <1>3, <1>4 DEF Total

(* No process loses time, so the total never shrinks.                      *)
LEMMA TotalGrows ==
  ASSUME TypeOK, TypeOK', [Next]_vars
  PROVE  Total <= Total'
<1>1. \A p \in Pid : own[p] \in Int /\ own'[p] \in Int /\ own[p] <= own'[p]
  <2>1. ASSUME NEW p \in Pid, Compute(p) PROVE \A q \in Pid : own[q] <= own'[q]
    BY <2>1 DEF Compute, TypeOK
  <2>2. CASE UNCHANGED own
    BY <2>2 DEF TypeOK
  <2>3. UNCHANGED own \/ \E p \in Pid : Compute(p)
    BY DEF Next, vars, KernelStep, ForkOrExit, WaitForChild, DiscardChild, MainStep,
       ReapChild, StoreCompleted, NoMoreChildren, WatcherStep, BeginSample, ReadProcess,
       LoseProcess, AllRead, SumTree, CheckCPULimit, Ended, kernelTimes
  <2>4. QED  BY <2>1, <2>2, <2>3 DEF TypeOK
<1>2. QED  BY <1>1, PidFinite, SumMonotone DEF Total

(* The shape of the tree survives what the solver does...                  *)
LEMMA ShapeOfForest ==
  ASSUME KernelTypeOK, TreeTypeOK, TreeShape, UNCHANGED tree,
         SolverStep \/ (\E c \in Pid : Reap(c)) \/ (UNCHANGED <<state, parent>>)
  PROVE  TreeShape'
<1> USE DEF KernelTypeOK, TreeTypeOK, TreeShape, Exists, Alive
<1>1. ASSUME NEW p \in Pid, NEW q \in Pid, Fork(p, q)
      PROVE  TreeShape'
  BY <1>1 DEF Fork, NextPid
<1>2. ASSUME NEW p \in Pid, Exit(p)
      PROVE  TreeShape'
  BY <1>2 DEF Exit
<1>3. ASSUME NEW p \in Pid, NEW c \in Pid, Wait(p, c) \/ Recycle(c) \/ Reap(c)
      PROVE  TreeShape'
  BY <1>3 DEF Wait, Recycle, Reap, IsChild
<1>4. CASE UNCHANGED <<state, parent>>
  BY <1>4
<1>5. QED  BY <1>1, <1>2, <1>3, <1>4 DEF SolverStep

(* ... and what a sample does.                                             *)
LEMMA ShapeOfSample ==
  ASSUME KernelTypeOK, TreeTypeOK, Ordered, TreeShape, UNCHANGED kernelVars,
         StartScan \/ StartUpdate \/ SampleStep
  PROVE  TreeShape'
<1> USE DEF KernelTypeOK, TreeTypeOK, TreeShape, Exists, Alive, kernelVars
<1>1. CASE StartScan \/ \E p \in Pid : LoseRoot(p)
  BY <1>1 DEF StartScan, LoseRoot
<1>2. CASE StartUpdate
  BY <1>2 DEF StartUpdate, Clone
<1>3. ASSUME NEW p \in Pid, ScanStep(p)
      PROVE  TreeShape'
  <2>1. CASE Readable(p)
    <3>1. Exists(p) /\ tree' = [tree EXCEPT ![p] = parent[p]] /\ parent[p] < p
      BY <1>3, <2>1 DEF ScanStep, Ordered, Readable, PPid
    <3>2. parent[p] # Somebody
      BY DEF Pid, Runsolver, Somebody
    <3>3. QED  BY <3>1, <3>2
  <2>2. CASE ~ Readable(p)
    BY <1>3, <2>2 DEF ScanStep
  <2>3. QED  BY <2>1, <2>2
<1>4. ASSUME NEW p \in Pid, UpdateStep(p) \/ LoseChild(p)
      PROVE  TreeShape'
  BY <1>4 DEF UpdateStep, LoseChild
<1>5. CASE SampleComplete
  BY <1>5 DEF SampleComplete
<1>6. QED  BY <1>1, <1>2, <1>3, <1>4, <1>5 DEF SampleStep

(* What the processes do meanwhile adds nothing that is not used.          *)
LEMMA CountedNoMore ==
  ASSUME TypeOK, TypeOK', NEW R \in SUBSET Pid,
         SumFunctionOnSet(Counted(R), Pid) <= Total,
         \A q \in Pid : Counted(R)'[q] <= Counted(R)[q],
         Total <= Total'
  PROVE  SumFunctionOnSet(Counted(R), Pid)' <= Total'
<1>1. /\ \A q \in Pid : Counted(R)[q] \in Int
      /\ SumFunctionOnSet(Counted(R), Pid) \in Int /\ Total \in Int
  BY CountedType, HoldsType
<1>2. /\ \A q \in Pid : Counted(R)'[q] \in Int
      /\ SumFunctionOnSet(Counted(R)', Pid) \in Int /\ Total' \in Int
  BY CountedTypeNext
<1> DEFINE f == Counted(R)
           g == Counted(R)'
<1>3. \A q \in Pid : f[q] \in Int /\ g[q] \in Int /\ g[q] <= f[q]
  BY <1>1, <1>2
<1> HIDE DEF f, g
<1>4. SumFunctionOnSet(g, Pid) <= SumFunctionOnSet(f, Pid)
  BY <1>3, PidFinite, SumMonotone
<1>5. QED  BY <1>1, <1>2, <1>4 DEF f, g

LEMMA CountedStep ==
  ASSUME TypeOK, TypeOK', AccountInv, Ordered, TreeShape,
         NEW R \in SUBSET Pid, ReadSoFar(R),
         [Next]_vars, UNCHANGED <<treeVars, watcherCpuVars>>
  PROVE  SumFunctionOnSet(Counted(R), Pid)' <= Total'
<1> USE DEF TypeOK, KernelTypeOK, TreeTypeOK, watcherCpuVars, treeVars
<1> DEFINE f == Counted(R)
           g == Counted(R)'
<1>1. /\ SumFunctionOnSet(f, Pid) <= Total /\ Total <= Total'
      /\ Total \in Int /\ Total' \in Int
      /\ \A q \in Pid : f[q] \in Int /\ g[q] \in Int /\ holds[q] \in Int /\ holds'[q] \in Int
      /\ SumFunctionOnSet(f, Pid) \in Int /\ SumFunctionOnSet(g, Pid) \in Int
  <2>1. Total <= Total'
    BY TotalGrows
  <2>2. /\ Total \in Int /\ SumFunctionOnSet(f, Pid) \in Int
        /\ \A q \in Pid : f[q] \in Int /\ holds[q] \in Int
    BY CountedType, HoldsType
  <2>3. /\ Total' \in Int /\ SumFunctionOnSet(g, Pid) \in Int
        /\ \A q \in Pid : g[q] \in Int /\ holds'[q] \in Int
    <3>1. /\ \A q \in Pid : holds'[q] \in Nat /\ g[q] \in Nat
          /\ Total' \in Nat /\ SumFunctionOnSet(g, Pid) \in Nat
      BY CountedTypeNext
    <3> HIDE DEF g
    <3>2. QED  BY <3>1
  <2>4. QED  BY <2>1, <2>2, <2>3 DEF ReadSoFar
<1>2. \A q \in Pid : /\ f[q] = IF q \in R THEN data[q] ELSE holds[q]
                     /\ g[q] = IF q \in R THEN data[q] ELSE holds'[q]
  BY DEF Counted
<1>3. ASSUME \A q \in Pid : holds'[q] <= holds[q]
      PROVE  SumFunctionOnSet(g, Pid) <= Total'
  <2>1. \A q \in Pid : g[q] <= f[q]
    BY <1>1, <1>2, <1>3
  <2>2. QED  BY <1>1, <2>1, CountedNoMore
<1>4. ASSUME NEW p \in Pid, Compute(p)
      PROVE  SumFunctionOnSet(g, Pid) <= Total'
  <2>1. own'[p] = own[p] + 1 /\ \A q \in Pid \ {p} : own'[q] = own[q]
    BY <1>4 DEF Compute
  <2>2. Total' = Total + 1
    <3>1. (\A q \in Pid : own[q] \in Int) /\ own'[p] \in Int
      OBVIOUS
    <3>2. Total' = Total - own[p] + own'[p]
      BY <2>1, <3>1, PidFinite, SumChange DEF Total
    <3>3. QED  BY <1>1, <2>1, <3>1, <3>2
  <2>3. holds'[p] = holds[p] + 1 /\ \A q \in Pid \ {p} : holds'[q] = holds[q]
    BY <1>4, <2>1 DEF Compute, holds, Time, Exists, Alive, kernelVars
  <2>4. g[p] <= f[p] + 1 /\ \A q \in Pid \ {p} : g[q] = f[q]
    BY <1>1, <1>2, <2>3
  <2> HIDE DEF f, g, TypeOK, KernelTypeOK, TreeTypeOK
  <2>5. /\ \A q \in Pid : f[q] \in Int
        /\ g[p] \in Int
    BY <1>1
  <2>6. SumFunctionOnSet(g, Pid) = SumFunctionOnSet(f, Pid) - f[p] + g[p]
    BY <2>4, <2>5, PidFinite, SumChange
  <2>7. QED  BY <1>1, <2>2, <2>4, <2>5, <2>6
<1>5. ASSUME NEW p \in Pid, NEW q \in Pid, Fork(p, q), UNCHANGED kernelTimes
      PROVE  SumFunctionOnSet(g, Pid) <= Total'
  <2>1. state[q] = "free" /\ Time(q) = 0 /\ Time(q)' = 0
    BY <1>5 DEF Fork, NextPid, AccountInv, Fresh, Time, kernelTimes
  <2>2. \A r \in Pid : holds'[r] = holds[r]
    BY <1>5, <2>1 DEF Fork, holds, Time, Exists, kernelTimes
  <2>3. QED  BY <1>1, <1>3, <2>2
<1>6. ASSUME NEW p \in Pid, Exit(p), UNCHANGED kernelTimes
      PROVE  SumFunctionOnSet(g, Pid) <= Total'
  <2>1. \A r \in Pid : holds'[r] = holds[r]
    BY <1>6 DEF Exit, Alive, holds, Time, Exists, kernelTimes
  <2>2. QED  BY <1>1, <1>3, <2>1
<1>7. ASSUME NEW p \in Pid, NEW c \in Pid, WaitForChild(p, c)
      PROVE  SumFunctionOnSet(g, Pid) <= Total'
  <2>1. p # c /\ state[c] = "zombie" /\ state[p] = "alive" /\ parent[c] = p
    BY <1>7 DEF WaitForChild, Wait, Alive
  <2>2. holds'[p] = holds[p] + Time(c) /\ holds'[c] = 0 /\ holds[c] = Time(c)
    BY <1>7, <2>1 DEF WaitForChild, Wait, Alive, holds, Time, Exists
  <2>3. \A q \in Pid \ {p, c} : holds'[q] = holds[q]
    BY <1>7, <2>1 DEF WaitForChild, Wait, Alive, holds, Time, Exists
  <2>4. CASE p \in R
    <3>1. \A q \in Pid : g[q] <= f[q]
      <4>1. Time(c) >= 0
        BY DEF Time
      <4>2. \A q \in Pid \ {p} : holds'[q] <= holds[q]
        BY <1>1, <2>2, <2>3, <4>1
      <4>3. QED  BY <1>1, <1>2, <2>4, <4>2
    <3>2. QED  BY <1>1, <3>1, CountedNoMore
  <2>5. CASE p \notin R
    (* Then c was not read either: it hangs from p.                        *)
    <3>1. c \notin R
      <4>1. Runsolver \notin Pid /\ NoData \notin Pid /\ NoData # Runsolver
        BY DEF Runsolver, NoData, Pid
      <4>2. c \in R => tree[c] = Runsolver \/ tree[c] \in R
        BY DEF ReadSoFar, Hangs
      <4>3. tree[c] # NoData => p \in {tree[c], Runsolver}
        BY <2>1 DEF TreeShape, Exists
      <4>4. QED
        BY <2>5, <4>1, <4>2, <4>3
    <3> DEFINE h == [f EXCEPT ![c] = 0]
    <3>2. h[c] = 0 /\ (\A q \in Pid \ {c} : h[q] = f[q]) /\ (\A q \in Pid : h[q] \in Int)
      <4>1. f = [q \in Pid |-> f[q]]
        BY DEF Counted
      <4> HIDE DEF f
      <4>2. QED  BY <1>1, <4>1
    <3>3. \A q \in Pid \ {p} : g[q] = h[q]
      BY <1>2, <2>2, <2>3, <3>1, <3>2
    <3>4. /\ f[c] = Time(c) /\ f[p] = holds[p] /\ h[p] = holds[p]
          /\ g[p] = holds[p] + Time(c)
      BY <1>2, <2>1, <2>2, <2>5, <3>1, <3>2
    <3> HIDE DEF f, g, h, TypeOK, KernelTypeOK, TreeTypeOK
    <3>5. (\A q \in Pid : f[q] \in Int) /\ h[c] \in Int /\ g[p] \in Int
      BY <1>1, <3>2
    <3>6. SumFunctionOnSet(h, Pid) = SumFunctionOnSet(f, Pid) - f[c] + h[c]
      <4>1. \A q \in Pid \ {c} : h[q] = f[q]
        BY <3>2
      <4>2. QED  BY <3>5, <4>1, PidFinite, SumChange
    <3>7. \A q \in Pid : h[q] \in Int
      BY <3>2
    <3>8. SumFunctionOnSet(g, Pid) = SumFunctionOnSet(h, Pid) - h[p] + g[p]
      <4>1. g[p] \in Int
        BY <3>5
      <4>2. QED  BY <3>3, <3>7, <4>1, PidFinite, SumChange
    <3>9. holds[p] \in Int /\ f[c] \in Int
      BY <1>1
    <3>10. QED  BY <1>1, <3>2, <3>4, <3>6, <3>8, <3>9
  <2>6. QED  BY <2>4, <2>5
<1>8. ASSUME NEW c \in Pid, state[c] = "zombie", state' = [state EXCEPT ![c] = "gone"],
             UNCHANGED <<own, waited>>
      PROVE  SumFunctionOnSet(g, Pid) <= Total'
  <2>1. \A q \in Pid : holds'[q] <= holds[q]
    BY <1>8 DEF holds, Time, Exists
  <2>2. QED  BY <1>3, <2>1
<1>9. ASSUME UNCHANGED <<kernelVars, own, waited>>
      PROVE  SumFunctionOnSet(g, Pid) <= Total'
  <2>1. \A q \in Pid : holds'[q] = holds[q]
    BY <1>9 DEF holds, Time, Exists, kernelVars
  <2>2. QED  BY <1>1, <1>3, <2>1
<1>10. CASE KernelStep
  <2>1. ASSUME NEW p \in Pid, NEW c \in Pid, DiscardChild(p, c)
        PROVE  SumFunctionOnSet(g, Pid) <= Total'
    BY <1>8, <2>1 DEF DiscardChild, Wait
  <2>2. QED
    BY <1>4, <1>5, <1>6, <1>7, <1>10, <2>1 DEF KernelStep, ForkOrExit
<1>11. CASE MainStep
  <2>1. ASSUME NEW c \in Pid, ReapChild(c)
        PROVE  SumFunctionOnSet(g, Pid) <= Total'
    BY <1>8, <2>1 DEF ReapChild, Reap
  <2>2. QED
    BY <1>9, <1>11, <2>1 DEF MainStep, StoreCompleted, NoMoreChildren, kernelTimes
<1>12. CASE WatcherStep
  BY <1>9, <1>12 DEF WatcherStep, BeginSample, ReadProcess, LoseProcess, AllRead, SumTree,
     CheckCPULimit, kernelTimes
<1>13. CASE Ended \/ UNCHANGED vars
  BY <1>9, <1>13 DEF Ended, vars, kernelTimes
<1>14. QED  BY <1>10, <1>11, <1>12, <1>13 DEF Next

(* A sample begins with nothing read: everybody counts with what it has.   *)
LEMMA SampleBegins ==
  ASSUME TypeOK, TypeOK', AccountInv, UNCHANGED <<kernelVars, kernelTimes>>,
         \/ StartScan
         \/ StartUpdate
  PROVE  ReadSoFar({})'
<1> USE DEF TypeOK, KernelTypeOK, TreeTypeOK, kernelVars
<1>1. SumFunctionOnSet(Counted({})', Pid) <= Total'
  <2>1. SumFunctionOnSet(holds, Pid) <= Total
    BY HoldsType DEF AccountInv, Accounted
  <2>2. \A q \in Pid : holds[q] \in Int /\ Counted({})'[q] = holds[q]
    BY HoldsType DEF Counted, holds, Time, Exists, kernelTimes
  <2>3. SumFunctionOnSet(Counted({})', Pid) = SumFunctionOnSet(holds, Pid)
    BY <2>2, PidFinite, SumSame
  <2>4. Total' = Total
    BY DEF Total, kernelTimes
  <2>5. QED  BY <2>1, <2>3, <2>4
<1>2. \A c \in Pid : Hangs(c, {})' => c \in todo'
  BY DEF StartScan, StartUpdate, Clone, Roots, Hangs, NoData, Runsolver
<1>3. sampling' = "scan" =>
        \A c \in todo' : tree'[c] = NoData /\ \A q \in Pid : c < q => q \in todo'
  BY DEF StartScan, StartUpdate
<1>4. sampling' = "update" => \A c \in todo' : Hangs(c, {})'
  <2> SUFFICES ASSUME StartUpdate, NEW c \in Roots(tree)
               PROVE  tree'[c] = Runsolver
    BY DEF StartScan, StartUpdate, Hangs
  <2>1. c \in Reached(tree)
    BY DEF Reached, Roots, TraversalClosed
  <2>2. QED  BY <2>1 DEF StartUpdate, Clone, Roots
<1>5. sampling' # "ready"
  BY DEF StartScan, StartUpdate
<1>6. QED  BY <1>1, <1>2, <1>3, <1>4, <1>5 DEF ReadSoFar

(* A process that is read counts with what it has at that moment.          *)
LEMMA CountedWhenRead ==
  ASSUME TypeOK, TypeOK', NEW R \in SUBSET Pid, NEW p \in Pid, Exists(p),
         data' = [data EXCEPT ![p] = own[p] + waited[p]],
         UNCHANGED <<kernelVars, kernelTimes>>, p \notin R,
         SumFunctionOnSet(Counted(R), Pid) <= Total,
         NEW S \in SUBSET Pid, S = R \/ S = R \cup {p}
  PROVE  SumFunctionOnSet(Counted(S), Pid)' <= Total'
<1>1. \A q \in Pid : Counted(S)'[q] = Counted(R)[q] /\ Counted(R)[q] \in Int
  BY CountedType
  DEF Counted, holds, Exists, Time, TypeOK, KernelTypeOK, kernelVars, kernelTimes
<1>2. SumFunctionOnSet(Counted(S)', Pid) = SumFunctionOnSet(Counted(R), Pid)
  BY <1>1, PidFinite, SumSame
<1>3. Total' = Total
  BY DEF Total, kernelTimes
<1>4. QED  BY <1>2, <1>3

LEMMA ScanReads ==
  ASSUME TypeOK, TypeOK', Ordered, TreeShape, NEW R \in SUBSET Pid, ReadSoFar(R),
         NEW p \in Pid, ScanStep(p),
         data' = [data EXCEPT ![p] = own[p] + waited[p]],
         UNCHANGED <<kernelVars, kernelTimes>>
  PROVE  \E S \in SUBSET Pid : ReadSoFar(S)'
<1> USE DEF TypeOK, KernelTypeOK, TreeTypeOK
<1>1. /\ sampling = "scan" /\ p \in todo /\ p \notin R
      /\ sampling' = "scan" /\ todo' = todo \ {p} /\ tree[p] = NoData
      /\ \A q \in todo : p <= q
      /\ \A q \in Pid \ {p} : tree'[q] = tree[q]
  BY DEF ScanStep, ReadSoFar
<1>2. NoData # Runsolver /\ NoData \notin Pid
  BY DEF NoData, Runsolver, Pid
<1>3. CASE tree'[p] = Runsolver \/ tree'[p] \in R
  <2>1. Exists(p)
    BY <1>1, <1>2, <1>3 DEF ScanStep, Readable, Exists, Ordered
  <2>2. SumFunctionOnSet(Counted(R \cup {p}), Pid)' <= Total'
    <3>1. SumFunctionOnSet(Counted(R), Pid) <= Total /\ p \notin R
      BY <1>1 DEF ReadSoFar
    <3> HIDE DEF TypeOK, KernelTypeOK, TreeTypeOK
    <3>2. QED  BY <2>1, <3>1, CountedWhenRead
  <2>3. \A c \in Pid : Hangs(c, R \cup {p})' => c \in (R \cup {p}) \cup todo'
    <3> SUFFICES ASSUME NEW c \in Pid, Hangs(c, R \cup {p})', c # p
                 PROVE  c \in R \cup todo
      BY <1>1
    <3>1. tree[c] = Runsolver \/ tree[c] \in R \/ tree[c] = p
      BY <1>1 DEF Hangs
    <3>2. tree[c] = p => p < c
      BY <1>2 DEF TreeShape
    <3>3. QED  BY <1>1, <3>1, <3>2 DEF ReadSoFar, Hangs
  <2>4. \A c \in R \cup {p} : Hangs(c, R \cup {p})'
    BY <1>1, <1>3 DEF ReadSoFar, Hangs
  <2>5. \A c \in todo' : tree'[c] = NoData /\ \A q \in Pid : c < q => q \in todo'
    <3>1. todo' \subseteq todo \ {p}
      BY <1>1
    <3>2. QED  BY <1>1, <3>1 DEF ReadSoFar, Pid
  <2>6. (R \cup {p}) \cap todo' = {}
    BY <1>1 DEF ReadSoFar
  <2>7. ReadSoFar(R \cup {p})'
    BY <1>1, <2>2, <2>3, <2>4, <2>5, <2>6 DEF ReadSoFar
  <2>8. QED  BY <2>7
<1>4. CASE ~ (tree'[p] = Runsolver \/ tree'[p] \in R)
  <2>1. SumFunctionOnSet(Counted(R), Pid)' <= Total'
    <3>1. CASE Exists(p)
      BY <1>1, <3>1, CountedWhenRead DEF ReadSoFar
    <3>2. CASE ~ Exists(p)
      <4>1. Counted(R)' = Counted(R)
        BY <1>1 DEF Counted, holds, Exists, Time, kernelVars, kernelTimes
      <4>2. QED  BY <4>1 DEF ReadSoFar, Total, kernelTimes
    <3>3. QED  BY <3>1, <3>2
  <2>2. \A c \in Pid : Hangs(c, R)' => c \in R \cup todo'
    BY <1>1, <1>4 DEF ReadSoFar, Hangs
  <2>3. \A c \in R : Hangs(c, R)'
    BY <1>1 DEF ReadSoFar, Hangs
  <2>4. \A c \in todo' : tree'[c] = NoData /\ \A q \in Pid : c < q => q \in todo'
    <3>1. todo' \subseteq todo \ {p}
      BY <1>1
    <3>2. QED  BY <1>1, <3>1 DEF ReadSoFar, Pid
  <2>5. R \cap todo' = {}
    BY <1>1 DEF ReadSoFar
  <2>6. ReadSoFar(R)'
    BY <1>1, <2>1, <2>2, <2>3, <2>4, <2>5 DEF ReadSoFar
  <2>7. QED  BY <2>6
<1>5. QED  BY <1>3, <1>4

LEMMA UpdateReads ==
  ASSUME TypeOK, TypeOK', TreeShape, NEW R \in SUBSET Pid, ReadSoFar(R),
         NEW p \in Pid, UpdateStep(p), Exists(p),
         data' = [data EXCEPT ![p] = own[p] + waited[p]],
         UNCHANGED <<kernelVars, kernelTimes>>
  PROVE  ReadSoFar(R \cup {p})'
<1> USE DEF TypeOK, KernelTypeOK, TreeTypeOK
<1>1. /\ sampling = "update" /\ p \in todo /\ sampling' = "update" /\ tree' = tree
      /\ todo' = (todo \ {p}) \cup Children(tree, p)
  BY DEF UpdateStep
<1>2. p \notin R /\ Hangs(p, R)
  BY <1>1 DEF ReadSoFar
<1>3. SumFunctionOnSet(Counted(R \cup {p}), Pid)' <= Total'
  <2>1. SumFunctionOnSet(Counted(R), Pid) <= Total
    BY DEF ReadSoFar
  <2> HIDE DEF TypeOK, KernelTypeOK, TreeTypeOK
  <2>2. QED  BY <1>2, <2>1, CountedWhenRead
<1>4. \A c \in Children(tree, p) : c \in Pid /\ c # p /\ c \notin R
  <2>1. \A c \in R : Hangs(c, R)
    BY DEF ReadSoFar
  <2>2. \A c \in Pid : tree[c] = p => tree[c] < c
    BY DEF TreeShape, NoData, Pid
  <2>3. Runsolver \notin Pid
    BY DEF Runsolver, Pid
  <2>4. QED  BY <1>2, <2>1, <2>2, <2>3 DEF Children, Hangs, Pid
<1>5. (R \cup {p}) \cap todo' = {}
  BY <1>1, <1>2, <1>4 DEF ReadSoFar
<1>6. \A c \in Pid : Hangs(c, R \cup {p})' => c \in (R \cup {p}) \cup todo'
  <2> SUFFICES ASSUME NEW c \in Pid, Hangs(c, R \cup {p})', c # p
               PROVE  c \in R \cup todo'
    OBVIOUS
  <2>1. Hangs(c, R) \/ c \in Children(tree, p)
    BY <1>1 DEF Hangs, Children
  <2>2. QED  BY <1>1, <2>1 DEF ReadSoFar
<1>7. \A c \in (R \cup {p}) \cup todo' : Hangs(c, R \cup {p})'
  <2> SUFFICES ASSUME NEW c \in (R \cup {p}) \cup todo' PROVE Hangs(c, R \cup {p})'
    OBVIOUS
  <2>1. Hangs(c, R) \/ c \in Children(tree, p)
    BY <1>1, <1>2 DEF ReadSoFar
  <2>2. QED  BY <1>1, <2>1 DEF Hangs, Children
<1>8. QED  BY <1>1, <1>3, <1>5, <1>6, <1>7 DEF ReadSoFar

LEMMA ChildIsLost ==
  ASSUME TypeOK, NEW R \in SUBSET Pid, ReadSoFar(R), NEW p \in Pid, LoseChild(p),
         UNCHANGED <<kernelVars, kernelTimes, data>>
  PROVE  ReadSoFar(R)'
<1> USE DEF TypeOK, KernelTypeOK, TreeTypeOK
<1>1. /\ sampling = "update" /\ p \in todo /\ sampling' = "update"
      /\ todo' = todo \ {p} /\ tree' = [tree EXCEPT ![p] = NoData] /\ p \notin R
  BY DEF LoseChild, ReadSoFar
<1>2. NoData # Runsolver /\ NoData \notin Pid
  BY DEF NoData, Runsolver, Pid
<1>3. SumFunctionOnSet(Counted(R), Pid)' <= Total'
  <2>1. Counted(R)' = Counted(R) /\ Total' = Total
    BY DEF Counted, holds, Exists, Time, Total, kernelVars, kernelTimes
  <2>2. QED  BY <2>1 DEF ReadSoFar
<1>4. \A c \in Pid : Hangs(c, R)' => c \in R \cup todo'
  BY <1>1, <1>2 DEF ReadSoFar, Hangs
<1>5. \A c \in R \cup todo' : Hangs(c, R)'
  BY <1>1 DEF ReadSoFar, Hangs
<1>6. QED  BY <1>1, <1>3, <1>4, <1>5 DEF ReadSoFar

(* Adding up the tree.                                                     *)
LEMMA TreeSumIsUsed ==
  ASSUME TypeOK, NEW R \in SUBSET Pid, ReadSoFar(R), todo = {}
  PROVE  SumFunctionOnSet(data, Reached(tree)) <= Total
<1> DEFINE D == Reached(tree)
           f == Counted(R)
<1>1. D \subseteq R /\ D \subseteq Pid /\ IsFiniteSet(D)
  <2>1. TraversalClosed(tree, R)
    BY DEF ReadSoFar, Hangs, TraversalClosed
  <2>2. D \subseteq R
    BY <2>1 DEF Reached
  <2>3. QED  BY <2>2, PidFinite, FS_Subset
<1>2. \A q \in Pid : f[q] \in Nat
  BY CountedType
<1>3. \A q \in D : data[q] = f[q]
  BY <1>1 DEF Counted
<1> HIDE DEF D, f
<1>4. \A q \in D : f[q] \in Int /\ data[q] = f[q]
  BY <1>1, <1>2, <1>3
<1>5. SumFunctionOnSet(data, D) = SumFunctionOnSet(f, D)
  BY <1>1, <1>4, SumSame
<1>6. SumFunctionOnSet(f, D) <= SumFunctionOnSet(f, Pid)
  BY <1>1, <1>2, PidFinite, SumOfPart
<1>7. SumFunctionOnSet(f, Pid) <= Total
  BY DEF f, ReadSoFar
<1>8. /\ SumFunctionOnSet(f, D) \in Int /\ SumFunctionOnSet(f, Pid) \in Int
      /\ Total \in Int
  <2>1. \A q \in D : f[q] \in Int
    BY <1>4
  <2>2. \A q \in Pid : f[q] \in Int
    BY <1>2
  <2>3. QED  BY <1>1, <2>1, <2>2, PidFinite, SumIsInt, HoldsType
<1>9. QED  BY <1>5, <1>6, <1>7, <1>8 DEF D

LEMMA OneReading ==
  ASSUME TypeOK, TypeOK', AccountInv, Ordered, TreeShape,
         NEW R \in SUBSET Pid, ReadSoFar(R),
         [Next]_vars, thread = "sample", thread' = "sample"
  PROVE  \E S \in SUBSET Pid : ReadSoFar(S)'
<1>1. CASE UNCHANGED <<treeVars, watcherCpuVars>>
  <2>1. SumFunctionOnSet(Counted(R), Pid)' <= Total'
    BY <1>1, CountedStep
  <2>2. ReadSoFar(R)'
    BY <1>1, <2>1 DEF ReadSoFar, Hangs, treeVars
  <2>3. QED  BY <2>2
<1>2. ASSUME NEW p \in Pid, ReadProcess(p)
      PROVE  \E S \in SUBSET Pid : ReadSoFar(S)'
  <2>1. /\ data' = [data EXCEPT ![p] = own[p] + waited[p]]
        /\ UNCHANGED <<kernelVars, kernelTimes>>
    BY <1>2 DEF ReadProcess
  <2>2. CASE ScanStep(p)
    BY <2>1, <2>2, ScanReads
  <2>3. CASE UpdateStep(p)
    <3>1. Exists(p)
      BY <2>3 DEF UpdateStep, Readable, Exists, Ordered
    <3>2. ReadSoFar(R \cup {p})'
      BY <2>1, <2>3, <3>1, UpdateReads
    <3>3. QED  BY <3>2
  <2>4. QED  BY <1>2, <2>2, <2>3 DEF ReadProcess
<1>3. ASSUME NEW p \in Pid, LoseProcess(p)
      PROVE  \E S \in SUBSET Pid : ReadSoFar(S)'
  <2>1. UNCHANGED <<kernelVars, kernelTimes, data>>
    BY <1>3 DEF LoseProcess, watcherCpuVars
  <2>2. CASE LoseChild(p)
    BY <2>1, <2>2, ChildIsLost
  <2>3. CASE LoseRoot(p)
    BY <2>1, <2>3, SampleBegins DEF LoseRoot
  <2>4. QED  BY <1>3, <2>2, <2>3 DEF LoseProcess
<1>4. CASE AllRead
  <2>1. Counted(R)' = Counted(R) /\ Total' = Total
    BY <1>4 DEF AllRead, Counted, holds, Exists, Time, Total, watcherCpuVars, kernelVars,
       kernelTimes
  <2>2. ReadSoFar(R)'
    BY <1>4, <2>1 DEF AllRead, SampleComplete, ReadSoFar, Hangs
  <2>3. QED  BY <2>2
<1>5. CASE KernelStep \/ MainStep \/ Ended \/ UNCHANGED vars
  <2>1. UNCHANGED <<treeVars, watcherCpuVars>>
    BY <1>5 DEF KernelStep, MainStep, ReapChild, StoreCompleted, NoMoreChildren, Ended, vars
  <2>2. QED  BY <1>1, <2>1
<1>6. CASE BeginSample \/ SumTree \/ CheckCPULimit
  BY <1>6 DEF BeginSample, SumTree, CheckCPULimit
<1>7. QED  BY <1>2, <1>3, <1>4, <1>5, <1>6 DEF Next, WatcherStep

LEMMA SampleInit == Init => SampleInv
<1> SUFFICES ASSUME Init PROVE SampleInv
  OBVIOUS
<1> USE DEF Init, KernelInit, TreeInit
<1>1. Ordered
  BY DEF Ordered, Exists, Runsolver, Pid
<1>2. TreeShape /\ thread # "sample"
  BY DEF TreeShape
<1>3. currentCPUTime = 0 /\ Total \in Nat
  BY TypeInit, HoldsType
<1>4. QED  BY <1>1, <1>2, <1>3 DEF SampleInv

LEMMA SampleInvStep ==
  ASSUME ~ PidsWrap, TypeOK, TypeOK', AccountInv, SampleInv, [Next]_vars
  PROVE  SampleInv'
<1>1. SolverStep \/ (\E c \in Pid : Reap(c)) \/ (UNCHANGED <<state, parent>>)
  BY KernelFrame DEF kernelVars
<1>2. Ordered'
  BY <1>1, OrderedStep DEF TypeOK, SampleInv
<1>3. TreeShape'
  <2>1. CASE UNCHANGED treeVars
    BY <1>1, <2>1, ShapeOfForest DEF TypeOK, SampleInv, treeVars
  <2>2. CASE ~ UNCHANGED treeVars
    <3>1. StartScan \/ StartUpdate \/ SampleStep
      BY <2>2, TreeFrame
    <3>2. UNCHANGED kernelVars
      BY <2>2 DEF Next, vars, KernelStep, MainStep, ReapChild, StoreCompleted,
         NoMoreChildren, WatcherStep, BeginSample, ReadProcess, LoseProcess, AllRead,
         SumTree, CheckCPULimit, Ended
    <3>3. QED  BY <3>1, <3>2, ShapeOfSample DEF TypeOK, SampleInv
  <2>3. QED  BY <2>1, <2>2
<1>4. Total <= Total' /\ Total \in Int /\ Total' \in Int
  <2>1. Total \in Int /\ Total' \in Int
    <3>1. (\A p \in Pid : own[p] \in Int) /\ (\A p \in Pid : own'[p] \in Int)
      BY DEF TypeOK
    <3>2. QED  BY <3>1, PidFinite, SumIsInt DEF Total
  <2>2. QED  BY <2>1, TotalGrows
<1>5. currentCPUTime' <= Total'
  <2>1. CASE UNCHANGED currentCPUTime
    BY <1>4, <2>1 DEF SampleInv, TypeOK
  <2>2. CASE SumTree
    <3>1. PICK R \in SUBSET Pid : ReadSoFar(R)
      BY <2>2 DEF SampleInv, SumTree
    <3>2. todo = {}
      BY <2>2, <3>1 DEF SumTree, ReadSoFar
    <3>3. currentCPUTime' <= Total
      BY <2>2, <3>1, <3>2, TreeSumIsUsed DEF SumTree
    <3>4. QED  BY <1>4, <3>3 DEF TypeOK
  <2>3. UNCHANGED currentCPUTime \/ SumTree
    BY DEF Next, vars, KernelStep, MainStep, ReapChild, StoreCompleted, NoMoreChildren,
       WatcherStep, BeginSample, ReadProcess, LoseProcess, AllRead, CheckCPULimit, Ended,
       watcherCpuVars
  <2>4. QED  BY <2>1, <2>2, <2>3
<1>6. ASSUME thread' = "sample"
      PROVE  \E R \in SUBSET Pid : ReadSoFar(R)'
  <2>1. CASE thread = "sample"
    <3>1. PICK R \in SUBSET Pid : ReadSoFar(R)
      BY <2>1 DEF SampleInv
    <3>2. QED  BY <1>6, <2>1, <3>1, OneReading DEF SampleInv
  <2>2. CASE thread # "sample"
    <3>1. BeginSample
      BY <1>6, <2>2 DEF Next, vars, KernelStep, MainStep, ReapChild, StoreCompleted,
         NoMoreChildren, WatcherStep, ReadProcess, LoseProcess, AllRead, SumTree,
         CheckCPULimit, Ended, watcherCpuVars
    <3>2. ReadSoFar({})'
      BY <3>1, SampleBegins DEF BeginSample
    <3>3. QED  BY <3>2
  <2>3. QED  BY <2>1, <2>2
<1>7. QED  BY <1>2, <1>3, <1>5, <1>6 DEF SampleInv

(* Adding up a sample never counts more than the solver has used           *)
(* (currentCPUTimeRec), although processes fork, end, are adopted and      *)
(* credit their time to their parent between two reads, for any number of  *)
(* processes, unless a process id is used twice.                           *)
THEOREM SampleNeverOvercounts ==
  ASSUME ~ PidsWrap
  PROVE  Spec => []TreeNeverOvercounts
<1>1. TypeOK /\ TypeOK' /\ AccountInv /\ SampleInv /\ [Next]_vars => SampleInv'
  BY SampleInvStep
<1>2. SampleInv => TreeNeverOvercounts
  BY DEF SampleInv, TreeNeverOvercounts
<1>3. QED  BY <1>1, <1>2, SampleInit, TypeCorrect, EverythingIsAccounted, PTL DEF Spec

=============================================================================
