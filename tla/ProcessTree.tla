----------------------------- MODULE ProcessTree -----------------------------
(***************************************************************************)
(* The tree of solver processes runsolver builds from /proc                *)
(* (ProcessTree.hh).  Reading /proc takes time and the solver keeps        *)
(* forking and exiting meanwhile: a sample is a sequence of steps, one per *)
(* process read, and so is the delivery of a signal to a tree.             *)
(*                                                                         *)
(* tree[p] is the process p hangs from: Runsolver when p is in roots, and  *)
(* NoData when the tree holds nothing on p.  Threads (tasks) are left out: *)
(* every sum and every signal of the code skips them.                      *)
(***************************************************************************)
EXTENDS Kernel

NoData == -1

VARIABLES tree,      \* the current sample
          sampling,  \* "scan", "update" or "ready"
          todo,      \* pids still to be read, or to be signalled
          treeHasAllProcesses, \* is the sample a full scan?
          present    \* history: who was alive when this scan began; {} if the
                     \* sample is an update

treeVars == <<tree, sampling, todo, treeHasAllProcesses, present>>

Roots(t)       == {p \in Pid : t[p] = Runsolver}
Children(t, p) == {c \in Pid : t[c] = p}

(* The processes a traversal from the roots meets (identifyChildren links  *)
(* a process to its parent, if that one was read too): they are in every   *)
(* set that holds the roots and the children of its members.               *)
TraversalClosed(t, S) ==
  \A p \in Pid : t[p] = Runsolver \/ t[p] \in S => p \in S
Reached(t) ==
  {p \in Pid : \A S \in SUBSET Pid : TraversalClosed(t, S) => p \in S}

(* The copy constructor: only what a traversal from the roots reaches.     *)
Clone(t) == [p \in Pid |-> IF p \in Reached(t) THEN t[p] ELSE NoData]

SolverEnded(t) == Roots(t) = {}

(* readProcesses: clear(), then read every entry of /proc in increasing    *)
(* order of pids.                                                          *)
StartScan ==
  /\ sampling' = "scan"
  /\ tree'     = [p \in Pid |-> NoData]
  /\ todo'     = Pid
  /\ treeHasAllProcesses' = TRUE
  /\ present'  = {p \in Pid : Alive(p)}

(* Mutant: /proc read in the opposite order.                               *)
ScanStepDownwards(p) ==
  /\ sampling = "scan" /\ p \in todo
  /\ \A q \in todo : q <= p
  /\ tree' = [tree EXCEPT ![p] = IF Readable(p) THEN PPid(p) ELSE NoData]
  /\ todo' = todo \ {p}
  /\ UNCHANGED <<sampling, treeHasAllProcesses, present>>

ScanStep(p) ==
  /\ sampling = "scan" /\ p \in todo
  /\ \A q \in todo : p <= q
  /\ tree' = [tree EXCEPT ![p] = IF Readable(p) THEN PPid(p) ELSE NoData]
  /\ todo' = todo \ {p}
  /\ UNCHANGED <<sampling, treeHasAllProcesses, present>>

(* updateProcessesData: visit the processes the copied tree holds, by way  *)
(* of the links of the last full scan, and drop those which are gone.      *)
StartUpdate ==
  /\ sampling' = "update"
  /\ tree'     = Clone(tree)
  /\ todo'     = Roots(tree)
  /\ treeHasAllProcesses' = FALSE
  /\ present'  = {}

UpdateStep(p) ==
  /\ sampling = "update" /\ p \in todo
  /\ Readable(p)
  /\ todo' = (todo \ {p}) \cup Children(tree, p)
  /\ UNCHANGED <<tree, sampling, treeHasAllProcesses, present>>

LoseChild(p) ==
  /\ sampling = "update" /\ p \in todo
  /\ ~ Readable(p) /\ p \notin Roots(tree)
  /\ tree' = [tree EXCEPT ![p] = NoData]
  /\ todo' = todo \ {p}
  /\ UNCHANGED <<sampling, treeHasAllProcesses, present>>

(* A lost root: readProcesses again, from the beginning.                   *)
LoseRoot(p) ==
  /\ sampling = "update" /\ p \in todo
  /\ ~ Readable(p) /\ p \in Roots(tree)
  /\ StartScan

(* Everything was read.  From now on the code only looks at what a         *)
(* traversal from the roots reaches.                                       *)
SampleComplete ==
  /\ sampling \in {"scan", "update"} /\ todo = {}
  /\ sampling' = "ready"
  /\ UNCHANGED <<tree, todo, treeHasAllProcesses, present>>

SampleStep ==
  \/ \E p \in Pid : ScanStep(p) \/ UpdateStep(p) \/ LoseChild(p) \/ LoseRoot(p)
  \/ SampleComplete

(* Mutant: only the roots are signalled.                                   *)
RootsOnly(t) == Roots(t)

(* The processes sendSignalBottomUp and sendSignalNow visit.               *)
SignalledBy(t) == Reached(t)

(* sendSignalBottomUp and sendSignalNow: one kill per process of the tree, *)
(* the children of a process before the process itself.                    *)
StartSignalling ==
  /\ todo' = SignalledBy(tree)
  /\ UNCHANGED <<tree, sampling, treeHasAllProcesses, present>>

SignalStep(p, sig) ==
  /\ p \in todo /\ Children(tree, p) \cap todo = {}
  /\ Kill(p, sig)
  /\ todo' = todo \ {p}
  /\ UNCHANGED <<tree, sampling, treeHasAllProcesses, present>>

TreeInit ==
  /\ tree     = [p \in Pid |-> NoData]
  /\ sampling = "ready"
  /\ todo     = {}
  /\ treeHasAllProcesses = FALSE
  /\ present  = {}

TreeTypeOK ==
  /\ tree     \in [Pid -> Pid \cup {Runsolver, Somebody, NoData}]
  /\ sampling \in {"scan", "update", "ready"}
  /\ todo     \subseteq Pid
  /\ treeHasAllProcesses \in BOOLEAN
  /\ present  \subseteq Pid
=============================================================================
