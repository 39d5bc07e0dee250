------------------------------- MODULE Kernel -------------------------------
(***************************************************************************)
(* The part of the operating system runsolver relies on: the forest of the *)
(* processes descending from runsolver, and the calls fork, exit, wait and *)
(* kill on it.  It is external code, modelled from how Watcher.hh,         *)
(* ProcessTree.hh and runsolver.cc use it.  runsolver is a child subreaper *)
(* (prctl in RunSolver::run), so an orphan becomes its child.              *)
(*                                                                         *)
(* Process ids are numbers: fork hands them out in increasing order until  *)
(* they wrap around.  PidsWrap = TRUE lets a fork take any free number and *)
(* lets the number of a reaped process go to a process of somebody else.   *)
(***************************************************************************)
EXTENDS Integers, FiniteSets

CONSTANTS MaxPid,    \* bound: at most MaxPid - 1 forks
          Solver,    \* the process runsolver forks and executes
          PidsWrap   \* do process ids wrap around during the run?

Pid == 1..MaxPid
Runsolver == 0       \* the pid of runsolver itself

ASSUME KernelAssumption == /\ MaxPid \in Nat \ {0}
                           /\ Solver \in Pid
                           /\ PidsWrap \in BOOLEAN

VARIABLES state,     \* "free", "alive", "zombie", "gone" or "foreign"
          parent,    \* the parent of a process that is alive or a zombie
          signals    \* the signals a process received while it was alive

kernelVars == <<state, parent, signals>>

Alive(p)  == state[p] = "alive"
Exists(p) == state[p] \in {"alive", "zombie"}
Killed(p) == "KILL" \in signals[p]

KernelInit ==
  /\ state   = [p \in Pid |-> IF p = Solver THEN "alive" ELSE "free"]
  /\ parent  = [p \in Pid |-> Runsolver]
  /\ signals = [p \in Pid |-> {}]

(* The numbers fork may give to a new process: other users of the machine  *)
(* take some of them.                                                      *)
NextPid(q) ==
  /\ state[q] = "free"
  /\ PidsWrap \/ \A r \in Pid : state[r] # "free" => r < q

(* A process that has not been killed creates a child.                     *)
Fork(p, q) ==
  /\ Alive(p) /\ ~ Killed(p)
  /\ NextPid(q)
  /\ state'  = [state EXCEPT ![q] = "alive"]
  /\ parent' = [parent EXCEPT ![q] = p]
  /\ UNCHANGED signals

(* A process ends, of its own will or because of a signal.  It stays a     *)
(* zombie until its parent waits for it, and its children are adopted by   *)
(* the nearest subreaper above them, which is runsolver.                   *)
Exit(p) ==
  /\ Alive(p)
  /\ state'  = [state EXCEPT ![p] = "zombie"]
  /\ parent' = [c \in Pid |-> IF Exists(c) /\ parent[c] = p
                              THEN Runsolver ELSE parent[c]]
  /\ UNCHANGED signals

(* A process of the solver waits for one of its own children.              *)
Wait(p, c) ==
  /\ Alive(p) /\ ~ Killed(p)
  /\ state[c] = "zombie" /\ parent[c] = p
  /\ state' = [state EXCEPT ![c] = "gone"]
  /\ UNCHANGED <<parent, signals>>

(* The number of a reaped process is used again by an unrelated process.   *)
Recycle(p) ==
  /\ PidsWrap
  /\ state[p] = "gone"
  /\ state'   = [state EXCEPT ![p] = "foreign"]
  /\ signals' = [signals EXCEPT ![p] = {}]
  /\ UNCHANGED parent

(* What the solver and the rest of the machine may do at any time.         *)
SolverStep ==
  \/ \E p, q \in Pid : Fork(p, q) \/ Wait(p, q)
  \/ \E p \in Pid : Exit(p) \/ Recycle(p)

(* The call kill(p, sig).  A zombie and a pid nobody has ignore it.        *)
Kill(p, sig) ==
  /\ signals' = IF state[p] \in {"alive", "foreign"}
                THEN [signals EXCEPT ![p] = @ \cup {sig}] ELSE signals
  /\ UNCHANGED <<state, parent>>

(* The call waitpid(-1, ...) of runsolver: it returns a zombie child,      *)
(* blocks while there are only live ones, and fails with ECHILD if there   *)
(* is no child at all.                                                     *)
IsChild(c) == Exists(c) /\ parent[c] = Runsolver

Reap(c) ==
  /\ IsChild(c) /\ state[c] = "zombie"
  /\ state' = [state EXCEPT ![c] = "gone"]
  /\ UNCHANGED <<parent, signals>>

NoChild == \A c \in Pid : ~ IsChild(c)

(* What /proc says of p.  A zombie has no VmRSS line: reading it fails.    *)
Somebody == -2       \* a parent that is not one of the processes above
Readable(p) == state[p] \in {"alive", "foreign"}
PPid(p) == IF state[p] = "foreign" THEN Somebody ELSE parent[p]

KernelTypeOK ==
  /\ state   \in [Pid -> {"free", "alive", "zombie", "gone", "foreign"}]
  /\ parent  \in [Pid -> Pid \cup {Runsolver}]
  /\ signals \in [Pid -> SUBSET {"TERM", "KILL"}]

=============================================================================
