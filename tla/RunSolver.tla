------------------------------ MODULE RunSolver ------------------------------
(***************************************************************************)
(* A run of runsolver from its command line to its end (main, and          *)
(* RunSolver::run): the options, the pipe or pseudo-terminal of the        *)
(* output, the thread that stamps it, the process that becomes the solver, *)
(* the supervision, the report.  The supervision and the time stamper have *)
(* modules of their own (Watcher, TimeStamper); here they are reduced to   *)
(* what the other parts can see of them.                                   *)
(*                                                                         *)
(* The solver is the process runsolver forks, a descendant of it and a     *)
(* child of the descendant, which runsolver adopts when their parent ends. *)
(***************************************************************************)
EXTENDS Options

CONSTANTS MayFail,    \* may a system call of the set-up fail?
          HardLimits, \* the hard limits of the kernel runsolver may be started with
          Forks       \* the descendants that may be forked in a run with a
                      \* command line (a bound)

Solvers == {"solver", "descendant", "grandchild"}
Parent == [descendant |-> "solver", grandchild |-> "descendant"]
Resources == {"CPU", "STACK", "AS"}

ASSUME RunSolverAssumption ==
  /\ MayFail \in BOOLEAN /\ HardLimits \subseteq [Resources -> Nat]
  /\ \A args \in CommandLines : Forks[args] \subseteq DOMAIN Parent

VARIABLES
  stream,      \* time stamper thread: "none", "reading", "ended" or "failed"
  tube,        \* the pipe: "none", "held" (runsolver has its writing end),
               \* "given" to the solver, or "broken" (pipe() failed)
  slaveOpened, \* has the slave of the pseudo-terminal ever been opened?
  proc,        \* "none", "start", "stdin", "stdout", "exec", "runs",
               \* "zombie" or "gone" for each process
  io,          \* where the solver's standard output and error go
  rlimit,      \* the kernel's limits on the solver, soft (cur) and hard (max)
  affinity,    \* affinity of the solver, the time stamper and the watcher
  thread,      \* watcher thread: "none", "loop", "sampled", "sweep" or "done"
  solverIsRunning, stopReason,
  grace,       \* ticks between SIGTERM and SIGKILL
  seen,        \* the processes in the last sample (procTree)
  killed,      \* the processes that were sent SIGKILL
  level,       \* CPU time, wall clock, largest sample of CPU time and vsize,
               \* wall clock at the end; was CPU time lost by the kernel?
  samples,     \* the last sample of the history: "empty" (the one of the
               \* constructor), "pushed", or "displayed"
  childstatus, \* the process whose status waitpid stored last
  report       \* what the report says

startVars == <<stream, tube, slaveOpened, io, rlimit, affinity>>
watchVars == <<thread, solverIsRunning, stopReason, grace, seen, killed, samples>>
endVars   == <<childstatus, report>>
vars == <<optionVars, startVars, watchVars, endVars, proc, level>>

(* Below a limit, at it, or above it.                                      *)
Levels == 0..2
Possible(limit) == IF limit = 0 THEN {0} ELSE Levels
Larger(x, y) == IF x > y THEN x ELSE y

(* The command line holds one of these options.                            *)
Given(names) == \E i \in DOMAIN line : line[i].o \in names

(* The constructor of the watcher pushes an empty sample into the history. *)
Init ==
  /\ OptionsInit
  /\ stream = "none" /\ tube = "none" /\ slaveOpened = FALSE
  /\ proc = [p \in Solvers |-> "none"]
  /\ io = [out |-> "inherited", err |-> "inherited"]
  /\ \E hard \in HardLimits :
       rlimit = [r \in Resources |-> [cur |-> hard[r], max |-> hard[r]]]
  /\ affinity = [solver |-> {}, stamper |-> {}, watcher |-> {}]
  /\ thread = "none" /\ solverIsRunning = FALSE /\ stopReason = "null"
  /\ grace = 1 /\ seen = {} /\ killed = {}
  /\ level = [cpu |-> 0, wall |-> 0, counted |-> 0, vsize |-> 0, end |-> 0,
              lost |-> FALSE]
  /\ samples = "empty"
  /\ childstatus = "none"
  /\ report = [written |-> FALSE, cpu |-> 0, timeOut |-> FALSE, memOut |-> FALSE,
               status |-> "none"]

Running(p) == proc[p] \notin {"none", "zombie", "gone"}
Nobody == \A p \in Solvers : ~ Running(p)
Terminal == {"exited", "done", "crashed", "aborted"}

-----------------------------------------------------------------------------
(* Set-up by the main thread.                                              *)
ParseOptions ==
  /\ HandleOption \/ EndOfOptions
  /\ UNCHANGED <<startVars, watchVars, endVars, proc, level>>

(* A call of the set-up fails: prctl, opening the output file, the         *)
(* pseudo-terminal, or fork; or pipe(), which nobody tests: a descriptor   *)
(* that was never written may be one that FD_SET cannot store.             *)
SetupFails ==
  /\ MayFail
  /\ main \in {"output", "fork"}
  /\ main' = "exited"
  /\ UNCHANGED <<line, todo, cfg, asked, own, startVars, watchVars, endVars, proc,
                 level>>

(* The pipe or pseudo-terminal, and the time stamper thread.  That the     *)
(* thread could not be created is only reported; that the pipe could not   *)
(* is not even noticed.                                                    *)
OpenOutput ==
  /\ main = "output"
  /\ \E started \in {"reading"} \cup (IF MayFail THEN {"failed"} ELSE {}) :
       stream' = IF cfg.stamping THEN started ELSE "none"
  /\ tube' \in IF ~ cfg.stamping \/ cfg.pty THEN {"none"}
               ELSE IF MayFail THEN {"held", "broken"} ELSE {"held"}
  /\ affinity' = [affinity EXCEPT !.stamper = own]
  /\ main' = "fork"
  /\ UNCHANGED <<line, todo, cfg, asked, own, slaveOpened, io, rlimit,
                 watchVars, endVars, proc, level>>

ForkSolver ==
  /\ main = "fork"
  /\ proc' = [proc EXCEPT !["solver"] = "start"]
  /\ affinity' = [affinity EXCEPT !.solver = own]
  /\ main' = "parent"
  /\ UNCHANGED <<line, todo, cfg, asked, own, stream, tube, slaveOpened, io, rlimit,
                 watchVars, endVars, level>>

(* The main thread moves to the last of the cores it was given (mutant:    *)
(* the first), and so does the watcher thread it starts; the time stamper  *)
(* thread, which it has started, stays on all of them.                     *)
FirstMask(cores) == IF Len(cores) > 1 THEN {Head(cores)} ELSE ToSet(cores)
OwnMask(cores) == IF Len(cores) > 1 THEN {Last(cores)} ELSE ToSet(cores)

MoveToLastCore ==
  /\ main = "parent"
  /\ own' = SetAffinity(own, OwnMask(AllocatedCores(own)))
  /\ main' = "close"
  /\ UNCHANGED <<line, todo, cfg, asked, startVars, watchVars, endVars, proc,
                 level>>

(* Mutant: runsolver keeps its copy of the writing end.                    *)
StartWatchingWithPipe ==
  /\ main = "close"
  /\ main' = "wait"
  /\ thread' = "loop" /\ solverIsRunning' = TRUE
  /\ affinity' = [affinity EXCEPT !.watcher = own]
  /\ UNCHANGED <<line, todo, cfg, asked, own, stream, tube, slaveOpened, io, rlimit,
                 stopReason, grace, seen, killed,
                 samples, endVars, proc, level>>

(* The writing end of the pipe belongs to the solver; watchPID begins.     *)
StartWatching ==
  /\ main = "close"
  /\ tube' = IF tube = "held" THEN "given" ELSE tube
  /\ main' = "wait"
  /\ thread' = "loop" /\ solverIsRunning' = TRUE
  /\ affinity' = [affinity EXCEPT !.watcher = own]
  /\ UNCHANGED <<line, todo, cfg, asked, own, stream, slaveOpened, io, rlimit,
                 stopReason, grace, seen, killed, samples, endVars, proc, level>>

-----------------------------------------------------------------------------
(* The forked process until it executes the solver.                        *)
ChildGoesTo(place) ==
  /\ "solver" \notin killed
  /\ proc' = [proc EXCEPT !["solver"] = place]
  /\ UNCHANGED <<optionVars, stream, tube, affinity, watchVars, endVars, level>>

(* The limits asked for a resource that setrlimit accepts: it refuses one  *)
(* above the hard limit, which is only reported.                           *)
Accepted(r) ==
  {i \in DOMAIN cfg.limits : cfg.limits[i].resource = r /\ cfg.limits[i].n <= rlimit[r].max}

(* Mutant: the first one stays.                                            *)
EnforcedFirst(r) ==
  IF Accepted(r) = {} THEN rlimit[r]
  ELSE [rlimit[r] EXCEPT !.cur = cfg.limits[Min(Accepted(r))].n]

(* enforceLimit for each limit, in the order of the command line: only the *)
(* soft limit changes, and the last one that is accepted stays.            *)
Enforced(r) ==
  IF Accepted(r) = {} THEN rlimit[r]
  ELSE [rlimit[r] EXCEPT !.cur = cfg.limits[Max(Accepted(r))].n]

EnforceLimits ==
  /\ proc["solver"] = "start"
  /\ rlimit' = [r \in Resources |-> Enforced(r)]
  /\ ChildGoesTo("stdin")
  /\ UNCHANGED <<slaveOpened, io>>

(* The file of --input may not exist: the exception ends the child.        *)
RedirectInput ==
  /\ proc["solver"] = "stdin"
  /\ \/ ChildGoesTo("stdout")
     \/ (cfg.inFile /\ MayFail /\ ChildGoesTo("zombie"))
  /\ UNCHANGED <<slaveOpened, io, rlimit>>

(* Where the output goes.  If there is no pipe, dup2 copies some other     *)
(* descriptor of runsolver, or fails unnoticed.                            *)
Destinations ==
  IF ~ cfg.stamping THEN {IF cfg.outFile THEN "file" ELSE "inherited"}
  ELSE IF cfg.pty THEN {"pty"}
  ELSE IF tube = "broken" THEN {"stray", "inherited"} ELSE {"pipe"}

(* Mutant: standard error stays where it was if the output is stamped.     *)
RedirectedOutOnly ==
  {[out |-> place, err |-> IF cfg.stamping THEN "inherited" ELSE place] :
     place \in Destinations}

Redirected == {[out |-> place, err |-> place] : place \in Destinations}

(* The redirections of the output.  Opening the file or the slave of the   *)
(* pseudo-terminal may fail.                                               *)
RedirectOutput ==
  /\ proc["solver"] = "stdout"
  /\ \/ /\ ChildGoesTo("exec")
        /\ io' \in Redirected
        /\ slaveOpened' = (cfg.stamping /\ cfg.pty)
     \/ /\ MayFail
        /\ IF cfg.stamping THEN cfg.pty ELSE cfg.outFile
        /\ ChildGoesTo("zombie")
        /\ UNCHANGED <<io, slaveOpened>>
  /\ UNCHANGED rlimit

(* execvp, or exit(127) if it fails.                                       *)
Execute ==
  /\ proc["solver"] = "exec"
  /\ ChildGoesTo("runs") \/ (MayFail /\ ChildGoesTo("zombie"))
  /\ UNCHANGED <<slaveOpened, io, rlimit>>

ChildStart == EnforceLimits \/ RedirectInput \/ RedirectOutput \/ Execute

-----------------------------------------------------------------------------
(* The solver, its descendants, and the clock.                             *)
KernelSteps == UNCHANGED <<optionVars, startVars, watchVars, endVars>>

(* A process that was sent SIGKILL forks no more.                          *)
ForkDescendant(p) ==
  /\ p \in Forks[line]
  /\ proc[Parent[p]] = "runs" /\ Parent[p] \notin killed
  /\ proc[p] = "none"
  /\ proc' = [proc EXCEPT ![p] = "runs"]
  /\ KernelSteps /\ UNCHANGED level

(* A process ends.                                                         *)
ProcessEnds(p) ==
  /\ proc[p] = "runs" \/ (p \in killed /\ Running(p))
  /\ proc' = [proc EXCEPT ![p] = "zombie"]
  /\ KernelSteps /\ UNCHANGED level

(* A descendant is waited for by its parent if that still runs, and then   *)
(* its CPU time counts as that of its parent; if the parent ignores        *)
(* SIGCHLD it is nobody's.  Otherwise runsolver adopts it.                 *)
WaitForDescendant(p) ==
  /\ proc[Parent[p]] = "runs" /\ proc[p] = "zombie"
  /\ proc' = [proc EXCEPT ![p] = "gone"]
  /\ level' \in {level, [level EXCEPT !.lost = @ \/ level.cpu > 0]}
  /\ KernelSteps

Compute ==
  /\ cfg.cpu # 0 /\ level.cpu < 2
  /\ \E p \in Solvers : proc[p] = "runs"
  /\ level' = [level EXCEPT !.cpu = @ + 1]
  /\ KernelSteps /\ UNCHANGED proc

Clock ==
  /\ cfg.wall # 0 /\ level.wall < 2 /\ main \in {"wait", "join"}
  /\ level' = [level EXCEPT !.wall = @ + 1]
  /\ KernelSteps /\ UNCHANGED proc

SolverStep ==
  \/ \E p \in DOMAIN Parent : ForkDescendant(p) \/ WaitForDescendant(p)
  \/ \E p \in Solvers : ProcessEnds(p)
  \/ Compute \/ Clock

-----------------------------------------------------------------------------
(* The watcher thread.  A sample, the limits it exceeds, the display of    *)
(* the first sample.  The CPU time of the sample is not that of the        *)
(* report: it may be older, and module CpuTime shows that it may be larger *)
(* when a process has been reaped in the meantime.                         *)
SampledCpu ==
  IF cfg.cpu = 0 THEN {0}
  ELSE 0..level.cpu \cup (IF childstatus # "none" THEN Levels ELSE {})

Exceeded(reached) ==
  LET kinds == <<"cpu", "wall", "vsize", "memory">>
      hit   == {i \in 1..4 : reached[i] >= 1}
  IN IF hit = {} THEN stopReason
     ELSE kinds[CHOOSE i \in hit : \A j \in hit : j <= i]

(* readProcessData: a full scan, or an update of the sample before; the    *)
(* first sample is a full one.  It goes to the history, and may request a  *)
(* stop.  How long the reading takes is the subject of module Watcher: who *)
(* is forked meanwhile is as if forked afterwards.                         *)
Sample ==
  /\ thread = "loop" /\ solverIsRunning
  /\ thread' = "sampled"
  /\ \/ seen' = {p \in Solvers : Running(p)}
     \/ samples # "empty" /\ seen' = {p \in seen : Running(p)}
  /\ samples' = "pushed"
  /\ \E c \in SampledCpu, v \in Possible(cfg.vsize), m \in Possible(cfg.memory) :
       /\ stopReason' = Exceeded(<<c, level.wall, v, m>>)
       /\ level' = [level EXCEPT !.counted = Larger(@, c), !.vsize = Larger(@, v)]
  /\ UNCHANGED <<optionVars, startVars, solverIsRunning, grace, killed, endVars, proc>>

(* SIGKILL for the processes of the last sample, one after the other: who  *)
(* is forked by one of them before its turn comes is not among them.       *)
KillSeen == killed' = killed \cup {p \in seen : Running(p)}

(* The rest of the tick: the sample is displayed if it is the first, and   *)
(* perhaps if not; then the stop.                                          *)
FinishTick ==
  /\ thread = "sampled"
  /\ thread' = "loop"
  /\ samples' = "displayed"
  /\ IF stopReason = "null" THEN UNCHANGED <<grace, killed, solverIsRunning>>
     ELSE IF grace > 0 THEN grace' = grace - 1 /\ UNCHANGED <<killed, solverIsRunning>>
     ELSE KillSeen /\ solverIsRunning' = FALSE /\ UNCHANGED grace
  /\ UNCHANGED <<optionVars, startVars, stopReason, seen, endVars, proc, level>>

(* Mutant: the loop is left at once, in the middle of a tick.              *)
LeaveAtOnce ==
  /\ thread \in {"loop", "sampled"} /\ ~ solverIsRunning
  /\ thread' = "sweep"
  /\ seen' = {p \in Solvers : Running(p)}
  /\ UNCHANGED <<optionVars, startVars, solverIsRunning, stopReason, grace, killed,
                 samples, endVars, proc, level>>

(* The loop ends (so does it by the break after a sample of nobody); a     *)
(* last scan.                                                              *)
LeaveLoop ==
  /\ thread = "loop" /\ ~ solverIsRunning
  /\ thread' = "sweep"
  /\ seen' = {p \in Solvers : Running(p)}
  /\ UNCHANGED <<optionVars, startVars, solverIsRunning, stopReason, grace, killed,
                 samples, endVars, proc, level>>

(* Whoever the last scan found is killed.                                  *)
Sweep ==
  /\ thread = "sweep"
  /\ thread' = "done"
  /\ KillSeen /\ seen' = {}
  /\ UNCHANGED <<optionVars, startVars, solverIsRunning, stopReason, grace, samples,
                 endVars, proc, level>>

WatcherStep == Sample \/ FinishTick \/ LeaveLoop \/ Sweep

(* watcherSigHandler                                                       *)
UserStops ==
  /\ main \notin Terminal \cup {"options"} /\ stopReason = "null"
  /\ stopReason' = "user"
  /\ UNCHANGED <<optionVars, startVars, thread, solverIsRunning, grace, seen, killed,
                 samples, endVars, proc, level>>

(* The time stamper thread ends when nobody can write any more.  A pseudo- *)
(* terminal that was never opened looks like one that has nothing to say.  *)
EndOfOutput ==
  /\ tube \in {"none", "given"} /\ Nobody
  /\ cfg.pty => slaveOpened

StreamEnds ==
  /\ stream = "reading" /\ EndOfOutput
  /\ stream' = "ended"
  /\ UNCHANGED <<optionVars, tube, slaveOpened, io, rlimit, affinity, watchVars,
                 endVars, proc, level>>

(* Without a pipe the thread reads what the descriptor happens to be: it   *)
(* may end, or give up after errors, at any moment, or never.              *)
StrayEnds ==
  /\ stream = "reading" /\ tube = "broken"
  /\ stream' = "ended"
  /\ UNCHANGED <<optionVars, tube, slaveOpened, io, rlimit, affinity, watchVars,
                 endVars, proc, level>>

-----------------------------------------------------------------------------
(* The end of watchPID, and of run.                                        *)
MyChild(p) == p \in DOMAIN Parent => ~ Running(Parent[p])

ReapChild(p) ==
  /\ main = "wait" /\ proc[p] = "zombie" /\ MyChild(p)
  /\ proc' = [proc EXCEPT ![p] = "gone"]
  /\ childstatus' = p
  /\ UNCHANGED <<optionVars, startVars, watchVars, report, level>>

(* Mutant: the loop ends with the process it has forked.                   *)
SolverReaped ==
  /\ main = "wait" /\ proc["solver"] = "gone"
  /\ main' = "join"
  /\ solverIsRunning' = FALSE
  /\ level' = [level EXCEPT !.end = level.wall]
  /\ UNCHANGED <<line, todo, cfg, asked, own, startVars, thread, stopReason, grace, seen, killed,
                 samples, endVars, proc>>

(* waitpid fails with ECHILD; the wall clock is read (stoptv).             *)
NoMoreChildren ==
  /\ main = "wait"
  /\ \A p \in Solvers : proc[p] \in {"none", "gone"}
  /\ main' = "join"
  /\ solverIsRunning' = FALSE
  /\ level' = [level EXCEPT !.end = level.wall]
  /\ UNCHANGED <<line, todo, cfg, asked, own, startVars, thread, stopReason, grace, seen, killed,
                 samples, endVars, proc>>

(* The CPU time of the children that were waited for (RUSAGE_CHILDREN): it *)
(* lacks that of a process nobody waited for.                              *)
RUsageChildren == IF level.lost THEN 0..level.cpu ELSE {level.cpu}

(* Mutant: the wall clock counts only if there is no limit on CPU time.    *)
TimeOutOfOne(c) == IF cfg.cpu # 0 THEN c = 2 ELSE cfg.wall # 0 /\ level.end = 2

(* The flags of the execution summary.                                     *)
TimeOut(c) == (cfg.cpu # 0 /\ c = 2) \/ (cfg.wall # 0 /\ level.end = 2)
MemOut == cfg.vsize # 0 /\ level.vsize = 2

(* The watcher thread is joined; report and summary.                       *)
WriteReport ==
  /\ main = "join" /\ thread = "done"
  /\ \E c \in RUsageChildren :
       report' = [written |-> TRUE, cpu |-> c, timeOut |-> TimeOut(c),
                  memOut |-> MemOut, status |-> childstatus]
  /\ main' = "stream"
  /\ UNCHANGED <<line, todo, cfg, asked, own, startVars, watchVars, childstatus,
                 proc, level>>

(* The time stamper thread is joined, then the destructor flushes the      *)
(* output filter.  If the thread was never created its id is indeterminate:*)
(* pthread_join returns an error or crashes.                               *)
JoinStream ==
  /\ main = "stream"
  /\ \/ (stream \in {"none", "ended"} /\ main' = "done")
     \/ (stream = "failed" /\ main' \in {"done", "crashed"})
  /\ UNCHANGED <<line, todo, cfg, asked, own, startVars, watchVars, endVars, proc,
                 level>>

(* The watchdog thread sends SIGABRT to runsolver, which ends at once.     *)
Watchdog ==
  /\ cfg.watchdog /\ main \notin Terminal \cup {"options"}
  /\ main' = "aborted"
  /\ thread' = "done" /\ stream' = "none"
  /\ UNCHANGED <<line, todo, cfg, asked, own, tube, slaveOpened, io, rlimit, affinity,
                 solverIsRunning, stopReason, grace, seen, killed, samples,
                 endVars, proc, level>>

RunStep ==
  \/ OpenOutput \/ ForkSolver \/ MoveToLastCore \/ StartWatching
  \/ \E p \in Solvers : ReapChild(p)
  \/ NoMoreChildren \/ WriteReport \/ JoinStream

(* runsolver has ended, or waits for the time stamper thread.              *)
Rests ==
  /\ main \in Terminal \/ (main = "stream" /\ stream = "reading")
  /\ UNCHANGED vars

Next ==
  \/ ParseOptions \/ RunStep \/ SetupFails \/ ChildStart \/ SolverStep \/ WatcherStep
  \/ UserStops \/ StreamEnds \/ StrayEnds \/ Watchdog \/ Rests

Spec == Init /\ [][Next]_vars

(* run and the threads of runsolver are scheduled and their system calls   *)
(* return; the forked process reaches its exec; a process that was sent    *)
(* SIGKILL ends.                                                           *)
FairSpec ==
  /\ Spec
  /\ WF_vars(RunStep) /\ WF_vars(ChildStart) /\ WF_vars(StreamEnds)
  /\ WF_vars(WatcherStep)
  /\ WF_vars(\E p \in killed : ProcessEnds(p))

-----------------------------------------------------------------------------
(* The types of what the run keeps; the set-up (cfg, own, rlimit) is the   *)
(* subject of the invariants below.                                        *)
TypeOK ==
  /\ main \in {"options", "output", "fork", "parent", "close", "wait", "join",
               "stream"} \cup Terminal
  /\ stream \in {"none", "reading", "ended", "failed"}
  /\ tube \in {"none", "held", "given", "broken"}
  /\ slaveOpened \in BOOLEAN /\ solverIsRunning \in BOOLEAN
  /\ proc \in [Solvers -> {"none", "start", "stdin", "stdout", "exec", "runs",
                            "zombie", "gone"}]
  /\ thread \in {"none", "loop", "sampled", "sweep", "done"}
  /\ stopReason \in {"null", "user", "cpu", "wall", "vsize", "memory"}
  /\ grace \in 0..1 /\ samples \in {"empty", "pushed", "displayed"}
  /\ seen \subseteq Solvers /\ killed \subseteq Solvers
  /\ level \in [cpu : Levels, wall : Levels, counted : Levels, vsize : Levels,
                end : Levels, lost : BOOLEAN]
  /\ childstatus \in Solvers \cup {"none"}
  /\ report \in [written : BOOLEAN, cpu : Levels, timeOut : BOOLEAN, memOut : BOOLEAN,
                 status : Solvers \cup {"none"}]

Executes == proc["solver"] = "runs"
Places(name) == {i \in DOMAIN line : line[i].o = name}

(* The watcher stops the solver before the kernel does, whatever options   *)
(* were given in whatever order: the soft limit of the kernel on CPU time  *)
(* or address space is above the one the watcher enforces.  Two ways       *)
(* around it: -C 0 is no limit for the watcher and HardDelay for the       *)
(* kernel; and when the kernel refuses the last limit, the limit it had    *)
(* before stays, be it inherited or that of an earlier -C.                 *)
LastOf(name) == line[Max(Places(name))].n
SoftBeforeHard ==
  Executes =>
    /\ Given({"vsize-limit"}) =>
         LET n == LastOf("vsize-limit")
         IN n # 0 /\ n + Reserve <= rlimit["AS"].max =>
              cfg.vsize = n /\ n < rlimit["AS"].cur
    /\ Given({"cpu-limit"}) =>
         LET n == LastOf("cpu-limit")
         IN n # 0 /\ n + HardDelay <= rlimit["CPU"].max =>
              cfg.cpu = n /\ n < rlimit["CPU"].cur

(* The output filter is set up with a start below its limit, the numbers   *)
(* of the last -O, and time stamping is on, whatever else was asked for:   *)
(* unless these numbers do not fit in an int or the start is negative.     *)
InRange(x) == x.a >= 0 /\ x.m * MiB < IntHalf
FilterAsAsked ==
  main \notin {"options", "exited"} /\ Given({"output-limit"}) =>
    LET x == line[Max(Places("output-limit"))]
    IN InRange(x) => /\ cfg.stamping
                     /\ cfg.activate = x.a * MiB /\ cfg.max = x.m * MiB
                     /\ cfg.activate < cfg.max

(* Both outputs of the solver go where the command line says, for every    *)
(* combination and order of --timestamp, -O, --use-pty and -o; unless the  *)
(* pipe could not be created.                                              *)
OutputRouted ==
  Executes /\ tube # "broken" =>
    LET place == IF Given({"timestamp", "output-limit"})
                 THEN IF Given({"use-pty"}) THEN "pty" ELSE "pipe"
                 ELSE IF Given({"output"}) THEN "file" ELSE "inherited"
    IN io.out = place /\ io.err = place

(* The order of the documentation: by processor, then by number; the       *)
(* processors come in the order of their first cpu among those of a mask.  *)
FirstOf(c, S) == Min({d \in S : Processor[d] = Processor[c]})
Before(c, d, S) == \/ FirstOf(c, S) < FirstOf(d, S)
                   \/ FirstOf(c, S) = FirstOf(d, S) /\ c < d
Documented ==
  CHOOSE s \in [1..NbCpus -> Cpu] :
    \A i, j \in 1..NbCpus : i < j => Before(s[i], s[j], Cpu)
Within(i, x) == Min(ToSet(x)) <= i /\ i <= Max(ToSet(x))

(* The cores an option names, and whether the numbers in it exist.         *)
CoreOptions == Places("cores") \cup Places("phys-cores")
NamedCores(x) ==
  LET order == IF x.o = "cores" THEN Documented ELSE Ascending(Cpu)
  IN {order[i + 1] : i \in {j \in 0..(NbCpus - 1) :
                              \E k \in DOMAIN x.list : Within(j, x.list[k])}}
NumbersExist(x) == \A k \in DOMAIN x.list : Len(x.list[k]) = 1 => x.list[k][1] < NbCpus

(* The solver runs on the cores that the last --cores or --phys-cores      *)
(* names, counted in the documented order, if the numbers exist and if the *)
(* machine has at most GroupSize cpus; and it keeps them when the main     *)
(* thread moves away.                                                      *)
CoresAsAsked ==
  Executes /\ CoreOptions # {} /\ NbCpus <= GroupSize =>
    LET x == line[Max(CoreOptions)]
    IN NumbersExist(x) /\ NamedCores(x) # {} => affinity.solver = NamedCores(x)

(* The list "running on n cores" names every core of the mask, and given   *)
(* back to --phys-cores it selects the same mask.                          *)
PrintedSelects ==
  main = "output" /\ NbCpus <= GroupSize =>
    Selections(Printed(AllocatedCores(own)), ExistingCores(TRUE)) = {own}

(* The main thread and the watcher thread stay on one core, the last one   *)
(* in this order of those the solver was given; the time stamper shares    *)
(* all the cores of the solver.                                            *)
OnLastCore ==
  main \in {"wait", "join", "stream", "done"} /\ NbCpus <= GroupSize =>
    /\ LET cores == affinity.solver
       IN own = {c \in cores : \A d \in cores : ~ Before(c, d, cores)}
    /\ affinity.watcher = own /\ affinity.stamper = affinity.solver

(* The flags of the summary explain a stop: a run that was stopped and is  *)
(* reported neither TIMEOUT nor MEMOUT was stopped by a signal or by -R,   *)
(* or ended exactly at the limit, or its CPU time was counted twice, or    *)
(* the kernel lost a part of it with a child that nobody waited for.       *)
FlagsExplained ==
  report.written /\ stopReason # "null" /\ ~ report.timeOut /\ ~ report.memOut =>
    \/ stopReason \in {"user", "memory"}
    \/ stopReason = "wall" /\ level.end = 1
    \/ stopReason = "vsize" /\ level.vsize = 1
    \/ stopReason = "cpu" /\ \/ report.cpu = 1
                             \/ level.counted > level.cpu
                             \/ level.lost /\ report.cpu < level.cpu

(* The report is about a run that is over: every process has been reaped,  *)
(* a status has been stored, and it is the solver's if it had no           *)
(* descendant (an adopted descendant may overwrite it).                    *)
ReportComplete ==
  report.written =>
    /\ \A p \in Solvers : proc[p] \in {"none", "gone"}
    /\ report.status # "none"
    /\ proc["descendant"] = "none" => report.status = "solver"

(* lastDisplayedElapsedTime, which nothing initialises, has been written   *)
(* when the history is dumped; or else the run was over before the first   *)
(* sample: the watcher stopped nobody, and the history compares it with    *)
(* nothing but the empty sample of the constructor.                        *)
HistoryKnown ==
  report.written =>
    \/ samples = "displayed"
    \/ samples = "empty" /\ killed = {} /\ stopReason \in {"null", "user"}

(* Once the solver's processes have ended or a stop was requested,         *)
(* runsolver ends, whichever call of the set-up failed.  Three ways around *)
(* it: a process that was forked behind the back of the last scan lives on *)
(* and waitpid waits for it; the time stamper waits for ever for a pseudo- *)
(* terminal that the forked process has not opened (an exception in the    *)
(* child, for instance --input without file); or, if there is no pipe, for *)
(* whatever the descriptor happens to be.                                  *)
Escaped == thread = "done" /\ \E p \in Solvers \ killed : Running(p)
NeverOpened == stream = "reading" /\ cfg.pty /\ ~ slaveOpened /\ Nobody
Strays == stream = "reading" /\ tube = "broken"
Forked == main \notin {"options", "output", "fork"}
Ends ==
  Forked /\ (Nobody \/ stopReason # "null") ~>
    main \in Terminal \/ Escaped \/ NeverOpened \/ Strays
=============================================================================
