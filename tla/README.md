# TLA+ verification of runsolver and the solver drivers

The repository compares pseudo-Boolean solvers. Every measurement in it is made
by `runsolver` (`src/runsolver/src`): it starts a solver, samples the tree of
its processes in `/proc`, enforces limits on time and memory, stops the solver
with SIGTERM and then SIGKILL, and reports what was used. Three small drivers
(`src/SCIP`, `src/GUROBI`, `src/MAXSAT`) translate OPB files for the solvers.
The project models what decides whether a measurement can be trusted: the set-up
that a command line gives, the supervision of the processes, the accounting, the
records of a run, the path of the output and the end of the run, and the
translations of the drivers.

## 1. Inventory

| Component | State | Operations | Interacts with |
| --- | --- | --- | --- |
| Supervision, `Watcher.hh` | `solverIsRunning`, `stopSolverRequested`, `stopReason`, `stopSolverState`, pacing counters, limits | `watchPID` (main thread), `operator()` (watcher thread), `stopSolver` (also called by the signal handler of `runsolver.cc`) | shares all its fields between three actors without a lock; samples through `ProcessTree`; the kernel |
| Process tree, `ProcessTree.hh`, `ProcessData.hh` | map pid -> data, roots, `treeHasAllProcesses` | `readProcesses` (full scan), `updateProcessesData`, copy, sums, `sendSignalNow`, `sendSignalBottomUp`, `dumpHeavyProcesses` | reads `/proc` while the solver forks and exits; `kill(2)` |
| CPU time, `Watcher.hh`, `ProcessData.hh` | `currentCPUTime` (watcher thread), `completedCPUTime` (main thread), RUSAGE_CHILDREN | sum over the tree, `getrusage` after each `waitpid`, the limit, the report | both threads and the kernel's accounting |
| Process history, `ProcessHistory.hh` | ten cells of two samples; owns the samples | `push`, `dumpHistory`, destructor | `procTree` and `lastProcTree` of the watcher point into it |
| Output filter, `CircularBufferFilter.hh` | byte count, circular buffer | `write`, `systemWrite`, `flush` | written to by the time stamper, flushed by the destructor |
| Time stamper, `TimeStamper.hh` | watched descriptors, `EOLBefore`, `incompleteLineSent`, last CPU time (mutex) | `timeStampLines`, `readFrom`, `setCPUtimeFromAnotherThread` | pipe from the solver, the watcher thread, the filter |
| Start and end, `runsolver.cc` | fields of `RunSolver`, list of kernel limits, pipe or pseudo-terminal, three threads | `main` (options), `run` (parent and forked child), `selectCores`, `watchdog`, signal handler | fork, exec, `setrlimit`, threads; calls `watchPID`, joins the time stamper |
| Cores, `Cores.hh` | affinity masks of the kernel | `getExistingCores`, `getAllocatedCoresByProcessorOrder`, `printAllocatedCores` | `/sys`, `sched_setaffinity`, `selectCores` |
| IPC queues, `Watcher.hh` | `listAllProcesses` | `cleanupIPCMsgQueues` | full samples, `/proc/sysvipc/msg` |
| Summary, `ExecutionSummary.hh` | flags TIMEOUT and MEMOUT, status, CPU time | end of `watchPID` | limits, report |
| Drivers, `pb_scip.cpp`, `pb_gurobi.py`, `pb_rc2.py` | variable tables, constraints, incumbent | parsing, translation, callbacks, alarm | solver libraries, whose numbers are doubles with tolerances |
| Line splitter, `vlineSplitter.cc` | current line | main loop | stdin, stdout |
| Others | | `ProcessList.hh`, `Observer.hh` (unused), `SignalNames.cc` (a table), scripts, logs, results | |

What is hard, and hardly reached by a test:

- three actors on unlocked fields: the two stores of `stopSolver` are not
  atomic, and `solverIsRunning` is cleared by two threads;
- a sample is not a snapshot: while `/proc` is read processes fork, exit, are
  reaped and adopted by runsolver (a child subreaper), and nine samples out of
  ten re-read the pids of the previous one;
- the CPU time compared with the limit is the sum of two numbers taken by two
  threads at two moments;
- SIGKILL is sent from two places, one of which tests nothing;
- the main thread ends on ECHILD, the watcher thread on a flag, on an empty
  sample, or on the end of the stop protocol, and the report needs both;
- which sample is freed by a push depends on the number of pushes before;
- a chunk of output may cross the limit, go around the buffer, or cut a line, at
  any byte, and signals interrupt the thread that reads it;
- the options act one by one, in the order of the command line, on fields that
  several of them share; kernel limits, redirections, cores and threads are set
  up from them in several places, and each call may fail;
- who has the pipe open, and which cores a thread inherits, depends on the order
  of the calls of `run`;
- the drivers normalise negated literals, and the RC2 driver shares its variable
  numbers with an encoder that takes new ones; libraries call back and alarms
  strike in an order no test chooses, and work up to a tolerance.

What makes each component correct is stated as properties in section 3. The
list of the hazards, each at its line, is in `PROJECT.json`.

## 2. Modules

```
Kernel          the forest of processes, fork/exit/wait/kill (external)
  ProcessTree   EXTENDS Kernel: scans, updates, traversals, signals
    Watcher     EXTENDS ProcessTree: the supervision
      WatcherProofs
    CpuTime     EXTENDS ProcessTree: the accounting
      CpuTimeProofs
Supervisor      what the supervision promises; Watcher is shown to implement it
SumTheorems     sums over finite sets and powers of two (lemmas); the
                proof modules of CpuTime, ProcessHistory, Output and LineSplitter,
                LinearDrivers, Rc2Driver and RunSolver EXTEND it
ProcessHistory  the samples that are kept
  HistoryProofs
TimeStamper     the lines of the output and their stamps
OutputFilter    the limit on the output; also what the filter promises
Output          EXTENDS TimeStamper, OutputFilter: from the pipe to the file
  OutputProofs  about Output and LineSplitter
Cores           the numbers of the cores, their selection and printing
  Options       EXTENDS Cores: the command line
    RunSolver   EXTENDS Options: a run, from the command line to the report
      RunSolverProofs
      MCRunSolver
LineSplitter    the "v" lines of the competition
  OutputProofs
  MCLineSplitter
Opb             the format of the drivers' files and its meaning
  LinearDrivers     the drivers of SCIP and Gurobi
    LinearProofs
    MCLinearDrivers
  Rc2Driver         the driver of RC2
    Rc2Proofs
    MCRc2Driver
```

**Kernel** is code that is not in the repository, modelled from how runsolver
uses it. A process is free, alive, a zombie, gone (reaped) or foreign (its pid
belongs to somebody else). `Exit` gives the children to runsolver, because
`RunSolver::run` sets PR_SET_CHILD_SUBREAPER. A process that was sent SIGKILL
does not fork any more and ends at some later time; SIGTERM may be ignored.
`PidsWrap` says whether pids wrap around during the run: if not, a child has a
higher pid than its parent; if so, any free pid may be taken, and the pid of a
reaped process may go to a stranger.

**ProcessTree** models a sample as the steps that read it. `tree[p]` is the
parent of `p` in the sample; being a root is `tree[p] = Runsolver`. A full scan
(`readProcesses`) reads one entry of `/proc` per step in increasing order of
pids; an update visits the tree from its roots and drops whoever is gone, and
starts a full scan if a root is gone. `Reached` is what every recursive
traversal of the code meets; it is defined as the intersection of the closed
sets and not recursively, so that it can be used in proofs. A signal round is
one `kill` per step, children first. Threads (tasks) are left out: every sum
and every signal skips them. The fields of a process other than its parent are
left out here; CPU time is in CpuTime, and sizes appear as the choice, in
`CheckLimits`, of the limits the sample exceeds.

**Watcher** has one action per step of each of the three actors.

| Code | Actions |
| --- | --- |
| `watchPID` | `ReapChild`, `NoMoreChildren`, `Join` |
| `stopSolver` in the handler | `FlagFirst` or `ReasonFirst`, then `SecondStore`: the two stores are plain and the compiler may order them either way |
| top of the loop, sleep, start of `readProcessData` | `Tick` |
| reading `/proc` | `Sample` |
| `break`, or the loop condition | `LeaveLoop` |
| limits at the end of `readProcessData`, pacing counters, display | `CheckLimits`, `Displayed` |
| `if(stopSolverRequested)` | `KeepWatching`, `NoticeStop`, `SendSIGTERM`, `WaitBeforeKill`, `SendSIGKILL`, `SignalProcess`, `SignalsSent` |
| after the loop | `Sweep`, `SignalProcess`, `EndOfThread` |

The handler runs on top of the main thread, which is why the actions of the
main thread need `handler = "idle"`. `stopSolver` called by the watcher thread
itself is one step: the handler's stores commute with it. `abortChild` is never
set by the code and is left out. The clock counts ticks of 0.1 s; a tick may be
late by up to `MaxLate`. `displayProcessData` may scan `/proc` again into the
current sample when the solver uses little CPU (`Display`); when it does is
left open.

**Supervisor** is the abstract promise: processes are left alone until a stop
is asked for, are then warned, are doomed only when the delay has passed, and
the end is noticed only when nobody is left. It knows neither samples nor
threads. `Watcher!KeepsPromise` is its specification under a refinement
mapping.

**CpuTime** keeps the kernel's accounting (own time, time of waited-for
children, RUSAGE_CHILDREN) next to what the two threads read of it, step by
step. A solver process may ignore SIGCHLD (`IgnoresChild`): the kernel then
credits the time of its children to nobody, which `discarded` counts.

**ProcessHistory** models `push` as one action: the loop of the code ends at
the first cell with room, so the effect is given by the number of full cells
before it. `history[c][i]` is the code's `history[2*c+i]`; a sample is its
number, standing for its elapsed time. The heap is explicit, so that a sample
used after it was freed, freed twice or leaked can be seen. The action of the
watcher thread (`ReadProcessData`, `SolverEnded`) moves `procTree` and
`lastProcTree`.

**TimeStamper** models one watched stream: both outputs of the solver go to one
pipe, the switch that separates them being undefined in `runsolver.cc`. A byte
is its number, with whether it ends a line and when it was written; the output
is a sequence of bytes, stamps, newlines and the EOF line. `ReadChunk` is
`readFrom` up to its loop, `WriteLine` one round of the loop, `WriteRest` what
follows it; `Interrupted` is a failing `select`. The pipe has a capacity, so
that the solver can be seen to block when nobody reads.

**OutputFilter** numbers the bytes in the order they are received. The copy
into the circular buffer is given by the set of bytes that fall on each slot.
`systemWrite` is a step per `write(2)`, which may be partial or fail. `Killed`
is the SIGABRT of the watchdog, which loses the buffer.

**Output** composes the two as `runsolver.cc` does: what a step of the thread
writes is one `write` of the filter (`ThroughFilter`), which returns when all of
it is on its way; `run` joins the thread (`Joined`), and only then does the
destructor flush. The numbers of the filter are here positions in the
output of the time stamper, so that one property can follow a byte of the solver
to the file. Every step of the composition is a step of the filter or leaves the
filter alone.

**Cores** has pure functions: the numbers under which cpus are read from the
text of a mask, commas included (`ReadAs`), the order by processor, the list
that is printed, and the masks a core list may ask for. An individual number
that is too large reads behind a vector, which gives any value. **Options** has
one action per option of the `switch` in `main`, taken from left to right, and
`EndOfOptions`, where the limits on memory are set. Of the integers it keeps
what matters: the product of `-O` is taken modulo the width of an int, or
exactly if the compiler computed in a wider type (signed overflow).

**RunSolver** is `run`: pipe or pseudo-terminal, thread, fork, the steps of the
forked child until `execvp`, the last core, the watcher thread, the wait, the
report, the join. The supervision and the stream are reduced to what the rest can
see of them: which limits a sample exceeded, what the last sample of the history is
(at first the empty one that the constructor of Watcher pushes), whom the last
sample holds (`seen`), who was killed, whether somebody can still write. SIGKILL
goes to `seen`, by the kill round (`FinishTick`) and by the sweep, which follows a
last scan as a step of its own (`LeaveLoop`, `Sweep`): a process forked in
between is not among them. That the scan and the signals take several steps each
is left to module Watcher: who is forked before a process's turn comes counts as
forked before or after the whole. A limit has three levels, below, at and above it,
because the watcher compares with >= and the summary with >. The CPU time of the
summary is RUSAGE_CHILDREN (`RUsageChildren`), which lacks the time of a child
whose parent ignores SIGCHLD (`level.lost`). The solver may have a descendant and
that one a child, which runsolver adopts if their parents end first. `SetupFails`,
`RedirectInput`, `RedirectOutput`, `Execute`, the thread that is not created
(`stream = "failed"`) and the pipe that is not created, which the code does not
notice (`tube = "broken"`), are the failures of the set-up; the kernel refuses a
limit above the hard one (`Accepted`). A command line is a sequence of records; the module takes
the set of them as a parameter.

**LineSplitter** models `vlineSplitter.cc`: a line is its words and whether a
blank follows; a round of the loop over the literals is a step. `printed` is `cout`,
`literals` what is left in the `istringstream`, and `read` the number of lines taken
from `cin`. Its names have `Splitter` in them where Output has the same ones, because
OutputProofs is about both.

**Opb** gives the meaning of a linear file and `Parsed`, the representation all
three drivers use (`c ~x` becomes `c - c x`). All three turn the text of a number
into a double first (`std::stod`, `float`): `Double` rounds to the nearest one, with
`LastExact` in the place of 2^53. An expression has each variable once.

**LinearDrivers** has one action per statement for each of the two drivers, because
they treat the constants differently, then the library's reports, the callbacks and
the answer. The library is external: it reports what it accepts for a solution of
the rows it was given and stops with a proof or with the time limit. It accepts a
point that misses a row by one part in `Tolerance` of the row's coefficients
(`Accepted`), and stops when no exact solution is better by more than that: which
row is missed, and by how much, is left open. What the repository measured
(`src/results/README.md:37,202-206`, `src/results/gurobi_scip/README.md:24,92`,
`src/results/sixty_sec/README.md:34,75,89`: SCIP prints a `v` line that violates a
constraint with huge coefficients) is a behaviour of the model.

**Rc2Driver** keeps the numbers of the names (`name_to_id`), `next_var` and the
encodings. The encoder is external: an encoding holds exactly for the assignments
that satisfy the constraint and in which its auxiliary has the value the encoder
defines, here that of a literal of the constraint; one auxiliary is enough for a
number to be used twice. The encoder is told `top_id = next_var - 1`, which does not
count the names that the same constraint has just introduced; whether it begins
behind `top_id` or behind its literals too is left open (`Starts`). Its `nv` is the
largest number in the clauses (`LastNumbers`), and `next_var` becomes `nv + 1`
whatever it was (`Advanced`): it moves back after an encoding without auxiliaries.
The alarm (`TimeLimit`) may strike before any step.

In each module the definitions marked *Mutant* are wrong versions of the
definition that follows; they are used by nothing, and a run must fail when one
of them takes the place of the right one.

## 3. Runs

All runs are listed with their properties in `PROJECT.json`.

| Run | Bounds | Shows |
| --- | --- | --- |
| `watcher` | 3 pids, no wrap, CPU and wall limits, delay 2 ticks, full scan every 3 ticks, wake-up at most 1 tick late | `ScanComplete`: a full scan misses nobody who lives through it. `SweepComplete`: who outlives the watcher thread unkilled was born after the last scan began. `KeepsPromise`: refinement of Supervisor |
| `watcher_live` | 2 pids that wrap around, the solver has the higher one, signals to runsolver, wall limit, delay 2 ticks, fairness | `KillAfterGrace`, `NobodyLeft`, `StopEnforced`, `Termination`, `ReasonAnnounced` |
| `cputime` | 3 pids, 2 units of CPU time, children may be ignored | `TreeNeverOvercounts`, `ReportExact` |
| `history` | 4 cells, 40 samples | `HeapIsHeld`, `CurrentAlive`, `Chronological`, `LastShown`, `Spaced` |
| `output` | chunks of up to 3 bytes, pipe of 3, 4 bytes, 2 instants, the first 2 tokens and a buffer of 3, gives up at the second failure of `select` in a row, EOF line, writes partial or failing, abort at any step, fairness | `LinesStamped`, `StampsLate`, `EofAlone`, `FirstAndLastBytes`, `PrefixBefore`, `FileComplete`, `Drained` |
| `runsolver` | 32 command lines that combine the options that interact, up to three processes of the solver (two descendants with three of the lines, one with the other lines about outputs and limits, none with the rest), four cpus of two processors, two affinity masks at the start, hard limits that refuse some of the limits asked for, ints of 6 bits with a "MiB" of 4, all failures of the set-up, fairness | the set-up is what the command line asks for in any order (`SoftBeforeHard`, `FilterAsAsked`, `OutputRouted`, `CoresAsAsked`, `PrintedSelects`, `OnLastCore`), the report is about a run that is over (`FlagsExplained`, `ReportComplete`, `HistoryKnown`), and runsolver ends (`Ends`) |
| `splitter` | all pairs of 16 lines, with and without stamps, and triples with an unstamped line; pieces of 3 characters, words of 1, 2 and 4 | `WordsKept`, `PiecesFit` |
| `linear_drivers` | 2 variables, 2 statements of up to 2 terms, coefficients -1, 2 and 9, right-hand side 1, integers exact up to 8, a tolerance of one part in 6, 3 `o` lines | `AnswerTrueUnlessTwiceOrLarge`, `ObjectiveShown` |
| `rc2` | 3 variables, 2 statements of up to 2 terms, coefficients -1 and 2, right-hand side 1, integers exact up to 4, encoders that heed their literals and that do not | `AuxiliariesAscend`, `AnswerTrueUnlessReusedOrRounded`, `OneAnswer` |

Why the bounds are enough. Three pids are a parent, a child and a grandchild,
or a parent and two children: the smallest forests in which an orphan with a
descendant is adopted during a scan, in which one process is killed while
another one forks, and in which a process is reaped by its parent rather than
by runsolver. A delay of two ticks has a beginning, a middle and an end; three
ticks between scans make updates follow updates. The counters that could grow
(`elapsed`, `grace`) saturate at the largest value a guard tells apart. Four
cells and 40 samples let the last cell overflow several times (the first time
at sample 30). Four bytes in chunks of up to three hold a line that spans two
chunks, two lines in one chunk, and an end of line at each end of a chunk; with
their stamps and the EOF line they are up to ten tokens, which go around a buffer
of three more than twice, and one write of four goes around it by itself. The
code's ten failures of `select` differ from two only in number. Four cpus
numbered alternately are the smallest machine on which the order by processor
differs from the order of the numbers, an affinity mask of the two in the middle
one on which the first processor is not the first in the order. The command lines
give every pair of options that write the same field, in both orders where the
order could matter, values that overflow and that do not, and core lists inside,
across and beyond the number of cores. More command lines of the same kind only
repeat these cases: an option is handled without looking at the others. Words
of 1, 2 and 4 characters end a piece of three exactly, beyond it, and alone.
A third process, forked by the
second, is what escapes a scan that has found its parent. In the drivers coefficients
of -1 and 2 give every sign, a difference of 1 between two values, and a
right-hand side that an encoding can be below, at or above; a third name is what
the second constraint needs to introduce one. A coefficient of 9 is the first odd
number that is no double, and leaves its row a slack of 1, the least that matters;
-1 and 2 leave none, so that the run holds the drivers to their answers there. In
`rc2` no number is rounded: that the exception `Rounded` is the right one is what the
theorem shows. The names are interchangeable, which the configurations use as a
symmetry.

Fairness. In `output` the thread, the writes of the filter and the end of
`run` are scheduled and return (`WF` of `Stamping`, `Writing`, `Ending`; the
failing `select`, the solver and the clock are free). In `runsolver` the main
thread, the forked child until its exec, the watcher thread and the end of the
stream are scheduled, and a process that was sent SIGKILL ends; the solver, the
clock and the failures are free. In `watcher_live` both threads are scheduled and their system calls
return (`WF` of the steps of the watcher thread and of the main thread); a
handler that has begun is completed; the kernel ends a process that has
received SIGKILL. Nothing is assumed of the solver: it may ignore SIGTERM, fork
or loop forever. Weak fairness is enough because no step of one actor disables
a step of another one for ever.

Disagreements between the code and its documentation, each shown by a run that
finds a counterexample (`findings` in `PROJECT.json`):

- `cputime_early`: a process reaped between the sample and the comparison with
  the limit is counted twice, and the solver is stopped early;
- `gurobi_negated`: the constant that a negated literal leaves behind is
  subtracted from the right-hand side and stays on the left-hand side, so that
  the driver solves another problem;
- `rc2_reused`: a name that is new in a later constraint gets the number of an
  auxiliary variable of an earlier one.

The properties that end in *Unless...* say that the answer is true but for the
condition they name. `AnswerTrueUnlessTwiceOrLarge` leaves out the files with a
statement whose numbers, signs apart, add up to the tolerance of the library or more,
where the repository itself has seen a false answer;
`AnswerTrueUnlessReusedOrRounded` those in which a number of a variable is used twice
or a number of the file is not a double. For the other files they take the libraries
at their word: a row is missed by no more than the tolerance, RC2 and the encoder
are exact.

More limits of the code are visible in the models and are not runs of their own:

- a process forked after the SIGTERMs, and found by a later scan, receives
  SIGKILL without a warning; a process forked behind the back of the last scan
  outlives the watcher thread (the exception in `Termination`, and what
  `SweepComplete` does not exclude);
- with pids that have wrapped around a full scan may miss a process whose parent
  has a higher pid (`ScanComplete` is checked without wrapping), and an update
  may read a stranger who has taken over a pid;
- the watcher thread prints `stopReason`, a null pointer, if it does so between
  the two stores of the handler and the flag is stored first
  (`ReasonAnnounced` says that this is the only way);
- the "Child status" of the report is that of the last child reaped, which may be
  an adopted orphan (`Watcher.hh:271`, `ReportComplete`), and without a limit
  runsolver waits for the children that an ended main process leaves behind;
- `TIMEOUT` and `MEMOUT` are compared with `>` where the watcher stops at `>=`,
  MEMOUT ignores `-R`, and the CPU time is RUSAGE_CHILDREN, without the time of
  children whose parent ignores SIGCHLD (`Watcher.hh:362-371`, `437-440`): the
  exceptions of `FlagsExplained`;
- `lastDisplayedElapsedTime` is never initialised (`Watcher.hh:68`): if the solver's
  processes have ended before the first tick, `dumpHistory` compares it with the
  empty sample of the constructor (`ProcessHistory.hh:105`), which may then be
  displayed or not. `HistoryKnown` says that this is the only way, and that nobody was
  killed on it;
- a process forked behind the back of the last scan lives on and the main thread
  waits for it, as long as it runs (`Watcher.hh:628-639`): an exception of `Ends`;
- `pipe` is not tested (`runsolver.cc:756`): the solver then writes to whatever the
  uninitialised descriptors are, and the time stamper reads from there, perhaps for
  ever: an exception of `OutputRouted` and of `Ends`;
- with `--use-pty` and `--timestamp`, a child that throws before it opens the slave
  (`--input` of a file that does not exist, `runsolver.cc:818`) leaves runsolver
  waiting in `pthread_join` for ever (`runsolver.cc:964`): the third exception of
  `Ends`;
- a time stamper thread that could not be created is joined all the same, through
  an indeterminate id (`runsolver.cc:783`, `964`);
- the watchdog aborts runsolver (`runsolver.cc:1185`): the solver goes on
  unsupervised and what is in the filter is lost;
- `-C 0` switches off the watcher's limit but gives the kernel one of 30 s, and a
  refused kernel limit is only reported (`runsolver.cc:138-154`): the exceptions
  of `SoftBeforeHard`;
- `--output-limit` overflows an int from 2048 MiB on and accepts a negative start
  (`runsolver.cc:1249-1256`): the exceptions of `FilterAsAsked`; and
  `--add-eof` always ends in an exception (no `break`, `runsolver.cc:1276`);
- beyond 32 cpus the commas of the masks shift the numbers (`Cores.hh:57`, `121`),
  and an individual core number is not checked (`runsolver.cc:642`): the
  exceptions of `CoresAsAsked`;
- the time stamper thread starts before the main thread moves to the last core, and
  keeps all the cores of the solver (`runsolver.cc:929`, `OnLastCore`);
- ten signals in a row make the time stamper give up (`GaveUp`), and its EOF line
  goes through `watched[0]` after the vector was emptied;
- `--add-eof` throws (see above), so that the branch of `TimeStamper.hh:205-216` that
  `EofAlone` is about is reached by no command line of the program as it is built;
- with `--timestamp`, vlineSplitter takes the first word of any line for a stamp:
  the unstamped notice of the filter swallows the line after it, which is why
  `WordsKept` asks for a stamp on every line;
- the SCIP driver drops the constant of the objective, and the Gurobi driver asks
  for the sense of the model before the model is updated, so that the `o` lines of
  a `max:` problem get worse (both are named in `ObjectiveShown`);
- large coefficients: SCIP and Gurobi may accept a point that violates an integer
  constraint (`LargeConstraint`), and call optimal what is not (`LargeObjective`);
- the RC2 driver overwrites `next_var` with the largest variable of the last
  encoding plus one (`pb_rc2.py:151`, `157`, `163`; line 165 only takes the maximum with
  the number of names plus one). After a constraint without auxiliaries the next
  encoding takes the auxiliaries of an earlier one again, so that two constraints
  share variables they define differently (`IdReused`; `AuxiliariesAscend` says that
  this is the only way);
- the alarm of the RC2 driver may add `s UNKNOWN` after another `s` line
  (`OneAnswer` says that nothing else can).

## 4. Proofs

TLC checks small instances; the theorems hold for every value of the constants
that satisfies the named assumptions `KernelAssumption`, `WatcherAssumption`,
`CpuAssumption`, `HistoryAssumption`, `FilterAssumption`, `StamperAssumption`,
`SplitterAssumption`, `CoresAssumption`, `OptionsAssumption`, `RunSolverAssumption`,
`OpbAssumption`, `DoubleAssumption`, `DriverAssumption` and `Rc2Assumption`. They give the types of the parameters (the
set of names is finite, `LastExact` positive); `DoubleAssumption` says that rounding the
numbers of a file gives integers, as the prover knows nothing of the powers of two
in `Spacing` (TLC evaluates it for the numbers of each run), `DriverAssumption` that
the tolerance is not finer than a double, `Rc2Assumption` that the encoder either heeds
its literals, or does not, or may do both; `RunSolverAssumption` that the descendants are
those of `Parent`; `FilterAssumption` also says that the start of the limit is below
its end, which `main` enforces, `SplitterAssumption` that a word has a character
(`operator>>` reads no empty one), and `OptionsAssumption` that the arguments of the
numeric options are numbers, that an int is narrower than an unsigned long long, that
the parts of a list of cores that could be read are one or two numbers (a `size_t` of
`selectCores` each), and that the cpus runsolver is started on exist.

| Theorem | Module | States |
| --- | --- | --- |
| `TypeCorrect` | WatcherProofs | the types of the supervision |
| `NobodyIsLeft` | WatcherProofs | `NobodyLeft`: ECHILD means that no solver process exists, wrapped pids or not |
| `KillsAfterGrace` | WatcherProofs | `KillAfterGrace`: no SIGKILL before a request, the SIGTERMs and the whole delay |
| `ReasonIsAnnounced` | WatcherProofs | `ReasonAnnounced`: a null reason is printed only inside the window of the handler |
| `PromiseKept` | WatcherProofs | `KeepsPromise`: Watcher implements Supervisor, wrapped pids or not |
| `ScansMissNobody` | WatcherProofs | `ScanComplete`, if pids do not wrap |
| `SweepsMissNobody` | WatcherProofs | `SweepComplete`, if pids do not wrap |
| `TypeCorrect` | HistoryProofs | the types of the history: push stays inside the cells |
| `HistoryIsChronological` | HistoryProofs | `Chronological` |
| `NothingLeaks` | HistoryProofs | `HeapIsHeld`: no sample is leaked or deleted twice |
| `CurrentIsAlive` | HistoryProofs | `CurrentAlive`: the sample in use is never a deleted one |
| `PrecisionHalves` | HistoryProofs | `Spaced`: the cells keep every 2nd, 4th, 8th... sample, however many cells |
| `LastIsShown` | HistoryProofs | `LastShown`: the dump shows the most recent sample that was not displayed |
| `TypeCorrect` | CpuTimeProofs | the types of the accounting |
| `EverythingIsAccounted` | CpuTimeProofs | each unit of CPU time is in exactly one of the kernel's accounts |
| `ReportIsExact` | CpuTimeProofs | `ReportExact`: the report is the sum of what all the processes used |
| `SampleNeverOvercounts` | CpuTimeProofs | `TreeNeverOvercounts`, if pids do not wrap |
| `FileEndsComplete`, `FileIsPrefix` | OutputProofs | `FirstAndLastBytes` and `PrefixBefore` of the filter alone, for chunks of any length |
| `StampsAreLate`, `EofIsAlone` | OutputProofs | `StampsLate` and `EofAlone` |
| `FilterImplemented` | OutputProofs | the composition implements the specification of the filter |
| `LinesAreStamped` | OutputProofs | `LinesStamped`: every byte once and in order, a stamp before each line and nowhere else |
| `FileIsComplete` | OutputProofs | `FileComplete`: what the solver wrote is in the file at the end |
| `WordsAreKept` | OutputProofs | `WordsKept`: no literal of the answer is lost, repeated, moved or given another stamp |
| `PiecesAreFit` | OutputProofs | `PiecesFit`: the pieces of a `v` line keep the limit, and no line is cut without need |
| `OutputEndsComplete`, `OutputIsPrefix` | OutputProofs | `FirstAndLastBytes` and `PrefixBefore` of the composition |
| `ReportIsComplete`, `HistoryIsKnown`, `FlagsAreExplained` | RunSolverProofs | `ReportComplete`, `HistoryKnown`, `FlagsExplained` |
| `OutputIsRouted`, `WatcherComesFirst`, `FilterIsAsAsked` | RunSolverProofs | `OutputRouted`, `SoftBeforeHard`, `FilterAsAsked`, for every set of command lines |
| `CoresAreAsAsked` | RunSolverProofs | `CoresAsAsked`: the solver gets the cores the last option names, in the documented order |
| `PrintedCoresSelect`, `StaysOnLastCore` | RunSolverProofs | `PrintedSelects` and `OnLastCore`, for every machine and every mask at the start |
| `TypeCorrect` | LinearProofs, Rc2Proofs | the types of the drivers |
| `AnswersAreTrue` | LinearProofs | `AnswerTrueUnlessTwiceOrLarge`, for every file |
| `ObjectiveIsShown` | LinearProofs | `ObjectiveShown`: the `o` lines improve and end at the incumbent |
| `AuxiliariesDoAscend` | Rc2Proofs | `AuxiliariesAscend`: no two encodings share an auxiliary as long as every one has one |
| `AnswersAreTrue` | Rc2Proofs | `AnswerTrueUnlessReusedOrRounded`, for every file |
| `AnswersOnce` | Rc2Proofs | `OneAnswer`: one answer, after which only the alarm speaks, once |

*NobodyIsLeft.* `NobodyLeft` is not inductive: that runsolver has no child says
nothing of the other processes. The invariant `Forest` says that the parent of
an existing process is runsolver or alive (`ParentRuns`), and that every nonempty
set of existing processes has a member whose parent is outside the set
(`Acyclic`). The second part is what "no cycle" means without an order of the
pids, which wrap around. If runsolver has no child, the set of all existing
processes has no such member, so it is empty. Each step of the kernel keeps both
parts: `Exit` gives the children to runsolver, `Fork` adds a process that nobody
has as a parent.

*KillsAfterGrace.* SIGKILL is sent by the kill round and by the sweep, and the
sweep tests nothing. `ProtocolInv` ties `stopSolverState`, `grace` and the
position of the thread together; `LeftInv` says why the loop was left: the
protocol is over, or nobody is left. In the second case the last scan has found
nobody, so the sweep signals nobody (`NoRootsNobody`). `Due` is the guard that
makes a SIGKILL allowed, and once true it stays true.

*PromiseKept.* The mapping looks at the processes that are alive only, so that
the pid of a reaped process may be used again. With the invariants above and
`FreeUnsignalled` (a process that was not forked has no signal pending) each
step of an actor is a step of Supervisor or a stutter: a SIGTERM falls in the
phase "warning" by `ProtocolInv`, a SIGKILL in "waiting" after the delay by
`Due`, and the end after the last process by `NobodyLeft`.

*ScansMissNobody, SweepsMissNobody.* A full scan reads the pids in increasing
order. `Ordered` says that a parent has a lower pid than its children, which is
where the assumption is used; `PresentInv` that the parent of a process that ran
when the scan began ran then too, or is runsolver, which has adopted it. So when
the scan comes to a process its parent has been read (`HangingInv`): the parent in
the sample may be out of date, but it hangs from a root itself. `SweepInv` carries the
result over the last round of signals.

*The history.* `Chronological` alone is inductive only if it is known that the
most recent sample is `procTree` (`CurrentIsNewest`), because the next push puts
a newer one before it. `Ages` is their conjunction with `UsedFirst`, that the
cells in use come first. `PushCells` says cell by cell what a push does, and
`Sources` that each sample after it was received from the cell before or was
already there. Order follows by comparing sources. The samples in use are then
all different (`AllDifferent`), so that deleting one never deletes another:
`KeptIsHeap` and `HeapIsKept` are the two inclusions of `heap = Held`.
`UsedFirst` makes the destructor, which stops at an empty cell, meet them all.
`Spaced` is inductive with `Ages`: a full cell `c` passes on the older of two samples
`2^c` apart, so that two of them in turn are `2^c + 2^c` apart. The library defines a
power as a number of functions, so this sum is a lemma about the number of
subsets (`PowerDoubles`). For `LastShown`, `DisplayedIsOld` says that
the sample displayed last is not newer than `procTree`; the loop of `dumpHistory` is
unfolded by `LoopRuns`, and either its last round or `Newest` appends `procTree`.

*CPU time.* `Accounted` says that what all the processes used is what the existing
ones hold (their own time and that of the children they waited for), plus
RUSAGE_CHILDREN, plus what was discarded. A step of the kernel moves an
amount from one place to another; when ECHILD is seen nobody exists, by `Forest`, and
the second account is all. `TreeNeverOvercounts` needs more, because the time of a
child could be read twice: once in the child, and once in its parent which has
waited for it meanwhile. A process is read only after the one it hangs from, which has
the lower pid if pids do not wrap (an update follows the tree in any case).
`ReadSoFar` says so of the set that has been read, and that the sum of what was read
of it and of what everybody else holds now is at most `Total`. The
lemmas about the kernel are those of WatcherProofs, repeated here because
CpuTime has its own system calls on other variables.

*Sums.* The library gives a sum as a recursive function on subsets, under a CHOOSE.
SumTheorems shows that the function exists and unfolds (`SumUnfolds`). Its
induction (`SubsetInduction`) takes the set of the subsets that have a property, where
the library's takes an operator, and rests on the subset of least size that has
it not.

*The linear drivers.* `ModelOfFile` says that the rows and the goal the library was
given are those of the statements read so far, rounded and with the constants as the
driver treats them. `SmallIsAsWritten` and `NoSlack` are what the exceptions are about:
below the tolerance no number is rounded, the constant included, and no row has a
slack of 1, so that a point the library accepts satisfies it, the values being
integers. A row then admits the same assignments as its constraint unless Gurobi's
driver counts a constant twice, which `CountedTwice` names. `SearchInv` says what the
status and the incumbent mean for these rows, `OLinesInv` that the last `o` line is
the value of the incumbent and that each one is better than the one before.

*RC2.* `NumberingInv` says that names have numbers below `next_var`, that literals are
numbers of names (`Linked`), and that the auxiliaries ascend up to `next_var` as long as
no encoding without one comes between (`Ascending`), which is what is left of freshness
when `next_var` may move back. `AuxiliariesAscend` follows. `HardMeansFile` says that a
set of true numbers satisfies the encodings' constraints exactly if the values it
gives to the names satisfy the file as it was read (`ReadSatisfies`, with the
rounded numbers); `SoftMeansObjective` that the weights it pays are the objective up
to a constant. The positive form that the driver makes of an expression is shown to
have the same value (`PositiveForm`). A model of the clauses therefore gives an answer
that is true of the file as read, always (`ModelsAreFeasible`). That the file has no
solution when the clauses have no model, and that an optimum is one, needs the converse
(`FeasibleHasModel`): the auxiliaries are set to what the encoder defines, which is
possible if no two of them share a number, or one has that of a name (`IdReused`).
`NothingRounded` leads from the file as read to the file. For `OneAnswer`,
`PrintedInv` says what has been printed in each phase.

*The output.* `FirstAndLastBytes` speaks of the end only. `FilterInv` adds
`Buffered`, that each of the last bytes is at its own place of the buffer,
modulo its size, and `OnTheWay`, what the file together with the bytes being
written is at each stage. A chunk of any length keeps `Buffered` because two of
the last `bufferSize` bytes never fall on one place. The filter's theorems then
hold for the composition because it implements the filter's specification
(`FilterImplemented`): this needs the invariant of the thread, that `out` only
grows. `StampsAreLate` rests on `Clocks` (a byte that was read is not later than the
last stamp, which is not later than now) and `Late`, the property for the bytes
read so far; `EofIsAlone` on `AtEnd`, what `incompleteLineSent` knows of the last
token. `LinesStamped` is kept by `LineInv`: `Laid` says how bytes, stamps and
newlines follow each other in what was written, and `Seam` that a stamp is waiting at
its end exactly if the next byte begins a line, which is what `EOLBefore` tells the
next chunk. For `FileComplete`, `Counts` says that the filter has been given all that was
written, and that the thread ended because the pipe was empty and closed, or gave up;
`FirstAndLastBytes` and `EofAlone` do the rest. Both properties speak of the bytes of
the output by their places in it and not through `SelectSeq`, of which nothing could be
proved.

*The line splitter.* `WordsKept` compares two concatenations of any number of
sequences, the literals of the lines printed and of the lines given. `FlattenSeq` is a
fold: `JoinsExist` gives the sequence of the concatenations of the first lines, by
counting up to their number (`UpTo`), and `FlattenIs` says that the fold is its last
member. What one more line, or one more literal on the last line, adds to the content
are then lemmas (`ContentAppend`, `ContentLonger`). The property says nothing of what is
still in `literals`, so it is not inductive: `WordsInv` says that what was printed
followed by what is left of the current line (`Left`) is the content of the lines read
so far. A round of the loop moves one literal across that seam; that it goes to the piece
with the stamp of its line is part of `PieceInv`. `NextLine` says that, if every line
has a stamp, the next line is read as it was given, and `NoMoreIs` that the input ends
exactly when all the lines that count have been read. For `PiecesFit`, `PieceInv` says that
`len` is 0 or the characters of the last piece after its `v`, and at most the limit
(`CharactersOf` unfolds the sum over the words); `len = 0` inside a line therefore means
that the last piece is beyond the limit, or that none of the line has been printed.

*The run.* `StageInv` says what `thread`, the history and the report can be at
each place of the main thread. `OverInv` carries "every process has been reaped"
from ECHILD to the report: a zombie can come from nowhere then. `HistoryInv` says that a
sample is displayed in the tick that took it, and that before the first one nobody
is killed and only a signal can have asked for a stop: a loop that ends without a
sample was ended by waitpid. For `FlagsAreExplained`, `MeasureInv` says that the reason of a stop is a limit that
was asked for and reached, `UnmeasuredInv` that nothing is measured before the
options have been read, and `SummaryInv` that no sample is taken after ECHILD, so
that the flags say what the measures say, the CPU time being that of the children
that were waited for.

*The set-up.* `LineInv` says that what is left of the command line is its end, and
`SetupInv` that the fields say which options have been handled; at the fork all
of them have. An option that is given twice acts twice: `LimitInv`,
`OutputLimitInv` and their parts say that the fields, and the last limit of
their kind in the list, are those of the last option handled so far, which at the
end is the last one of the line. `KernelInv` carries the list to the child, where
each accepted limit replaces the one before. `Exact` says when the product in an
int is the product.

*The cores.* The code builds the order by processor in a loop over the cpus, which
Cores has as a recursive function; `ListsExist` shows that the function exists and
unfolds it. `Listed` is the invariant of the loop: after cpu `n` the list has the cores
of the processors met so far, in the order of the documentation. The documentation
allows one order only (`InOrderUnique`), so that `Documented`, which is stated without
the loop, is the list of the code (`DocumentedIs`). What a list of numbers selects is
then what it names (`SelectsExactly`), and the runs that `printAllocatedCores` prints
(`RunsBegin`, `Covered`) name the numbers of the cores and no others.
For the run, `CoreInv` ties the three masks to each other and to the place of the main
thread, `CoresInv` says that a mask obeys the last option handled so far. `Ranks` is
the lemma under all this: in a finite set of numbers, the number of smaller ones is
the place of each, which makes `Ascending` more than a CHOOSE. Everything assumes at
most `GroupSize` cpus, where the numbers of a mask are the numbers of the cpus; beyond
that they are not (section 3).

Left to TLC: the liveness properties (`StopEnforced`, `Termination`, `Drained`,
`Ends`), because fairness and ENABLED are out of reach of the prover. Every other
property of the passing runs is a theorem.

## 5. What is not modelled

- Threads of a process (every sum and every signal skips them), the displayed
  fields, the texts of the reports, the other numbers of the summary, the files of
  `-w`, `-v`, `--var` and `--bin-var`.
- The memory and size values: a sample may exceed any set of limits.
- A second stream of the time stamper, which only a build flag creates, and the
  CPU time in its stamps.
- A kernel limit that strikes: the solver may end at any moment, and why is left
  open.
- `/sys` or `/proc` files that cannot be read.
- The clean-up of IPC queues (`Watcher.hh:768-802`). It is one test per queue, of the
  pids that used it last against those that were seen in full samples: a property
  could only repeat the test. What may go wrong, that the pid belongs to another
  process by then or that the user was never seen, runsolver cannot know.
- What else happens when `pipe` failed and the uninitialised descriptors are taken
  for a pipe: a descriptor closed by mistake, for instance.
- Variables that occur twice in an expression, coefficients that are not
  integers, and texts that are not numbers (a statement that cannot be read is
  `ReadFails`).
- The inside of the solver libraries, but for their tolerance, and of the encoder,
  whose numbers are without bounds here.
- An objective coefficient of 0, which gives RC2 a soft clause of weight 0
  (`pb_rc2.py:176-177`): here it counts for nothing. Numbers beyond the largest
  double.
- The mutex of the output and the mutex of the time stamper (each protects a
  single critical section that calls nothing else).
- Signal names, version and help texts: constants.
- `ProcessList.hh` and `Observer.hh`, which the program does not use; scripts,
  logs, problem files and measurements.

The hazards listed in `PROJECT.json` name the properties that would catch them, or
say why none does: the IPC queues, as above, and half of `ProcessTree.hh:180`, because
nothing in the code keeps a stranger with a recycled pid from being signalled.
Three smaller ones have none, because nothing in the models depends on them: the
pause of `ProcessTree.hh:539`, written in octal (4.2 ms and not 20 ms), the list
of completed children, which grows with every orphan (`Watcher.hh:95`), and the
sizes of a task, which are not initialised (`ProcessData.hh:109`).

## 6. Plan

1. Supervision: Kernel, ProcessTree, Supervisor, Watcher, CpuTime; types,
   safety, refinement, liveness; theorems. *Done.*
2. Records: ProcessHistory with its proofs, OutputFilter. *Done.*
3. TimeStamper, one stream; Output composes it with the filter. *Done.*
4. Drivers: Opb, LinearDrivers, Rc2Driver. *Done.*
5. Start and end of a run: Cores, Options, RunSolver. *Done.*
6. LineSplitter. *Done.*
7. Proofs of the full scans, the refinement, the filter, the stamps, the report.
   *Done.*
8. Proofs of the accounting, the drivers, the precision of the history, the lines and
   the end of the file, the cores, the line splitter. *Done.*
9. Left: the parts of a sample that only the display reads (tasks, memory), and a
   second watched stream.
