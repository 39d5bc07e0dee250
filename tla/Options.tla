------------------------------- MODULE Options -------------------------------
(***************************************************************************)
(* The command line of runsolver (main and the setters of RunSolver).  The *)
(* options are handled from left to right; each changes the set-up of the  *)
(* run at once, or ends the program.  An argument is a record whose field  *)
(* o names the option.                                                     *)
(*                                                                         *)
(* Only what a run depends on is kept: of the limits, those that the child *)
(* will give to the kernel (the others of the vector are printed, not      *)
(* enforced); of the files, whether they were asked for.                   *)
(***************************************************************************)
EXTENDS Cores

CONSTANTS CommandLines,  \* the sequences of arguments to look at
          StartMasks,    \* the affinity masks runsolver may be started with
          HardDelay,     \* kernel CPU limit beyond the watcher's (30 s)
          Reserve,       \* vsizeSoftToHardLimit
          MiB,           \* 1024*1024
          IntHalf,       \* 2^31: an int is below it
          LongRange      \* 2^64: an unsigned long long is below it

(* The options whose argument n is a number.                               *)
Numeric == {"cpu-limit", "wall-clock-limit", "stack-limit", "vsize-limit",
            "rss-swap-limit", "watchdog"}

ASSUME OptionsAssumption ==
  /\ {HardDelay, Reserve, MiB, IntHalf, LongRange} \subseteq Nat \ {0}
  /\ 2 * IntHalf <= LongRange
  /\ \A args \in CommandLines :
       /\ args \in Seq(ToSet(args))
       /\ \A x \in ToSet(args) :
            /\ x.o \in Numeric => x.n \in Nat
            /\ x.o = "output-limit" => x.a \in Int /\ x.m \in Int
            /\ x.o \in {"cores", "phys-cores"} => x.list \in Seq(Numbers \cup {<<>>})
  /\ StartMasks \subseteq SUBSET Cpu

VARIABLES line,     \* the command line
          todo,     \* the arguments that have not been handled
          main,     \* where the main thread of runsolver is
          cfg,      \* the set-up: fields of RunSolver and Watcher
          asked,    \* locals of main: vsizeLimit and memLimit
          own       \* affinity mask of the main thread

optionVars == <<line, todo, main, cfg, asked, own>>

NoSetup ==
  [stamping |-> FALSE, pty |-> FALSE, outFile |-> FALSE, inFile |-> FALSE,
   activate |-> 0, max |-> 0,
   cpu |-> 0, wall |-> 0, vsize |-> 0, memory |-> 0, limits |-> <<>>,
   watchdog |-> FALSE]

OptionsInit ==
  /\ line \in CommandLines /\ todo = line
  /\ main = "options"
  /\ cfg = NoSetup
  /\ own \in StartMasks
  /\ asked = [vsize |-> 0, memory |-> 0]

-----------------------------------------------------------------------------
arg == Head(todo)

(* getopt_long returns one of the options in Names.                        *)
Take(Names) ==
  /\ main = "options" /\ todo # <<>> /\ arg.o \in Names
  /\ todo' = Tail(todo)
  /\ UNCHANGED line

(* exit(1), or an exception that main catches and turns into exit(1).      *)
Exit1 == main' = "exited" /\ UNCHANGED <<cfg, asked, own>>

Continue == UNCHANGED main

(* The options that set one field.                                         *)
SetFlag ==
  /\ Take({"output", "input", "timestamp", "use-pty", "watchdog"})
  /\ cfg' = CASE arg.o = "output"    -> [cfg EXCEPT !.outFile = TRUE]
              [] arg.o = "input"     -> [cfg EXCEPT !.inFile = TRUE]
              [] arg.o = "timestamp" -> [cfg EXCEPT !.stamping = TRUE]
              [] arg.o = "use-pty"   -> [cfg EXCEPT !.pty = TRUE]
              [] OTHER               -> [cfg EXCEPT !.watchdog = arg.n > 0]
  /\ Continue /\ UNCHANGED <<asked, own>>

KernelLimit(resource, n) == [resource |-> resource, n |-> n]

(* -C: the limit of the watcher and, a little higher, that of the kernel.  *)
SetCPULimit ==
  /\ Take({"cpu-limit"})
  /\ cfg' = [cfg EXCEPT !.cpu = arg.n,
                        !.limits = Append(@, KernelLimit("CPU", arg.n + HardDelay))]
  /\ Continue /\ UNCHANGED <<asked, own>>

SetWallClockLimit ==
  /\ Take({"wall-clock-limit"})
  /\ cfg' = [cfg EXCEPT !.wall = arg.n]
  /\ Continue /\ UNCHANGED <<asked, own>>

SetStackLimit ==
  /\ Take({"stack-limit"})
  /\ cfg' = [cfg EXCEPT !.limits = Append(@, KernelLimit("STACK", arg.n))]
  /\ Continue /\ UNCHANGED <<asked, own>>

(* -M, -V and -R only set variables of main.                               *)
AskMemory ==
  /\ Take({"vsize-limit", "rss-swap-limit"})
  /\ asked' = IF arg.o = "vsize-limit" THEN [asked EXCEPT !.vsize = arg.n]
                                       ELSE [asked EXCEPT !.memory = arg.n]
  /\ Continue /\ UNCHANGED <<cfg, own>>

(* n MiB computed in an int: if it overflows, the bits that fit, or the    *)
(* exact value (the compiler may compute in a long).  Converted to an      *)
(* unsigned long long.                                                     *)
Signed(x) == LET r == x % (2 * IntHalf)
             IN IF r >= IntHalf THEN r - 2 * IntHalf ELSE r
Unsigned(x) == x % LongRange
InBytes(n) == {Unsigned(Signed(n * MiB)), Unsigned(n * MiB)}

(* Mutant: a limit equal to its start is let through.                      *)
AcceptsEqual(a, m) == a <= m
AcceptsLimits(a, m) == a < m

(* -O start,max implies --timestamp.                                       *)
SetSolverOutputLimits ==
  /\ Take({"output-limit"})
  /\ IF AcceptsLimits(arg.a, arg.m)
     THEN /\ \E a \in InBytes(arg.a), m \in InBytes(arg.m) :
               cfg' = [cfg EXCEPT !.stamping = TRUE, !.activate = a, !.max = m]
          /\ Continue /\ UNCHANGED <<asked, own>>
     ELSE Exit1

(* --cores and --phys-cores act on runsolver itself, at once.              *)
SelectCores ==
  /\ Take({"cores", "phys-cores"})
  /\ IF WellFormed(arg.list)
     THEN /\ \E mask \in Selections(arg.list, ExistingCores(arg.o = "phys-cores")) :
               own' = SetAffinity(own, mask)
          /\ Continue /\ UNCHANGED <<cfg, asked>>
     ELSE Exit1

(* --sig is not implemented, --add-eof falls through to it, and whatever   *)
(* getopt does not know (-V, -R and -i among others) prints the usage.     *)
Refuse ==
  /\ Take({"sig", "add-eof", "unknown"})
  /\ Exit1

HandleOption ==
  \/ SetFlag \/ SetCPULimit \/ SetWallClockLimit \/ SetStackLimit \/ AskMemory
  \/ SetSolverOutputLimits \/ SelectCores \/ Refuse

(* After the options: the limits on memory are set last.                   *)
EndOfOptions ==
  /\ main = "options" /\ todo = <<>>
  /\ cfg' = [cfg EXCEPT
               !.vsize = asked.vsize, !.memory = asked.memory,
               !.limits = IF asked.vsize = 0 THEN @
                          ELSE Append(@, KernelLimit("AS", asked.vsize + Reserve))]
  /\ main' = "output"
  /\ UNCHANGED <<line, todo, asked, own>>
=============================================================================
