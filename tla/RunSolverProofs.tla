--------------------------- MODULE RunSolverProofs ---------------------------
(***************************************************************************)
(* Proofs about module RunSolver, for every command line, every limit and  *)
(* every machine: what the report, the summary and the history rely on;    *)
(* where the output goes, which limits the kernel and the output filter    *)
(* have, and which cores the solver gets.                                  *)
(***************************************************************************)
EXTENDS RunSolver, SumTheorems

-----------------------------------------------------------------------------
(* What the groups of actions leave alone.                                 *)

(* The options only change the set-up of main.                             *)
LEMMA OptionsFrame ==
  ASSUME ParseOptions
  PROVE  /\ main = "options" /\ main' \in {"options", "output", "exited"}
         /\ UNCHANGED <<stream, tube, slaveOpened, watchVars, endVars, proc, level>>
<1>1. UNCHANGED <<startVars, watchVars, endVars, proc, level>>
  BY DEF ParseOptions
<1>2. CASE EndOfOptions
  BY <1>1, <1>2 DEF EndOfOptions, startVars
<1>3. CASE HandleOption
  <2>1. main = "options"
    BY <1>3 DEF HandleOption, SetFlag, SetCPULimit, SetWallClockLimit, SetStackLimit,
       AskMemory, SetSolverOutputLimits, SelectCores, Refuse, Take
  <2>2. main' = main \/ main' = "exited"
    BY <1>3 DEF HandleOption, SetFlag, SetCPULimit, SetWallClockLimit, SetStackLimit,
       AskMemory, SetSolverOutputLimits, SelectCores, Refuse, Continue, Exit1
  <2>3. QED  BY <1>1, <2>1, <2>2 DEF startVars
<1>4. QED  BY <1>2, <1>3 DEF ParseOptions

(* The solver and the clock do nothing to runsolver.                       *)
LEMMA SolverFrame ==
  ASSUME SolverStep
  PROVE  UNCHANGED <<optionVars, startVars, watchVars, endVars>>
BY DEF SolverStep, ForkDescendant, WaitForDescendant, ProcessEnds, Compute, Clock,
   KernelSteps

(* All that can happen to the process of the solver is that it ends.       *)
LEMMA SolverFate ==
  ASSUME proc \in [Solvers -> {"none", "start", "stdin", "stdout", "exec", "runs",
                               "zombie", "gone"}],
         SolverStep
  PROVE  proc'["solver"] \in {proc["solver"], "zombie"}
         /\ (proc["solver"] = "none" => proc'["solver"] = "none")
<1> USE DEF Solvers
<1>1. ASSUME NEW p \in DOMAIN Parent, ForkDescendant(p) \/ WaitForDescendant(p)
      PROVE  proc'["solver"] = proc["solver"]
  BY <1>1 DEF ForkDescendant, WaitForDescendant, Parent
<1>2. ASSUME NEW p \in Solvers, ProcessEnds(p)
      PROVE  proc[p] # "none" /\ proc' = [proc EXCEPT ![p] = "zombie"]
  BY <1>2 DEF ProcessEnds, Running
<1>3. CASE Compute \/ Clock
  BY <1>3 DEF Compute, Clock
<1>4. QED  BY <1>1, <1>2, <1>3 DEF SolverStep

(* The watcher thread keeps to its own variables, and level.               *)
LEMMA WatcherFrame ==
  ASSUME WatcherStep
  PROVE  UNCHANGED <<optionVars, startVars, endVars, proc>>
BY DEF WatcherStep, Sample, FinishTick, LeaveLoop, Sweep

(* After the options the set-up does not change.                           *)
LEMMA SetupFrame ==
  ASSUME [Next]_vars, main # "options"
  PROVE  cfg' = cfg
<1> USE DEF vars, optionVars, KernelSteps
<1>1. CASE ParseOptions
  BY <1>1, OptionsFrame
<1>2. CASE RunStep
  BY <1>2 DEF RunStep, OpenOutput, ForkSolver, MoveToLastCore, StartWatching,
     ReapChild, NoMoreChildren, WriteReport, JoinStream
<1>3. CASE SetupFails \/ UserStops \/ StreamEnds \/ StrayEnds \/ Watchdog \/ Rests
  BY <1>3 DEF SetupFails, UserStops, StreamEnds, StrayEnds, Watchdog, Rests
<1>4. CASE ChildStart
  BY <1>4 DEF ChildStart, EnforceLimits, RedirectInput, RedirectOutput, Execute, ChildGoesTo
<1>5. CASE SolverStep
  BY <1>5, SolverFrame
<1>6. CASE WatcherStep
  BY <1>6, WatcherFrame
<1>7. QED  BY <1>1, <1>2, <1>3, <1>4, <1>5, <1>6 DEF Next

(* The forked process moves on, or ends.                                   *)
LEMMA ChildFrame ==
  ASSUME ChildStart
  PROVE  /\ proc["solver"] \in {"start", "stdin", "stdout", "exec"}
         /\ \E place \in {"stdin", "stdout", "exec", "runs", "zombie"} :
              proc' = [proc EXCEPT !["solver"] = place]
         /\ slaveOpened' \in {slaveOpened, cfg.stamping /\ cfg.pty}
         /\ UNCHANGED <<optionVars, stream, tube, watchVars, endVars, level>>
<1> USE DEF ChildGoesTo
<1>1. CASE EnforceLimits
  BY <1>1 DEF EnforceLimits
<1>2. CASE RedirectInput
  BY <1>2 DEF RedirectInput
<1>3. CASE RedirectOutput
  BY <1>3 DEF RedirectOutput
<1>4. CASE Execute
  BY <1>4 DEF Execute
<1>5. QED  BY <1>1, <1>2, <1>3, <1>4 DEF ChildStart

-----------------------------------------------------------------------------
(* Type correctness.                                                       *)

(* The reason a sample gives is the one there was, or a limit it reached.  *)
LEMMA ExceededIs ==
  ASSUME NEW c, NEW w, NEW v, NEW m
  PROVE  LET r == Exceeded(<<c, w, v, m>>)
         IN \/ r = stopReason
            \/ r = "cpu" /\ c >= 1
            \/ r = "wall" /\ w >= 1
            \/ r = "vsize" /\ v >= 1
            \/ r = "memory" /\ m >= 1
<1> DEFINE hit == {i \in 1..4 : <<c, w, v, m>>[i] >= 1}
<1>1. CASE hit = {}
  BY <1>1 DEF Exceeded
<1>2. CASE hit # {}
  <2>1. \E i \in hit : \A j \in hit : j <= i
    <3>1. 4 \in hit \/ 3 \in hit \/ 2 \in hit \/ 1 \in hit
      BY <1>2
    <3>2. QED  BY <3>1
  <2>2. PICK i \in hit : i = CHOOSE k \in hit : \A j \in hit : j <= k
    BY <2>1
  <2>3. Exceeded(<<c, w, v, m>>) = <<"cpu", "wall", "vsize", "memory">>[i]
    BY <1>2, <2>2 DEF Exceeded
  <2>4. i \in 1..4 /\ <<c, w, v, m>>[i] >= 1
    OBVIOUS
  <2>5. i = 1 \/ i = 2 \/ i = 3 \/ i = 4
    BY <2>4
  <2>6. QED  BY <2>3, <2>4, <2>5
<1>3. QED  BY <1>1, <1>2

LEMMA TypeStep ==
  ASSUME TypeOK, [Next]_vars
  PROVE  TypeOK'
<1> USE DEF TypeOK, Terminal, vars, optionVars, startVars, watchVars, endVars, KernelSteps
<1>1. CASE ParseOptions
  BY <1>1, OptionsFrame
<1>2. CASE SetupFails
  BY <1>2 DEF SetupFails
<1>3. CASE OpenOutput
  <2>1. tube' \in {"none", "held", "broken"}
    BY <1>3 DEF OpenOutput
  <2>2. stream' \in {"none", "reading", "failed"}
    BY <1>3 DEF OpenOutput
  <2>3. QED  BY <1>3, <2>1, <2>2 DEF OpenOutput
<1>4. CASE ForkSolver \/ MoveToLastCore \/ StartWatching
  <2>1. CASE ForkSolver
    <3>1. /\ proc' = [proc EXCEPT !["solver"] = "start"] /\ main' = "parent"
          /\ UNCHANGED <<stream, tube, slaveOpened, watchVars, endVars, level>>
      BY <2>1 DEF ForkSolver
    <3>2. proc' \in [Solvers -> {"none", "start", "stdin", "stdout", "exec", "runs",
                                "zombie", "gone"}]
      BY <3>1
    <3>3. QED  BY <3>1, <3>2
  <2>2. CASE MoveToLastCore
    BY <2>2 DEF MoveToLastCore
  <2>3. CASE StartWatching
    <3>1. tube' \in {tube, "given"} /\ solverIsRunning' \in BOOLEAN
      BY <2>3 DEF StartWatching
    <3>2. QED  BY <2>3, <3>1 DEF StartWatching
  <2>4. QED  BY <1>4, <2>1, <2>2, <2>3
<1>5. ASSUME NEW p \in Solvers, ReapChild(p)
      PROVE  TypeOK'
  BY <1>5 DEF ReapChild
<1>6. CASE NoMoreChildren
  <2>1. solverIsRunning' \in BOOLEAN
    BY <1>6 DEF NoMoreChildren
  <2>2. level' \in [cpu : Levels, wall : Levels, counted : Levels, vsize : Levels,
                    end : Levels, lost : BOOLEAN]
    BY <1>6 DEF NoMoreChildren
  <2>3. QED  BY <1>6, <2>1, <2>2 DEF NoMoreChildren
<1>7. CASE WriteReport
  <2>1. PICK c \in RUsageChildren :
          report' = [written |-> TRUE, cpu |-> c, timeOut |-> TimeOut(c),
                     memOut |-> MemOut, status |-> childstatus]
    BY <1>7 DEF WriteReport
  <2>2. c \in Levels
    BY DEF RUsageChildren, Levels
  <2>3. TimeOut(c) \in BOOLEAN /\ MemOut \in BOOLEAN
    BY DEF TimeOut, MemOut
  <2>4. report' \in [written : BOOLEAN, cpu : Levels, timeOut : BOOLEAN, memOut : BOOLEAN,
                     status : Solvers \cup {"none"}]
    BY <2>1, <2>2, <2>3
  <2>5. main' = "stream"
    BY <1>7 DEF WriteReport
  <2>6. QED  BY <1>7, <2>4, <2>5 DEF WriteReport
<1>8. CASE JoinStream \/ StreamEnds \/ StrayEnds \/ UserStops \/ Rests \/ Watchdog
  BY <1>8 DEF JoinStream, StreamEnds, StrayEnds, UserStops, Rests, Watchdog
<1>9. CASE ChildStart
  <2>1. slaveOpened' \in BOOLEAN
    BY <1>9, ChildFrame
  <2>2. QED  BY <1>9, <2>1, ChildFrame
<1>10. ASSUME NEW p \in DOMAIN Parent, ForkDescendant(p) \/ WaitForDescendant(p)
       PROVE  TypeOK'
  <2>1. proc' \in [Solvers -> {"none", "start", "stdin", "stdout", "exec", "runs",
                              "zombie", "gone"}]
    BY <1>10 DEF ForkDescendant, WaitForDescendant, Parent, Solvers
  <2>2. level' \in [cpu : Levels, wall : Levels, counted : Levels, vsize : Levels,
                    end : Levels, lost : BOOLEAN]
    <3>1. (level.lost \/ level.cpu > 0) \in BOOLEAN
      OBVIOUS
    <3>2. \/ level' = level
          \/ level' = [level EXCEPT !.lost = level.lost \/ level.cpu > 0]
      BY <1>10 DEF ForkDescendant, WaitForDescendant
    <3>3. QED  BY <3>1, <3>2
  <2>3. UNCHANGED <<optionVars, startVars, watchVars, endVars>>
    BY <1>10 DEF ForkDescendant, WaitForDescendant
  <2>4. QED  BY <2>1, <2>2, <2>3
<1>11. CASE Compute \/ Clock
  <2>1. \/ level.cpu < 2 /\ level' = [level EXCEPT !.cpu = @ + 1]
        \/ level.wall < 2 /\ level' = [level EXCEPT !.wall = @ + 1]
    BY <1>11 DEF Compute, Clock
  <2>2. level' \in [cpu : Levels, wall : Levels, counted : Levels, vsize : Levels,
                    end : Levels, lost : BOOLEAN]
    BY <2>1 DEF Levels
  <2>3. UNCHANGED <<optionVars, startVars, watchVars, endVars, proc>>
    BY <1>11 DEF Compute, Clock
  <2>4. QED  BY <2>2, <2>3
<1>12. ASSUME NEW p \in Solvers, ProcessEnds(p)
       PROVE  TypeOK'
  BY <1>12 DEF ProcessEnds
<1>13. CASE Sample
  <2>1. PICK c \in SampledCpu, v \in Possible(cfg.vsize), m \in Possible(cfg.memory) :
          /\ stopReason' = Exceeded(<<c, level.wall, v, m>>)
          /\ level' = [level EXCEPT !.counted = Larger(@, c), !.vsize = Larger(@, v)]
    BY <1>13 DEF Sample
  <2>2. c \in Levels /\ v \in Levels
    BY DEF SampledCpu, Possible, Levels
  <2>3. level' \in [cpu : Levels, wall : Levels, counted : Levels, vsize : Levels,
                    end : Levels, lost : BOOLEAN]
    <3>1. Larger(level.counted, c) \in Levels /\ Larger(level.vsize, v) \in Levels
      BY <2>2 DEF Larger, Levels
    <3>2. QED  BY <2>1, <3>1
  <2>4. stopReason' \in {"null", "user", "cpu", "wall", "vsize", "memory"}
    BY <2>1, ExceededIs
  <2>5. seen' \subseteq Solvers
    BY <1>13 DEF Sample
  <2>6. thread' = "sampled" /\ samples' = "pushed"
    BY <1>13 DEF Sample
  <2>7. QED  BY <1>13, <2>3, <2>4, <2>5, <2>6 DEF Sample
<1>14. CASE FinishTick \/ LeaveLoop \/ Sweep
  <2>1. solverIsRunning' \in BOOLEAN
    BY <1>14 DEF FinishTick, LeaveLoop, Sweep
  <2>2. grace' \in 0..1 /\ killed' \subseteq Solvers
    BY <1>14 DEF FinishTick, LeaveLoop, Sweep, KillSeen
  <2>3. /\ thread' \in {"loop", "sweep", "done"} /\ samples' \in {samples, "displayed"}
        /\ seen' \subseteq Solvers
    BY <1>14 DEF FinishTick, LeaveLoop, Sweep
  <2>4. UNCHANGED <<optionVars, startVars, stopReason, endVars, proc, level>>
    BY <1>14 DEF FinishTick, LeaveLoop, Sweep
  <2>5. QED  BY <2>1, <2>2, <2>3, <2>4
<1>15. CASE UNCHANGED vars
  BY <1>15
<1>16. QED
  BY <1>1, <1>2, <1>3, <1>4, <1>5, <1>6, <1>7, <1>8, <1>9, <1>10, <1>11, <1>12, <1>13,
     <1>14, <1>15
  DEF Next, RunStep, SolverStep, WatcherStep

LEMMA TypeInit == Init => TypeOK
<1> SUFFICES ASSUME Init PROVE TypeOK
  OBVIOUS
<1>1. level \in [cpu : Levels, wall : Levels, counted : Levels, vsize : Levels,
                end : Levels, lost : BOOLEAN]
  BY DEF Init, Levels
<1>2. report \in [written : BOOLEAN, cpu : Levels, timeOut : BOOLEAN, memOut : BOOLEAN,
                 status : Solvers \cup {"none"}]
  BY DEF Init, Levels
<1>3. proc \in [Solvers -> {"none", "start", "stdin", "stdout", "exec", "runs",
                           "zombie", "gone"}]
  BY DEF Init
<1>4. /\ slaveOpened \in BOOLEAN /\ solverIsRunning \in BOOLEAN
      /\ seen \subseteq Solvers /\ killed \subseteq Solvers
  BY DEF Init
<1>5. QED  BY <1>1, <1>2, <1>3, <1>4 DEF Init, OptionsInit, TypeOK

(* The variables of a run keep their types, for every command line.        *)
THEOREM TypeCorrect == Spec => []TypeOK
<1>1. TypeOK /\ [Next]_vars => TypeOK'
  BY TypeStep
<1>2. QED  BY <1>1, TypeInit, PTL DEF Spec

-----------------------------------------------------------------------------
(* The stages of a run.                                                    *)
Setup == {"options", "output", "fork", "parent", "close", "exited"}
After == {"join", "stream", "done", "crashed"}
Reported == report.written = TRUE

(* Nothing is watched before watchPID; the watcher thread leaves its loop  *)
(* when there is nothing to watch any more; the report is written after it *)
(* has been joined.                                                        *)
StageInv ==
  /\ main \in Setup => thread = "none" /\ samples = "empty" /\ killed = {}
  /\ thread = "sweep" => ~ solverIsRunning
  /\ main = "aborted" => thread = "done"
  /\ Reported => main \in {"stream", "done", "crashed", "aborted"} /\ thread = "done"
  /\ main \in {"stream", "done", "crashed"} => thread = "done"

LEMMA StageStep ==
  ASSUME TypeOK, StageInv, [Next]_vars
  PROVE  StageInv'
<1> USE DEF StageInv, Setup, Reported, vars, optionVars, startVars, watchVars, endVars,
        Terminal
<1>1. CASE ParseOptions
  BY <1>1, OptionsFrame
<1>2. CASE SetupFails \/ OpenOutput \/ ForkSolver \/ MoveToLastCore \/ StartWatching
  BY <1>2 DEF SetupFails, OpenOutput, ForkSolver, MoveToLastCore, StartWatching
<1>3. CASE (\E p \in Solvers : ReapChild(p)) \/ NoMoreChildren \/ JoinStream \/ Watchdog
  BY <1>3 DEF ReapChild, NoMoreChildren, JoinStream, Watchdog
<1>4. CASE WriteReport
  BY <1>4 DEF WriteReport
<1>5. CASE ChildStart
  BY <1>5, ChildFrame
<1>6. CASE SolverStep
  BY <1>6, SolverFrame
<1>7. CASE Sample
  BY <1>7 DEF Sample
<1>8. CASE FinishTick \/ LeaveLoop \/ Sweep
  BY <1>8 DEF FinishTick, LeaveLoop, Sweep
<1>9. CASE UserStops \/ StreamEnds \/ StrayEnds \/ Rests \/ UNCHANGED vars
  BY <1>9 DEF UserStops, StreamEnds, StrayEnds, Rests
<1>10. QED
  BY <1>1, <1>2, <1>3, <1>4, <1>5, <1>6, <1>7, <1>8, <1>9 DEF Next, RunStep, WatcherStep

-----------------------------------------------------------------------------
(* The report.                                                             *)

(* Who is reaped leaves a status; once waitpid has failed with ECHILD      *)
(* nobody comes back.                                                      *)
OverInv ==
  /\ main \in {"options", "output", "fork", "exited"} => \A p \in Solvers : proc[p] = "none"
  /\ main \in {"parent", "close", "wait"} => proc["solver"] # "none"
  /\ main \in After \/ Reported =>
       /\ proc["solver"] = "gone"
       /\ proc["descendant"] \in {"none", "gone"} /\ proc["grandchild"] \in {"none", "gone"}
  /\ proc["descendant"] = "none" => proc["grandchild"] = "none"
  /\ proc["solver"] = "gone" => childstatus # "none"
  /\ proc["descendant"] = "none" => childstatus \in {"none", "solver"}
  /\ Reported => report.status = childstatus

LEMMA OverStep ==
  ASSUME TypeOK, StageInv, OverInv, [Next]_vars
  PROVE  OverInv'
<1>0. /\ proc \in [Solvers -> {"none", "start", "stdin", "stdout", "exec", "runs",
                               "zombie", "gone"}]
      /\ Reported => main \in {"stream", "done", "crashed", "aborted"}
  BY DEF TypeOK, StageInv
<1> USE DEF OverInv, After, Reported, Solvers, vars, optionVars, startVars, watchVars,
        endVars, Terminal
<1>1. CASE ParseOptions
  BY <1>0, <1>1, OptionsFrame
<1>2. CASE SetupFails \/ OpenOutput \/ MoveToLastCore \/ StartWatching
  BY <1>0, <1>2 DEF SetupFails, OpenOutput, MoveToLastCore, StartWatching
<1>3. CASE ForkSolver
  BY <1>0, <1>3 DEF ForkSolver
<1>4. ASSUME NEW p \in Solvers, ReapChild(p)
      PROVE  OverInv'
  BY <1>0, <1>4 DEF ReapChild
<1>5. CASE NoMoreChildren
  BY <1>0, <1>5 DEF NoMoreChildren
<1>6. CASE WriteReport
  BY <1>0, <1>6 DEF WriteReport
<1>7. CASE ChildStart
  BY <1>0, <1>7, ChildFrame
<1>8. ASSUME NEW p \in DOMAIN Parent, ForkDescendant(p)
      PROVE  OverInv'
  <2>1. UNCHANGED <<main, report, childstatus>>
    BY <1>8 DEF ForkDescendant, KernelSteps
  <2>2. \/ p = "descendant" /\ Parent[p] = "solver"
        \/ p = "grandchild" /\ Parent[p] = "descendant"
    BY DEF Parent
  <2>3. /\ proc[Parent[p]] = "runs" /\ proc[p] = "none"
        /\ proc' = [proc EXCEPT ![p] = "runs"]
    BY <1>8 DEF ForkDescendant
  <2>4. CASE p = "descendant" /\ Parent[p] = "solver"
    BY <1>0, <2>1, <2>3, <2>4
  <2>5. CASE p = "grandchild" /\ Parent[p] = "descendant"
    BY <1>0, <2>1, <2>3, <2>5
  <2>6. QED  BY <2>2, <2>4, <2>5
<1>9. ASSUME NEW p \in Solvers, (p \in DOMAIN Parent /\ WaitForDescendant(p)) \/ ProcessEnds(p)
      PROVE  OverInv'
  <2>1. UNCHANGED <<main, report, childstatus>>
    BY <1>9 DEF WaitForDescendant, ProcessEnds, KernelSteps
  <2>2. CASE p \in DOMAIN Parent /\ WaitForDescendant(p)
    <3>1. p # "solver" /\ proc[p] = "zombie" /\ proc' = [proc EXCEPT ![p] = "gone"]
      BY <2>2 DEF WaitForDescendant, Parent
    <3>2. QED  BY <1>0, <2>1, <3>1
  <2>3. CASE ProcessEnds(p)
    <3>1. proc[p] \notin {"none", "gone", "zombie"} /\ proc' = [proc EXCEPT ![p] = "zombie"]
      BY <2>3 DEF ProcessEnds, Running
    <3>2. QED  BY <1>0, <2>1, <3>1
  <2>4. QED  BY <1>9, <2>2, <2>3
<1>10. CASE Compute \/ Clock
  BY <1>0, <1>10 DEF Compute, Clock, KernelSteps
<1>11. CASE JoinStream \/ Watchdog \/ UserStops \/ StreamEnds \/ StrayEnds \/ Rests
            \/ UNCHANGED vars
  BY <1>0, <1>11 DEF JoinStream, Watchdog, UserStops, StreamEnds, StrayEnds, Rests
<1>12. CASE WatcherStep
  BY <1>0, <1>12, WatcherFrame
<1>13. DOMAIN Parent \subseteq Solvers
  BY DEF Parent
<1>14. QED
  BY <1>1, <1>2, <1>3, <1>4, <1>5, <1>6, <1>7, <1>8, <1>9, <1>10, <1>11, <1>12, <1>13
  DEF Next, RunStep, SolverStep

-----------------------------------------------------------------------------
(* The history.                                                            *)

(* A sample that was never displayed is one of the tick that goes on, or   *)
(* of a run that the watchdog has ended.  Before the first sample nothing  *)
(* is killed and no limit is found exceeded: a loop that ends without one  *)
(* was ended by waitpid.                                                   *)
HistoryInv ==
  /\ thread = "sampled" => samples = "pushed"
  /\ samples = "pushed" => \/ thread = "sampled"
                           \/ main = "aborted" /\ ~ Reported
  /\ samples = "empty" =>
       /\ killed = {} /\ stopReason \in {"null", "user"}
       /\ thread \in {"loop", "sweep"} /\ ~ solverIsRunning => main \in After

LEMMA HistoryStep ==
  ASSUME TypeOK, StageInv, OverInv, HistoryInv, [Next]_vars
  PROVE  HistoryInv'
<1> USE DEF StageInv, HistoryInv, Setup, After, Reported, vars, optionVars, startVars,
        watchVars, endVars, Terminal
<1>1. CASE ParseOptions
  BY <1>1, OptionsFrame
<1>2. CASE SetupFails \/ OpenOutput \/ ForkSolver \/ MoveToLastCore \/ StartWatching
  BY <1>2 DEF SetupFails, OpenOutput, ForkSolver, MoveToLastCore, StartWatching
<1>3. CASE (\E p \in Solvers : ReapChild(p)) \/ NoMoreChildren \/ JoinStream \/ Watchdog
  BY <1>3 DEF ReapChild, NoMoreChildren, JoinStream, Watchdog
<1>4. CASE WriteReport
  BY <1>4 DEF WriteReport
<1>5. CASE ChildStart
  BY <1>5, ChildFrame
<1>6. CASE SolverStep
  BY <1>6, SolverFrame
<1>7. CASE Sample
  BY <1>7 DEF Sample
<1>8. CASE FinishTick
  BY <1>8 DEF FinishTick
<1>9. CASE LeaveLoop
  BY <1>9 DEF LeaveLoop
<1>10. CASE Sweep
  <2>1. /\ thread = "sweep" /\ thread' = "done" /\ KillSeen
        /\ UNCHANGED <<samples, stopReason, main, report>>
    BY <1>10 DEF Sweep
  <2>2. ASSUME samples = "empty" PROVE killed' = {}
    <3>1. main \in After /\ killed = {} /\ seen \subseteq Solvers
      BY <2>1, <2>2 DEF TypeOK
    <3>2. \A p \in Solvers : proc[p] \in {"none", "gone"}
      BY <3>1 DEF OverInv, Solvers
    <3>3. QED  BY <2>1, <3>1, <3>2 DEF KillSeen, Running
  <2>3. QED  BY <2>1, <2>2
<1>11. CASE UserStops \/ StreamEnds \/ StrayEnds \/ Rests \/ UNCHANGED vars
  BY <1>11 DEF UserStops, StreamEnds, StrayEnds, Rests
<1>12. QED
  BY <1>1, <1>2, <1>3, <1>4, <1>5, <1>6, <1>7, <1>8, <1>9, <1>10, <1>11
  DEF Next, RunStep, WatcherStep

LEMMA StagesInit == Init => StageInv /\ HistoryInv /\ OverInv
<1> SUFFICES ASSUME Init PROVE StageInv /\ HistoryInv /\ OverInv
  OBVIOUS
<1> USE DEF Init, OptionsInit
<1>1. ~ Reported /\ main = "options" /\ \A p \in Solvers : proc[p] = "none"
  BY DEF Reported
<1>2. StageInv /\ HistoryInv
  BY <1>1 DEF StageInv, HistoryInv
<1>3. OverInv
  BY <1>1 DEF OverInv, After, Solvers
<1>4. QED  BY <1>2, <1>3

(* When the history is dumped, lastDisplayedElapsedTime, which nothing     *)
(* initialises, has been written, or is compared with nothing but the      *)
(* empty sample of the constructor in a run that nobody cut short.         *)
THEOREM HistoryIsKnown == Spec => []HistoryKnown
<1> DEFINE IInv == TypeOK /\ StageInv /\ OverInv /\ HistoryInv
<1>1. Init => IInv
  BY TypeInit, StagesInit
<1>2. IInv /\ [Next]_vars => IInv'
  BY TypeStep, StageStep, OverStep, HistoryStep
<1>3. IInv => HistoryKnown
  BY DEF StageInv, HistoryInv, HistoryKnown, Reported, TypeOK
<1>4. QED  BY <1>1, <1>2, <1>3, PTL DEF Spec

(* The report is written when every process has been reaped, with the      *)
(* status of the solver if it had no descendant.                           *)
THEOREM ReportIsComplete == Spec => []ReportComplete
<1> DEFINE IInv == TypeOK /\ StageInv /\ OverInv
<1>1. Init => IInv
  BY TypeInit, StagesInit
<1>2. IInv /\ [Next]_vars => IInv'
  BY TypeStep, StageStep, OverStep
<1>3. IInv => ReportComplete
  <2> SUFFICES ASSUME IInv, Reported
               PROVE  /\ \A p \in Solvers : proc[p] \in {"none", "gone"}
                      /\ report.status # "none"
                      /\ proc["descendant"] = "none" => report.status = "solver"
    BY DEF ReportComplete, Reported, TypeOK
  <2>1. /\ proc["solver"] = "gone"
        /\ proc["descendant"] \in {"none", "gone"} /\ proc["grandchild"] \in {"none", "gone"}
    BY DEF OverInv
  <2>2. report.status = childstatus /\ childstatus # "none"
    BY <2>1 DEF OverInv
  <2>3. proc["descendant"] = "none" => childstatus = "solver"
    BY <2>2 DEF OverInv
  <2>4. QED  BY <2>1, <2>2, <2>3 DEF Solvers
<1>4. QED  BY <1>1, <1>2, <1>3, PTL DEF Spec

-----------------------------------------------------------------------------
(* The flags of the summary.                                               *)

(* A quantity is measured above zero only if it has a limit (a bound of    *)
(* the model), and the reason of the stop is a limit that was reached.     *)
MeasureInv ==
  /\ level.counted > 0 => cfg.cpu # 0
  /\ level.vsize > 0 => cfg.vsize # 0
  /\ level.wall > 0 => cfg.wall # 0
  /\ stopReason = "cpu" => level.counted > 0
  /\ stopReason = "vsize" => level.vsize > 0
  /\ stopReason = "wall" => level.wall > 0

(* While nothing is watched nothing is measured; the options are read then. *)
UnmeasuredInv ==
  main \in Setup =>
    /\ level.counted = 0 /\ level.vsize = 0 /\ level.wall = 0
    /\ stopReason \in {"null", "user"}

(* What the flag TIMEOUT of a report is to say.                            *)
TimedOut == TimeOut(report.cpu)

(* After waitpid has failed no sample is taken; the wall clock that the    *)
(* summary uses was read then; the CPU time is that of the children which  *)
(* were waited for; the flags say what the quantities say.                 *)
SummaryInv ==
  /\ main \in After \/ Reported => ~ solverIsRunning
  /\ main \in After \/ Reported => (stopReason = "wall" => level.end > 0)
  /\ Reported => report.cpu \in RUsageChildren
  /\ Reported => (report.timeOut = TRUE <=> TimedOut)
  /\ Reported => (report.memOut = TRUE <=> MemOut)

LevelType == level \in [cpu : Levels, wall : Levels, counted : Levels, vsize : Levels,
                        end : Levels, lost : BOOLEAN]

(* A sample raises what it measures.                                       *)
LEMMA SampleMeasures ==
  ASSUME TypeOK, Sample
  PROVE  /\ LevelType'
         /\ UNCHANGED <<level.cpu, level.wall, level.end, cfg, main>>
         /\ level'.counted >= level.counted /\ level'.vsize >= level.vsize
         /\ level'.counted > level.counted => cfg.cpu # 0
         /\ level'.vsize > level.vsize => cfg.vsize # 0
         /\ \/ stopReason' \in {stopReason, "memory"}
            \/ stopReason' = "cpu" /\ level'.counted > 0
            \/ stopReason' = "wall" /\ level.wall > 0
            \/ stopReason' = "vsize" /\ level'.vsize > 0
<1>0. LevelType
  BY DEF TypeOK, LevelType
<1>1. PICK c \in SampledCpu, v \in Possible(cfg.vsize), m \in Possible(cfg.memory) :
        /\ stopReason' = Exceeded(<<c, level.wall, v, m>>)
        /\ level' = [level EXCEPT !.counted = Larger(@, c), !.vsize = Larger(@, v)]
  BY DEF Sample
<1>2. c \in Levels /\ v \in Levels /\ (cfg.cpu = 0 => c = 0) /\ (cfg.vsize = 0 => v = 0)
  <2>1. c \in Levels /\ v \in Levels
    BY <1>0 DEF SampledCpu, Possible, Levels, LevelType
  <2>2. cfg.cpu = 0 => c = 0
    BY DEF SampledCpu
  <2>3. cfg.vsize = 0 => v = 0
    BY DEF Possible
  <2>4. QED  BY <2>1, <2>2, <2>3
<1>3. /\ level'.counted = Larger(level.counted, c) /\ level'.vsize = Larger(level.vsize, v)
      /\ UNCHANGED <<level.cpu, level.wall, level.end>>
  BY <1>0, <1>1 DEF LevelType
<1>4. level.counted \in Nat /\ level.vsize \in Nat /\ level.wall \in Nat
  BY <1>0 DEF LevelType, Levels
<1>5. UNCHANGED <<cfg, main>>
  BY DEF Sample, optionVars
<1>6. LevelType'
  <2>1. Larger(level.counted, c) \in Levels /\ Larger(level.vsize, v) \in Levels
    BY <1>0, <1>2 DEF Larger, LevelType, Levels
  <2>2. QED  BY <1>0, <1>1, <2>1 DEF LevelType
<1>7. /\ Larger(level.counted, c) >= level.counted /\ Larger(level.counted, c) >= c
      /\ Larger(level.vsize, v) >= level.vsize /\ Larger(level.vsize, v) >= v
      /\ Larger(level.counted, c) > level.counted => c > 0
      /\ Larger(level.vsize, v) > level.vsize => v > 0
  BY <1>2, <1>4 DEF Larger, Levels
<1>8. \/ stopReason' \in {stopReason, "memory"}
      \/ stopReason' = "cpu" /\ c >= 1
      \/ stopReason' = "wall" /\ level.wall >= 1
      \/ stopReason' = "vsize" /\ v >= 1
  BY <1>1, ExceededIs
<1>9. c \in Nat /\ v \in Nat /\ level'.counted \in Nat /\ level'.vsize \in Nat
  BY <1>2, <1>6 DEF LevelType, Levels
<1>10. level'.counted > level.counted => cfg.cpu # 0
  <2>1. level'.counted > level.counted => c > 0
    BY <1>3, <1>7
  <2>2. QED  BY <1>2, <2>1
<1>11. level'.vsize > level.vsize => cfg.vsize # 0
  <2>1. level'.vsize > level.vsize => v > 0
    BY <1>3, <1>7
  <2>2. QED  BY <1>2, <2>1
<1>12. \/ stopReason' \in {stopReason, "memory"}
       \/ stopReason' = "cpu" /\ level'.counted > 0
       \/ stopReason' = "wall" /\ level.wall > 0
       \/ stopReason' = "vsize" /\ level'.vsize > 0
  <2>1. c >= 1 => level'.counted > 0
    BY <1>3, <1>4, <1>7, <1>9
  <2>2. v >= 1 => level'.vsize > 0
    BY <1>3, <1>4, <1>7, <1>9
  <2>3. level.wall >= 1 => level.wall > 0
    BY <1>4
  <2>4. QED  BY <1>8, <2>1, <2>2, <2>3
<1>13. level'.counted >= level.counted /\ level'.vsize >= level.vsize
  BY <1>3, <1>7
<1>14. QED  BY <1>3, <1>5, <1>6, <1>10, <1>11, <1>12, <1>13


FlagsInv == MeasureInv /\ UnmeasuredInv /\ SummaryInv

(* A step that measures nothing and leaves the reason and the report alone. *)
LEMMA FlagsFrame ==
  ASSUME StageInv, FlagsInv, [Next]_vars,
         UNCHANGED <<level, stopReason, report>>,
         ~ solverIsRunning => ~ solverIsRunning',
         main' \in Setup => main \in Setup,
         main' \in After => main \in After
  PROVE  FlagsInv'
<1>1. main # "options" => cfg' = cfg
  BY SetupFrame
<1>2. MeasureInv'
  <2>1. CASE main = "options"
    BY <2>1 DEF FlagsInv, MeasureInv, UnmeasuredInv, Setup
  <2>2. CASE main # "options"
    BY <1>1, <2>2 DEF FlagsInv, MeasureInv
  <2>3. QED  BY <2>1, <2>2
<1>3. UnmeasuredInv'
  BY DEF FlagsInv, UnmeasuredInv
<1>4. Reported' <=> Reported
  BY DEF Reported
<1>5. Reported => cfg' = cfg
  BY <1>1 DEF StageInv
<1>6. Reported => /\ TimedOut' <=> TimedOut
                  /\ MemOut' <=> MemOut
                  /\ RUsageChildren' = RUsageChildren /\ report' = report
  BY <1>5 DEF TimedOut, TimeOut, MemOut, RUsageChildren
<1>7. SummaryInv'
  BY <1>4, <1>6 DEF FlagsInv, SummaryInv
<1>8. QED  BY <1>2, <1>3, <1>7 DEF FlagsInv

LEMMA FlagsStep ==
  ASSUME TypeOK, StageInv, OverInv, FlagsInv, [Next]_vars
  PROVE  FlagsInv'
<1>0. LevelType
  BY DEF TypeOK, LevelType
<1> USE DEF Setup, After, optionVars, startVars, watchVars, endVars, KernelSteps, Terminal
<1>1. CASE ParseOptions
  BY <1>1, OptionsFrame, FlagsFrame
<1>2. CASE SetupFails \/ OpenOutput \/ ForkSolver \/ MoveToLastCore
  BY <1>2, FlagsFrame DEF SetupFails, OpenOutput, ForkSolver, MoveToLastCore
<1>3. CASE StartWatching
  <2>1. main = "close" /\ main' = "wait" /\ UNCHANGED <<cfg, level, stopReason, report>>
    BY <1>3 DEF StartWatching
  <2>2. ~ Reported /\ ~ Reported'
    BY <2>1 DEF StageInv, Reported
  <2>3. QED  BY <2>1, <2>2 DEF FlagsInv, MeasureInv, UnmeasuredInv, SummaryInv
<1>4. ASSUME NEW p \in Solvers, ReapChild(p)
      PROVE  FlagsInv'
  BY <1>4, FlagsFrame DEF ReapChild
<1>5. CASE NoMoreChildren
  <2>1. /\ main = "wait" /\ main' = "join" /\ ~ solverIsRunning'
        /\ level' = [level EXCEPT !.end = level.wall]
        /\ UNCHANGED <<cfg, stopReason, report>>
    BY <1>5 DEF NoMoreChildren
  <2>2. level'.end = level.wall /\ UNCHANGED <<level.counted, level.vsize, level.wall>>
    BY <1>0, <2>1 DEF LevelType
  <2>3. ~ Reported /\ ~ Reported'
    BY <2>1 DEF StageInv, Reported
  <2>4. stopReason' = "wall" => level'.end > 0
    BY <2>1, <2>2 DEF FlagsInv, MeasureInv
  <2>5. QED  BY <2>1, <2>2, <2>3, <2>4 DEF FlagsInv, MeasureInv, UnmeasuredInv, SummaryInv
<1>6. CASE WriteReport
  <2>1. /\ main = "join" /\ main' = "stream"
        /\ UNCHANGED <<cfg, level, stopReason, solverIsRunning>>
    BY <1>6 DEF WriteReport
  <2>2. PICK c \in RUsageChildren :
          /\ report'.cpu = c /\ report'.timeOut = TimeOut(c) /\ report'.memOut = MemOut
    BY <1>6 DEF WriteReport
  <2>3. /\ TimedOut' <=> TimeOut(c)
        /\ MemOut' <=> MemOut
        /\ report'.cpu \in RUsageChildren'
    BY <2>1, <2>2 DEF TimedOut, TimeOut, MemOut, RUsageChildren
  <2>4. MeasureInv' /\ UnmeasuredInv'
    BY <2>1 DEF FlagsInv, MeasureInv, UnmeasuredInv
  <2>5. ~ solverIsRunning' /\ (stopReason' = "wall" => level'.end > 0)
    BY <2>1 DEF FlagsInv, SummaryInv
  <2>6. (report'.timeOut = TRUE <=> TimedOut') /\ (report'.memOut = TRUE <=> MemOut')
    BY <2>2, <2>3, Zenon
  <2>7. QED  BY <2>3, <2>4, <2>5, <2>6 DEF FlagsInv, SummaryInv
<1>7. CASE JoinStream \/ Watchdog \/ StreamEnds \/ StrayEnds \/ Rests \/ UNCHANGED vars
  <2>1. CASE JoinStream
    BY <2>1, FlagsFrame DEF JoinStream
  <2>2. CASE Watchdog
    BY <2>2, FlagsFrame DEF Watchdog
  <2>3. CASE StreamEnds \/ StrayEnds \/ Rests \/ UNCHANGED vars
    BY <2>3, FlagsFrame DEF StreamEnds, StrayEnds, Rests, vars
  <2>4. QED  BY <1>7, <2>1, <2>2, <2>3
<1>8. CASE ChildStart
  BY <1>8, ChildFrame, FlagsFrame
<1>9. CASE \/ \E p \in DOMAIN Parent : ForkDescendant(p)
           \/ \E p \in Solvers : ProcessEnds(p)
  <2>1. UNCHANGED <<optionVars, watchVars, endVars, level>>
    BY <1>9 DEF ForkDescendant, ProcessEnds
  <2>2. QED  BY <2>1, FlagsFrame
<1>10. CASE Compute \/ \E p \in DOMAIN Parent : WaitForDescendant(p)
  <2>1. /\ \/ level' = [level EXCEPT !.cpu = @ + 1]
           \/ level' \in {level, [level EXCEPT !.lost = @ \/ level.cpu > 0]}
        /\ UNCHANGED <<cfg, main, stopReason, report, solverIsRunning>>
    BY <1>10 DEF Compute, WaitForDescendant
  <2>2. UNCHANGED <<level.counted, level.vsize, level.wall, level.end>>
    BY <1>0, <2>1 DEF LevelType
  <2>3. ~ Reported /\ (Reported' <=> Reported)
    <3>1. \E p \in Solvers : proc[p] \in {"runs", "zombie"}
      BY <1>10 DEF Compute, WaitForDescendant, Parent, Solvers
    <3>2. QED  BY <2>1, <3>1 DEF OverInv, Reported, Solvers
  <2>4. QED  BY <2>1, <2>2, <2>3 DEF FlagsInv, MeasureInv, UnmeasuredInv, SummaryInv
<1>11. CASE Clock
  <2>1. /\ level' = [level EXCEPT !.wall = @ + 1]
        /\ UNCHANGED <<cfg, main, stopReason, report, solverIsRunning>>
        /\ cfg.wall # 0 /\ main \in {"wait", "join"}
    BY <1>11 DEF Clock
  <2>2. /\ UNCHANGED <<level.counted, level.vsize, level.cpu, level.end>>
        /\ level'.wall = level.wall + 1
    BY <1>0, <2>1 DEF LevelType
  <2>3. level.wall \in Nat
    BY <1>0 DEF LevelType, Levels
  <2>4. ~ Reported /\ (Reported' <=> Reported)
    BY <2>1 DEF StageInv, Reported
  <2>5. MeasureInv'
    BY <2>1, <2>2, <2>3 DEF FlagsInv, MeasureInv
  <2>6. QED  BY <2>1, <2>2, <2>4, <2>5 DEF FlagsInv, UnmeasuredInv, SummaryInv
<1>12. CASE Sample
  <2>1. /\ thread = "loop" /\ solverIsRunning
        /\ UNCHANGED <<cfg, main, report, solverIsRunning>>
    BY <1>12 DEF Sample
  <2>2. main \notin Setup
    BY <2>1 DEF StageInv
  <2>3. ~ Reported /\ main \notin After
    BY <2>1 DEF FlagsInv, SummaryInv
  <2>4. Reported' <=> Reported
    BY <2>1 DEF Reported
  <2>5. UnmeasuredInv' /\ SummaryInv'
    BY <2>1, <2>2, <2>3, <2>4 DEF UnmeasuredInv, SummaryInv
  <2>6. MeasureInv'
    <3>1. /\ level.counted \in Nat /\ level.vsize \in Nat
          /\ level'.counted \in Nat /\ level'.vsize \in Nat
      BY <1>0, <1>12, SampleMeasures DEF LevelType, Levels
    <3>2. /\ level'.counted >= level.counted /\ level'.vsize >= level.vsize
          /\ level'.counted > level.counted => cfg.cpu # 0
          /\ level'.vsize > level.vsize => cfg.vsize # 0
          /\ level'.wall = level.wall
      BY <1>12, SampleMeasures
    <3>3. level'.counted > 0 => cfg'.cpu # 0
      BY <2>1, <3>1, <3>2 DEF FlagsInv, MeasureInv
    <3>4. level'.vsize > 0 => cfg'.vsize # 0
      BY <2>1, <3>1, <3>2 DEF FlagsInv, MeasureInv
    <3>5. level'.wall > 0 => cfg'.wall # 0
      BY <2>1, <3>2 DEF FlagsInv, MeasureInv
    <3>6. \/ stopReason' \in {stopReason, "memory"}
          \/ stopReason' = "cpu" /\ level'.counted > 0
          \/ stopReason' = "wall" /\ level.wall > 0
          \/ stopReason' = "vsize" /\ level'.vsize > 0
      BY <1>12, SampleMeasures
    <3>7. level.counted > 0 => level'.counted > 0
      BY <3>1, <3>2
    <3>8. level.vsize > 0 => level'.vsize > 0
      BY <3>1, <3>2
    <3>9. stopReason' = "cpu" => level'.counted > 0
      BY <3>6, <3>7 DEF FlagsInv, MeasureInv
    <3>10. stopReason' = "vsize" => level'.vsize > 0
      BY <3>6, <3>8 DEF FlagsInv, MeasureInv
    <3>11. stopReason' = "wall" => level'.wall > 0
      BY <3>2, <3>6 DEF FlagsInv, MeasureInv
    <3>12. QED  BY <3>3, <3>4, <3>5, <3>9, <3>10, <3>11 DEF MeasureInv
  <2>7. QED  BY <2>5, <2>6 DEF FlagsInv
<1>13. CASE FinishTick
  BY <1>13, FlagsFrame DEF FinishTick
<1>14. CASE LeaveLoop \/ Sweep
  BY <1>14, FlagsFrame DEF LeaveLoop, Sweep
<1>15. CASE UserStops
  <2>1. stopReason' = "user" /\ UNCHANGED <<cfg, main, level, report, solverIsRunning>>
    BY <1>15 DEF UserStops
  <2>2. /\ TimedOut' <=> TimedOut
        /\ MemOut' <=> MemOut
        /\ Reported' <=> Reported
        /\ RUsageChildren' = RUsageChildren
    BY <2>1 DEF TimedOut, TimeOut, MemOut, Reported, RUsageChildren
  <2>3. QED  BY <2>1, <2>2 DEF FlagsInv, MeasureInv, UnmeasuredInv, SummaryInv
<1>16. QED
  BY <1>1, <1>2, <1>3, <1>4, <1>5, <1>6, <1>7, <1>8, <1>9, <1>10, <1>11, <1>12, <1>13,
     <1>14, <1>15
  DEF Next, RunStep, SolverStep, WatcherStep

LEMMA FlagsInit == Init => FlagsInv
<1> SUFFICES ASSUME Init PROVE FlagsInv
  OBVIOUS
<1> USE DEF Init, OptionsInit
<1>1. ~ Reported /\ main = "options"
  BY DEF Reported
<1>2. MeasureInv /\ UnmeasuredInv
  BY DEF MeasureInv, UnmeasuredInv
<1>3. SummaryInv
  BY <1>1 DEF SummaryInv, After
<1>4. QED  BY <1>2, <1>3 DEF FlagsInv

LEMMA FlagsExplain ==
  ASSUME TypeOK, FlagsInv
  PROVE  FlagsExplained
<1> SUFFICES ASSUME Reported, stopReason # "null", report.timeOut = FALSE, report.memOut = FALSE
             PROVE  \/ stopReason \in {"user", "memory"}
                    \/ stopReason = "wall" /\ level.end = 1
                    \/ stopReason = "vsize" /\ level.vsize = 1
                    \/ stopReason = "cpu" /\ \/ report.cpu = 1
                                             \/ level.counted > level.cpu
                                             \/ level.lost /\ report.cpu < level.cpu
  BY DEF FlagsExplained, Reported, TypeOK
<1>1. ~ TimeOut(report.cpu) /\ ~ MemOut
  BY DEF FlagsInv, SummaryInv, TimedOut
<1>2. /\ report.cpu \in 0..2 /\ level.cpu \in 0..2 /\ level.counted \in 0..2 /\ level.vsize \in 0..2
      /\ level.end \in 0..2
  BY DEF TypeOK, Levels
<1>3. CASE stopReason = "wall"
  <2>1. level.end > 0 /\ level.end # 2
    BY <1>1, <1>3 DEF FlagsInv, SummaryInv, MeasureInv, TimeOut
  <2>2. QED  BY <1>2, <1>3, <2>1
<1>4. CASE stopReason = "vsize"
  <2>1. level.vsize > 0 /\ level.vsize # 2
    BY <1>1, <1>4 DEF FlagsInv, MeasureInv, MemOut
  <2>2. QED  BY <1>2, <1>4, <2>1
<1>5. CASE stopReason = "cpu"
  <2>1. level.counted > 0 /\ report.cpu # 2
    BY <1>1, <1>5 DEF FlagsInv, MeasureInv, TimeOut
  <2>2. IF level.lost THEN report.cpu <= level.cpu ELSE report.cpu = level.cpu
    BY <1>2 DEF FlagsInv, SummaryInv, RUsageChildren
  <2>3. QED  BY <1>2, <1>5, <2>1, <2>2
<1>6. QED  BY <1>3, <1>4, <1>5 DEF TypeOK

(* A run that was stopped and is reported neither TIMEOUT nor MEMOUT was   *)
(* stopped by the user or by -R, or ended exactly at the limit, or its CPU *)
(* time was counted twice, or a part of it was that of a child nobody      *)
(* waited for.                                                             *)
THEOREM FlagsAreExplained == Spec => []FlagsExplained
<1> DEFINE IInv == TypeOK /\ StageInv /\ OverInv /\ FlagsInv
<1>1. Init => IInv
  BY TypeInit, StagesInit, FlagsInit
<1>2. IInv /\ [Next]_vars => IInv'
  BY TypeStep, StageStep, OverStep, FlagsStep
<1>3. IInv => FlagsExplained
  BY FlagsExplain
<1>4. QED  BY <1>1, <1>2, <1>3, PTL DEF Spec

-----------------------------------------------------------------------------
(* The redirections.                                                       *)

(* What is left of the command line is its end.                            *)
LineInv ==
  /\ line \in Seq(ToSet(line)) /\ todo \in Seq(ToSet(line))
  /\ Len(todo) <= Len(line)
  /\ \A i \in 1..Len(todo) : todo[i] = line[Len(line) - Len(todo) + i]

(* One of these options is among those that have been handled.             *)
Handled(names) == \E i \in 1..(Len(line) - Len(todo)) : line[i].o \in names

(* The set-up says which options have been handled.                        *)
SetupInv ==
  /\ {"stamping", "pty", "outFile"} \subseteq DOMAIN cfg
  /\ cfg.stamping <=> Handled({"timestamp", "output-limit"})
  /\ cfg.pty <=> Handled({"use-pty"})
  /\ cfg.outFile <=> Handled({"output"})

(* All of them have been before the fork, and the forked process redirects *)
(* its outputs before it executes the solver.                              *)
RouteInv ==
  /\ main # "exited" => SetupInv
  /\ main \notin {"options", "exited"} => todo = <<>>
  /\ main \in {"options", "output", "fork", "exited"} => proc["solver"] = "none"
  /\ proc["solver"] \in {"exec", "runs"} => io \in Redirected

LEMMA RouteInit == Init => LineInv /\ RouteInv
<1> SUFFICES ASSUME Init PROVE LineInv /\ RouteInv
  OBVIOUS
<1>1. line \in Seq(ToSet(line)) /\ todo = line /\ main = "options" /\ cfg = NoSetup
  BY OptionsAssumption DEF Init, OptionsInit
<1>2. LineInv
  BY <1>1 DEF LineInv
<1>3. \A names : ~ Handled(names)
  BY <1>1 DEF Handled
<1>4. SetupInv
  BY <1>1, <1>3 DEF SetupInv, NoSetup
<1>5. QED  BY <1>1, <1>2, <1>4 DEF RouteInv, Init, Solvers

(* Taking an argument adds it to those that have been handled.             *)
LEMMA TakeOne ==
  ASSUME LineInv, todo # <<>>, todo' = Tail(todo), line' = line
  PROVE  /\ LineInv'
         /\ \A names : Handled(names)' <=> Handled(names) \/ arg.o \in names
<1> USE DEF LineInv
<1>1. Len(todo) > 0 /\ Len(todo) \in Nat /\ Len(line) \in Nat
  OBVIOUS
<1>2. Len(todo') = Len(todo) - 1 /\ todo' \in Seq(ToSet(line))
  BY <1>1
<1>3. \A i \in 1..Len(todo') : todo'[i] = todo[i + 1]
  BY <1>1, <1>2
<1>4. LineInv'
  BY <1>1, <1>2, <1>3
<1>5. arg = line[Len(line) - Len(todo) + 1]
  <2>1. 1 \in 1..Len(todo) /\ Head(todo) = todo[1]
    BY <1>1
  <2>2. QED  BY <2>1 DEF arg
<1>6. ASSUME NEW names
      PROVE  Handled(names)' <=> Handled(names) \/ arg.o \in names
  BY <1>1, <1>2, <1>5 DEF Handled
<1>7. QED  BY <1>4, <1>6

LEMMA OptionRoutes ==
  ASSUME LineInv, SetupInv, HandleOption
  PROVE  LineInv' /\ (main' # "exited" => SetupInv')
<1>1. todo # <<>> /\ todo' = Tail(todo) /\ line' = line
  BY DEF HandleOption, SetFlag, SetCPULimit, SetWallClockLimit, SetStackLimit,
     AskMemory, SetSolverOutputLimits, SelectCores, Refuse, Take
<1>2. LineInv' /\ \A names : Handled(names)' <=> Handled(names) \/ arg.o \in names
  BY <1>1, TakeOne
<1>3. CASE SetFlag
  <2>1. arg.o \in {"output", "input", "timestamp", "use-pty", "watchdog"}
    BY <1>3 DEF SetFlag, Take
  <2>2. /\ {"stamping", "pty", "outFile"} \subseteq DOMAIN cfg'
        /\ cfg'.stamping <=> cfg.stamping \/ arg.o = "timestamp"
        /\ cfg'.pty <=> cfg.pty \/ arg.o = "use-pty"
        /\ cfg'.outFile <=> cfg.outFile \/ arg.o = "output"
    BY <1>3, <2>1 DEF SetFlag, SetupInv
  <2>3. QED  BY <1>2, <2>1, <2>2 DEF SetupInv
<1>4. CASE SetCPULimit \/ SetWallClockLimit \/ SetStackLimit \/ AskMemory \/ SelectCores
  <2>1. arg.o \in {"cpu-limit", "wall-clock-limit", "stack-limit", "vsize-limit",
                   "rss-swap-limit", "cores", "phys-cores"}
    BY <1>4 DEF SetCPULimit, SetWallClockLimit, SetStackLimit, AskMemory, SelectCores, Take
  <2>2. /\ DOMAIN cfg' = DOMAIN cfg
        /\ cfg'.stamping = cfg.stamping /\ cfg'.pty = cfg.pty
        /\ cfg'.outFile = cfg.outFile
    BY <1>4 DEF SetupInv, SetCPULimit, SetWallClockLimit, SetStackLimit, AskMemory,
       SelectCores, Exit1
  <2>3. QED  BY <1>2, <2>1, <2>2 DEF SetupInv
<1>5. CASE SetSolverOutputLimits
  <2>1. arg.o = "output-limit"
    BY <1>5 DEF SetSolverOutputLimits, Take
  <2>2. CASE main' # "exited"
    <3>1. /\ {"stamping", "pty", "outFile"} \subseteq DOMAIN cfg'
          /\ cfg'.stamping /\ cfg'.pty = cfg.pty /\ cfg'.outFile = cfg.outFile
      BY <1>5, <2>2 DEF SetupInv, SetSolverOutputLimits, Exit1
    <3>2. QED  BY <1>2, <2>1, <3>1 DEF SetupInv
  <2>3. QED  BY <1>2, <2>2
<1>6. CASE Refuse
  BY <1>2, <1>6 DEF Refuse, Exit1
<1>7. QED  BY <1>3, <1>4, <1>5, <1>6 DEF HandleOption

LEMMA RouteStep ==
  ASSUME TypeOK, LineInv, RouteInv, [Next]_vars
  PROVE  LineInv' /\ RouteInv'
<1> USE DEF RouteInv, vars, optionVars, startVars, watchVars, endVars, KernelSteps,
        Terminal, Solvers
<1>1. ASSUME UNCHANGED <<line, todo, cfg>>
      PROVE  /\ LineInv' /\ (SetupInv' <=> SetupInv)
             /\ (tube' = "broken" <=> tube = "broken") => Redirected' = Redirected
  BY <1>1 DEF LineInv, SetupInv, Handled, Redirected, Destinations
<1>2. CASE ParseOptions
  <2>1. UNCHANGED proc /\ main = "options" /\ main' \in {"options", "output", "exited"}
    BY <1>2, OptionsFrame
  <2>2. CASE HandleOption
    <3>1. main' # "output"
      BY <2>1, <2>2 DEF HandleOption, SetFlag, SetCPULimit, SetWallClockLimit,
         SetStackLimit, AskMemory, SetSolverOutputLimits, SelectCores, Refuse, Continue, Exit1
    <3>2. QED  BY <2>1, <2>2, <3>1, OptionRoutes
  <2>3. CASE EndOfOptions
    <3>1. UNCHANGED <<line, todo>> /\ todo = <<>>
      BY <2>3 DEF EndOfOptions
    <3>2. /\ DOMAIN cfg' = DOMAIN cfg
          /\ cfg'.stamping = cfg.stamping /\ cfg'.pty = cfg.pty
          /\ cfg'.outFile = cfg.outFile
      BY <2>1, <2>3 DEF EndOfOptions, SetupInv
    <3>3. LineInv' /\ SetupInv'
      BY <2>1, <3>1, <3>2 DEF LineInv, SetupInv, Handled
    <3>4. QED  BY <2>1, <3>1, <3>3
  <2>4. QED  BY <1>2, <2>2, <2>3 DEF ParseOptions
<1>3. CASE SetupFails \/ OpenOutput \/ ForkSolver \/ MoveToLastCore \/ StartWatching
  <2>1. UNCHANGED <<line, todo, cfg, io>> /\ main # "exited" /\ main # "options"
    BY <1>3 DEF SetupFails, OpenOutput, ForkSolver, MoveToLastCore, StartWatching
  <2>2. CASE OpenOutput
    BY <1>1, <2>1, <2>2 DEF OpenOutput, TypeOK
  <2>3. CASE SetupFails \/ ForkSolver \/ MoveToLastCore \/ StartWatching
    <3>1. tube' = "broken" <=> tube = "broken"
      BY <2>3 DEF SetupFails, ForkSolver, MoveToLastCore, StartWatching
    <3>2. QED
      BY <1>1, <2>1, <2>3, <3>1 DEF SetupFails, ForkSolver, MoveToLastCore, StartWatching,
         TypeOK
  <2>4. QED  BY <1>3, <2>2, <2>3
<1>4. CASE ChildStart
  <2>1. UNCHANGED <<line, todo, cfg, main, tube>>
    BY <1>4, ChildFrame
  <2>2. CASE EnforceLimits \/ RedirectInput
    BY <1>1, <2>1, <2>2 DEF EnforceLimits, RedirectInput, ChildGoesTo, TypeOK
  <2>3. CASE RedirectOutput
    BY <1>1, <2>1, <2>3 DEF RedirectOutput, ChildGoesTo, TypeOK
  <2>4. CASE Execute
    BY <1>1, <2>1, <2>4 DEF Execute, ChildGoesTo, TypeOK
  <2>5. QED  BY <1>4, <2>2, <2>3, <2>4 DEF ChildStart
<1>5. CASE SolverStep
  BY <1>1, <1>5, SolverFrame, SolverFate DEF TypeOK
<1>6. CASE (\E p \in Solvers : ReapChild(p)) \/ NoMoreChildren \/ WriteReport \/ JoinStream
  BY <1>1, <1>6 DEF ReapChild, NoMoreChildren, WriteReport, JoinStream, TypeOK
<1>7. CASE WatcherStep
  BY <1>1, <1>7, WatcherFrame
<1>8. CASE UserStops \/ StreamEnds \/ StrayEnds \/ Watchdog \/ Rests \/ UNCHANGED vars
  BY <1>1, <1>8 DEF UserStops, StreamEnds, StrayEnds, Watchdog, Rests
<1>9. QED
  BY <1>2, <1>3, <1>4, <1>5, <1>6, <1>7, <1>8 DEF Next, RunStep

(* Both outputs of the solver go where the command line says, for every    *)
(* combination and order of the options, if there is a pipe.               *)
THEOREM OutputIsRouted == Spec => []OutputRouted
<1> DEFINE IInv == TypeOK /\ LineInv /\ RouteInv
<1>1. Init => IInv
  BY TypeInit, RouteInit
<1>2. IInv /\ [Next]_vars => IInv'
  BY TypeStep, RouteStep
<1>3. IInv => OutputRouted
  <2> SUFFICES ASSUME IInv, Executes, tube # "broken" PROVE OutputRouted
    BY DEF OutputRouted
  <2>1. todo = <<>> /\ SetupInv /\ io \in Redirected
    BY DEF RouteInv, Executes
  <2>2. \A names : Given(names) <=> Handled(names)
    BY <2>1 DEF Given, Handled, LineInv
  <2>3. QED  BY <2>1, <2>2 DEF OutputRouted, Redirected, Destinations, SetupInv
<1>4. QED  BY <1>1, <1>2, <1>3, PTL DEF Spec

-----------------------------------------------------------------------------
(* The limits of the watcher and of the kernel.                            *)
AllHandled == 1..(Len(line) - Len(todo))

LastHandled(i, name) ==
  /\ i \in AllHandled /\ line[i].o = name
  /\ \A j \in AllHandled : line[j].o = name => j <= i

LastLimit(k, r) ==
  /\ k \in 1..Len(cfg.limits) /\ cfg.limits[k].resource = r
  /\ \A j \in 1..Len(cfg.limits) : cfg.limits[j].resource = r => j <= k

Limits == [resource : Resources, n : Nat]

LimitTypes ==
  /\ line \in CommandLines
  /\ {"cpu", "vsize", "limits"} \subseteq DOMAIN cfg
  /\ cfg.limits \in Seq(Limits)
  /\ asked \in [vsize : Nat, memory : Nat]
  /\ DOMAIN rlimit = Resources
  /\ \A r \in Resources : "cur" \in DOMAIN rlimit[r] /\ rlimit[r].max \in Nat

(* The last -C gives the watcher its limit and the kernel its last one on  *)
(* CPU time.                                                               *)
CpuAsked ==
  Handled({"cpu-limit"}) =>
    \E i, k \in Nat :
      /\ LastHandled(i, "cpu-limit") /\ cfg.cpu = line[i].n
      /\ LastLimit(k, "CPU") /\ cfg.limits[k].n = line[i].n + HardDelay

(* The last -V is remembered, and after the options gives both limits.     *)
VsizeAsked ==
  Handled({"vsize-limit"}) =>
    \E i \in Nat : LastHandled(i, "vsize-limit") /\ asked.vsize = line[i].n

VsizeSet ==
  /\ cfg.vsize = asked.vsize
  /\ asked.vsize # 0 =>
       \E k \in Nat : LastLimit(k, "AS") /\ cfg.limits[k].n = asked.vsize + Reserve

LimitInv ==
  /\ LimitTypes
  /\ main # "exited" => CpuAsked /\ VsizeAsked
  /\ main \notin {"options", "exited"} => VsizeSet

(* The forked process has set the limits.                                  *)
Limited == {"stdin", "stdout", "exec", "runs"}

(* The kernel enforces the last limit on a resource unless it refused it.  *)
KernelInv ==
  proc["solver"] \in Limited =>
    \A r \in Resources, k \in Nat :
      LastLimit(k, r) /\ cfg.limits[k].n <= rlimit[r].max =>
        rlimit[r].cur = cfg.limits[k].n

LEMMA MaxIs ==
  ASSUME NEW S \in SUBSET Nat, NEW m \in S, \A j \in S : j <= m
  PROVE  Max(S) = m
<1>1. \A y \in S : m >= y
  OBVIOUS
<1>2. \A x \in S : (\A y \in S : x >= y) => x = m
  OBVIOUS
<1>3. QED  BY <1>1, <1>2 DEF Max

LEMMA LimitInit == Init => LimitInv /\ KernelInv
<1> SUFFICES ASSUME Init PROVE LimitInv /\ KernelInv
  OBVIOUS
<1>1. line \in CommandLines /\ todo = line /\ main = "options" /\ cfg = NoSetup
  BY DEF Init, OptionsInit
<1>2. asked \in [vsize : Nat, memory : Nat]
  BY DEF Init, OptionsInit
<1>3. /\ DOMAIN rlimit = Resources
      /\ \A r \in Resources : "cur" \in DOMAIN rlimit[r] /\ rlimit[r].max \in Nat
  BY RunSolverAssumption DEF Init
<1>4. cfg.limits \in Seq(Limits) /\ {"cpu", "vsize", "limits"} \subseteq DOMAIN cfg
  BY <1>1 DEF NoSetup
<1>5. line \in Seq(ToSet(line))
  BY <1>1, OptionsAssumption
<1>6. \A names : ~ Handled(names)
  BY <1>1, <1>5 DEF Handled
<1>7. CpuAsked /\ VsizeAsked
  BY <1>6 DEF CpuAsked, VsizeAsked
<1>8. QED
  BY <1>1, <1>2, <1>3, <1>4, <1>7 DEF LimitInv, LimitTypes, KernelInv, Limited, Init, Solvers

(* One more limit is the last one on its resource, and leaves those on the *)
(* others.                                                                 *)
LEMMA AppendLimit ==
  ASSUME cfg.limits \in Seq(Limits), NEW x \in Limits,
         cfg'.limits = Append(cfg.limits, x),
         NEW n, n = Len(cfg.limits) + 1
  PROVE  /\ cfg'.limits \in Seq(Limits)
         /\ LastLimit(n, x.resource)' /\ n \in Nat /\ cfg'.limits[n] = x
         /\ \A k \in Nat : \A r : r # x.resource /\ LastLimit(k, r) =>
              LastLimit(k, r)' /\ cfg'.limits[k] = cfg.limits[k]
<1>1. /\ cfg'.limits \in Seq(Limits) /\ Len(cfg.limits) \in Nat
      /\ Len(cfg'.limits) = Len(cfg.limits) + 1
      /\ cfg'.limits[n] = x
      /\ \A j \in 1..Len(cfg.limits) : cfg'.limits[j] = cfg.limits[j]
  OBVIOUS
<1>2. LastLimit(n, x.resource)'
  BY <1>1 DEF LastLimit
<1>3. ASSUME NEW k \in Nat, NEW r, r # x.resource, LastLimit(k, r)
      PROVE  LastLimit(k, r)' /\ cfg'.limits[k] = cfg.limits[k]
  <2>1. k \in 1..Len(cfg.limits) /\ cfg.limits[k].resource = r
    BY <1>3 DEF LastLimit
  <2>2. k \in 1..Len(cfg'.limits) /\ cfg'.limits[k] = cfg.limits[k]
    BY <1>1, <2>1
  <2>3. ASSUME NEW j \in 1..Len(cfg'.limits), cfg'.limits[j].resource = r
        PROVE  j <= k
    <3>1. j # n
      BY <1>1, <1>3, <2>3
    <3>2. j \in 1..Len(cfg.limits)
      BY <1>1, <3>1
    <3>3. QED  BY <1>1, <1>3, <2>3, <3>2 DEF LastLimit
  <2>4. QED  BY <2>1, <2>2, <2>3 DEF LastLimit
<1>4. n \in Nat
  BY <1>1
<1>5. QED  BY <1>1, <1>2, <1>3, <1>4

LEMMA Below ==
  ASSUME NEW n \in Nat, NEW j \in 1..n, j # n
  PROVE  j \in 1..(n - 1)
OBVIOUS

(* The argument that is taken is the last one that has been handled.       *)
LEMMA TakeLast ==
  ASSUME LineInv, todo # <<>>, todo' = Tail(todo), line' = line,
         NEW n, n = Len(line) - Len(todo) + 1, NEW o, o = arg.o
  PROVE  /\ n \in Nat /\ arg = line[n] /\ arg \in ToSet(line)
         /\ LastHandled(n, o)'
         /\ \A i \in Nat : \A name : name # o /\ LastHandled(i, name) => LastHandled(i, name)'
<1> USE DEF LineInv
<1>1. Len(todo) > 0 /\ Len(todo) \in Nat /\ Len(line) \in Nat
  OBVIOUS
<1>2. Len(todo') = Len(todo) - 1
  BY <1>1
<1>3. arg = line[n] /\ arg \in ToSet(line)
  <2>1. 1 \in 1..Len(todo) /\ Head(todo) = todo[1] /\ todo[1] \in ToSet(line)
    BY <1>1
  <2>2. QED  BY <2>1 DEF arg
<1>4. AllHandled' = 1..n /\ AllHandled = 1..(n - 1) /\ n \in Nat \ {0}
  <2>1. n \in Nat \ {0}
    BY <1>1
  <2>2. Len(line) - Len(todo) = n - 1
    BY <1>1
  <2>3. Len(line') - Len(todo') = n
    BY <1>1, <1>2
  <2>4. QED  BY <2>1, <2>2, <2>3 DEF AllHandled
<1>5. LastHandled(n, o)'
  BY <1>3, <1>4 DEF LastHandled
<1>6. ASSUME NEW i \in Nat, NEW name, name # o, LastHandled(i, name)
      PROVE  LastHandled(i, name)'
  <2>1. ASSUME NEW j \in 1..n, line[j].o = name
        PROVE  j <= i
    <3>1. j # n
      BY <1>3, <1>6, <2>1
    <3>2. j \in 1..(n - 1)
      BY <1>4, <2>1, <3>1, Below
    <3>3. QED  BY <1>4, <1>6, <2>1, <3>2 DEF LastHandled
  <2>2. QED  BY <1>4, <1>6, <2>1 DEF LastHandled
<1>7. QED  BY <1>3, <1>4, <1>5, <1>6

(* An option that is neither -C nor -S nor -V.                             *)
LEMMA OptionKeeps ==
  ASSUME LineInv, CpuAsked, VsizeAsked, todo # <<>>, todo' = Tail(todo), line' = line,
         arg.o \notin {"cpu-limit", "vsize-limit"},
         cfg'.cpu = cfg.cpu, cfg'.limits = cfg.limits, asked'.vsize = asked.vsize
  PROVE  CpuAsked' /\ VsizeAsked'
<1>1. \A names : Handled(names)' <=> Handled(names) \/ arg.o \in names
  BY TakeOne
<1>2. \A i \in Nat : \A name : name # arg.o /\ LastHandled(i, name) => LastHandled(i, name)'
  BY TakeLast
<1>3. \A k, r : LastLimit(k, r)' <=> LastLimit(k, r)
  BY DEF LastLimit
<1>4. CpuAsked'
  <2> SUFFICES ASSUME Handled({"cpu-limit"})'
               PROVE  CpuAsked'
    BY DEF CpuAsked
  <2>1. PICK i \in Nat, k \in Nat :
          /\ LastHandled(i, "cpu-limit") /\ cfg.cpu = line[i].n
          /\ LastLimit(k, "CPU") /\ cfg.limits[k].n = line[i].n + HardDelay
    BY <1>1 DEF CpuAsked
  <2>2. LastHandled(i, "cpu-limit")' /\ LastLimit(k, "CPU")'
    BY <1>2, <1>3, <2>1
  <2>3. QED  BY <2>1, <2>2 DEF CpuAsked
<1>5. VsizeAsked'
  <2> SUFFICES ASSUME Handled({"vsize-limit"})'
               PROVE  VsizeAsked'
    BY DEF VsizeAsked
  <2>1. PICK i \in Nat : LastHandled(i, "vsize-limit") /\ asked.vsize = line[i].n
    BY <1>1 DEF VsizeAsked
  <2>2. LastHandled(i, "vsize-limit")'
    BY <1>2, <2>1
  <2>3. QED  BY <2>1, <2>2 DEF VsizeAsked
<1>6. QED  BY <1>4, <1>5

(* What every option that can be taken has in common.                      *)
LEMMA Taking ==
  ASSUME LineInv, HandleOption
  PROVE  todo # <<>> /\ todo' = Tail(todo) /\ line' = line
BY DEF HandleOption, SetFlag, SetCPULimit, SetWallClockLimit, SetStackLimit,
   AskMemory, SetSolverOutputLimits, SelectCores, Refuse, Take

LEMMA NumberGiven ==
  ASSUME LineInv, line \in CommandLines, todo # <<>>, todo' = Tail(todo), line' = line,
         arg.o \in Numeric
  PROVE  arg.n \in Nat
<1>1. arg \in ToSet(line)
  BY TakeLast
<1>2. QED  BY <1>1, OptionsAssumption

LEMMA CpuLimitSet ==
  ASSUME LineInv, LimitTypes, VsizeAsked, SetCPULimit, rlimit' = rlimit
  PROVE  LimitTypes' /\ CpuAsked' /\ VsizeAsked'
<1>1. /\ todo # <<>> /\ todo' = Tail(todo) /\ line' = line /\ arg.o = "cpu-limit"
      /\ asked' = asked
  BY DEF SetCPULimit, Take
<1>2. arg.n \in Nat /\ arg.n + HardDelay \in Nat
  <2>1. arg.n \in Nat
    BY <1>1, NumberGiven DEF Numeric, LimitTypes
  <2>2. HardDelay \in Nat
    BY OptionsAssumption
  <2>3. QED  BY <2>1, <2>2
<1> DEFINE x == KernelLimit("CPU", arg.n + HardDelay)
<1>3. x \in Limits /\ x.resource = "CPU" /\ x.n = arg.n + HardDelay
  BY <1>2 DEF KernelLimit, Limits, Resources
<1>4. /\ DOMAIN cfg' = DOMAIN cfg /\ cfg'.cpu = arg.n
      /\ cfg'.limits = Append(cfg.limits, x)
  BY DEF SetCPULimit, LimitTypes
<1>5. PICK i : i = Len(line) - Len(todo) + 1
  OBVIOUS
<1>6. PICK k : k = Len(cfg.limits) + 1
  OBVIOUS
<1>7. PICK o : o = arg.o
  OBVIOUS
<1>8. PICK y : y = x
  OBVIOUS
<1>9. /\ i \in Nat /\ arg = line[i] /\ LastHandled(i, o)'
      /\ \A l \in Nat : \A name : name # o /\ LastHandled(l, name) => LastHandled(l, name)'
  BY <1>1, <1>5, <1>7, TakeLast
<1>10. /\ cfg'.limits \in Seq(Limits)
       /\ LastLimit(k, y.resource)' /\ k \in Nat /\ cfg'.limits[k] = y
  <2>1. y \in Limits /\ cfg'.limits = Append(cfg.limits, y) /\ cfg.limits \in Seq(Limits)
    BY <1>3, <1>4, <1>8 DEF LimitTypes
  <2>2. QED  BY <1>6, <2>1, AppendLimit
<1>11. LastHandled(i, "cpu-limit")' /\ LastLimit(k, "CPU")'
  BY <1>1, <1>3, <1>7, <1>8, <1>9, <1>10
<1>12. CpuAsked'
  BY <1>1, <1>3, <1>4, <1>8, <1>9, <1>10, <1>11 DEF CpuAsked
<1>13. VsizeAsked'
  <2>1. Handled({"vsize-limit"})' => Handled({"vsize-limit"})
    BY <1>1, TakeOne
  <2>2. QED  BY <1>1, <1>7, <1>9, <2>1 DEF VsizeAsked
<1>14. LimitTypes'
  BY <1>1, <1>4, <1>10 DEF LimitTypes
<1>15. QED  BY <1>12, <1>13, <1>14

LEMMA StackLimitSet ==
  ASSUME LineInv, LimitTypes, CpuAsked, VsizeAsked, SetStackLimit, rlimit' = rlimit
  PROVE  LimitTypes' /\ CpuAsked' /\ VsizeAsked'
<1>1. /\ todo # <<>> /\ todo' = Tail(todo) /\ line' = line /\ arg.o = "stack-limit"
      /\ asked' = asked
  BY DEF SetStackLimit, Take
<1>2. arg.n \in Nat
  BY <1>1, NumberGiven DEF Numeric, LimitTypes
<1> DEFINE x == KernelLimit("STACK", arg.n)
<1>3. x \in Limits /\ x.resource = "STACK"
  BY <1>2 DEF KernelLimit, Limits, Resources
<1>4. /\ DOMAIN cfg' = DOMAIN cfg /\ cfg'.cpu = cfg.cpu
      /\ cfg'.limits = Append(cfg.limits, x)
  BY DEF SetStackLimit, LimitTypes
<1>5. PICK o : o = arg.o
  OBVIOUS
<1>6. PICK y : y = x
  OBVIOUS
<1>7. \A l \in Nat : \A name : name # o /\ LastHandled(l, name) => LastHandled(l, name)'
  BY <1>1, <1>5, TakeLast
<1>8. /\ cfg'.limits \in Seq(Limits)
      /\ \A k \in Nat : \A r : r # y.resource /\ LastLimit(k, r) =>
           LastLimit(k, r)' /\ cfg'.limits[k] = cfg.limits[k]
  <2>1. y \in Limits /\ cfg'.limits = Append(cfg.limits, y) /\ cfg.limits \in Seq(Limits)
    BY <1>3, <1>4, <1>6 DEF LimitTypes
  <2>2. QED  BY <2>1, AppendLimit
<1>9. /\ Handled({"vsize-limit"})' => Handled({"vsize-limit"})
      /\ Handled({"cpu-limit"})' => Handled({"cpu-limit"})
  BY <1>1, TakeOne
<1>10. CpuAsked'
  <2> SUFFICES ASSUME Handled({"cpu-limit"})' PROVE CpuAsked'
    BY DEF CpuAsked
  <2>1. PICK i \in Nat, k \in Nat :
          /\ LastHandled(i, "cpu-limit") /\ cfg.cpu = line[i].n
          /\ LastLimit(k, "CPU") /\ cfg.limits[k].n = line[i].n + HardDelay
    BY <1>9 DEF CpuAsked
  <2>2. /\ LastHandled(i, "cpu-limit")' /\ LastLimit(k, "CPU")'
        /\ cfg'.limits[k] = cfg.limits[k]
    BY <1>1, <1>3, <1>5, <1>6, <1>7, <1>8, <2>1
  <2>3. QED  BY <1>1, <1>4, <2>1, <2>2 DEF CpuAsked
<1>11. VsizeAsked'
  BY <1>1, <1>5, <1>7, <1>9 DEF VsizeAsked
<1>12. LimitTypes'
  BY <1>1, <1>4, <1>8 DEF LimitTypes
<1>13. QED  BY <1>10, <1>11, <1>12

LEMMA MemoryAsked ==
  ASSUME LineInv, LimitTypes, CpuAsked, VsizeAsked, AskMemory, rlimit' = rlimit
  PROVE  LimitTypes' /\ CpuAsked' /\ VsizeAsked'
<1>1. /\ todo # <<>> /\ todo' = Tail(todo) /\ line' = line
      /\ arg.o \in {"vsize-limit", "rss-swap-limit"} /\ cfg' = cfg
  BY DEF AskMemory, Take
<1>2. arg.n \in Nat
  BY <1>1, NumberGiven DEF Numeric, LimitTypes
<1>3. asked' \in [vsize : Nat, memory : Nat]
  BY <1>1, <1>2 DEF AskMemory, LimitTypes
<1>4. LimitTypes'
  BY <1>1, <1>3 DEF LimitTypes
<1>5. CASE arg.o = "rss-swap-limit"
  <2>1. asked'.vsize = asked.vsize
    BY <1>5 DEF AskMemory, LimitTypes
  <2>2. QED  BY <1>1, <1>4, <1>5, <2>1, OptionKeeps
<1>6. CASE arg.o = "vsize-limit"
  <2>1. asked'.vsize = arg.n
    BY <1>6 DEF AskMemory, LimitTypes
  <2>2. PICK i : i = Len(line) - Len(todo) + 1
    OBVIOUS
  <2>3. PICK o : o = arg.o
    OBVIOUS
  <2>4. /\ i \in Nat /\ arg = line[i] /\ LastHandled(i, o)'
        /\ \A l \in Nat : \A name : name # o /\ LastHandled(l, name) => LastHandled(l, name)'
    BY <1>1, <2>2, <2>3, TakeLast
  <2>5. VsizeAsked'
    BY <1>1, <1>6, <2>1, <2>3, <2>4 DEF VsizeAsked
  <2>6. CpuAsked'
    <3>1. Handled({"cpu-limit"})' => Handled({"cpu-limit"})
      BY <1>1, <1>6, TakeOne
    <3>2. \A k, r : LastLimit(k, r)' <=> LastLimit(k, r)
      BY <1>1 DEF LastLimit
    <3>3. QED  BY <1>1, <1>6, <2>3, <2>4, <3>1, <3>2 DEF CpuAsked
  <2>7. QED  BY <1>4, <2>5, <2>6
<1>7. QED  BY <1>1, <1>5, <1>6

LEMMA OptionLimits ==
  ASSUME LineInv, LimitTypes, CpuAsked, VsizeAsked, HandleOption, rlimit' = rlimit
  PROVE  LimitTypes' /\ (main' # "exited" => CpuAsked' /\ VsizeAsked')
<1>1. todo # <<>> /\ todo' = Tail(todo) /\ line' = line
  BY Taking
<1>2. CASE SetCPULimit \/ SetStackLimit \/ AskMemory
  BY <1>2, CpuLimitSet, StackLimitSet, MemoryAsked
<1>3. CASE Refuse
  BY <1>1, <1>3 DEF Refuse, Exit1, LimitTypes
<1>4. CASE SetFlag \/ SetWallClockLimit \/ SetSolverOutputLimits \/ SelectCores
  <2>1. arg.o \notin {"cpu-limit", "vsize-limit"}
    BY <1>4 DEF SetFlag, SetWallClockLimit, SetSolverOutputLimits, SelectCores, Take
  <2>2. /\ DOMAIN cfg' = DOMAIN cfg /\ cfg'.cpu = cfg.cpu /\ cfg'.limits = cfg.limits
        /\ asked' = asked
    <3>1. CASE SetFlag
      <4>1. arg.o \in {"output", "input", "timestamp", "use-pty", "watchdog"}
        BY <3>1 DEF SetFlag, Take
      <4>2. QED  BY <3>1, <4>1 DEF SetFlag, LimitTypes
    <3>2. CASE SetWallClockLimit
      BY <3>2 DEF SetWallClockLimit, LimitTypes
    <3>3. CASE SetSolverOutputLimits
      BY <3>3 DEF SetSolverOutputLimits, Exit1, LimitTypes
    <3>4. CASE SelectCores
      BY <3>4 DEF SelectCores, Exit1, LimitTypes
    <3>5. QED  BY <1>4, <3>1, <3>2, <3>3, <3>4
  <2>3. LimitTypes'
    BY <1>1, <2>2 DEF LimitTypes
  <2>4. QED  BY <1>1, <2>1, <2>2, <2>3, OptionKeeps
<1>5. QED  BY <1>2, <1>3, <1>4 DEF HandleOption

(* The options apart, only the forked process changes a limit.             *)
LEMMA LimitFrame ==
  ASSUME TypeOK, [Next]_vars, ~ ParseOptions
  PROVE  /\ UNCHANGED <<line, todo, cfg, asked>>
         /\ main' = main \/ main \notin {"options", "exited"}
         /\ \/ EnforceLimits
            \/ rlimit' = rlimit /\ (proc'["solver"] \in Limited => proc["solver"] \in Limited)
<1> USE DEF vars, optionVars, startVars, watchVars, endVars, KernelSteps, Terminal, Limited,
        Solvers
<1>1. CASE SetupFails \/ OpenOutput \/ MoveToLastCore \/ StartWatching
  BY <1>1 DEF SetupFails, OpenOutput, MoveToLastCore, StartWatching
<1>2. CASE ForkSolver
  BY <1>2 DEF ForkSolver, TypeOK
<1>3. CASE \E p \in Solvers : ReapChild(p)
  BY <1>3 DEF ReapChild, TypeOK
<1>4. CASE NoMoreChildren \/ WriteReport \/ JoinStream
  BY <1>4 DEF NoMoreChildren, WriteReport, JoinStream
<1>5. CASE ChildStart
  <2>1. UNCHANGED <<line, todo, cfg, asked, main>>
    BY <1>5, ChildFrame
  <2>2. CASE EnforceLimits
    BY <2>1, <2>2
  <2>3. CASE RedirectInput \/ RedirectOutput \/ Execute
    <3>1. proc["solver"] \in Limited /\ rlimit' = rlimit
      BY <2>3 DEF RedirectInput, RedirectOutput, Execute
    <3>2. QED  BY <2>1, <3>1
  <2>4. QED  BY <1>5, <2>2, <2>3 DEF ChildStart
<1>6. CASE SolverStep
  BY <1>6, SolverFrame, SolverFate DEF TypeOK
<1>7. CASE WatcherStep
  BY <1>7, WatcherFrame
<1>8. CASE UserStops \/ StreamEnds \/ StrayEnds \/ Watchdog \/ Rests \/ UNCHANGED vars
  BY <1>8 DEF UserStops, StreamEnds, StrayEnds, Watchdog, Rests
<1>9. QED
  BY <1>1, <1>2, <1>3, <1>4, <1>5, <1>6, <1>7, <1>8 DEF Next, RunStep

(* The kernel has the limit of the last one it accepted.                   *)
LEMMA EnforcedIs ==
  ASSUME LimitTypes, NEW r \in Resources
  PROVE  /\ "cur" \in DOMAIN Enforced(r) /\ Enforced(r).max = rlimit[r].max
         /\ \A k \in Nat : LastLimit(k, r) /\ cfg.limits[k].n <= rlimit[r].max =>
              Enforced(r).cur = cfg.limits[k].n
<1>1. /\ "cur" \in DOMAIN rlimit[r] /\ rlimit[r].max \in Nat
      /\ cfg.limits \in Seq(Limits)
      /\ DOMAIN cfg.limits = 1..Len(cfg.limits) /\ Len(cfg.limits) \in Nat
  BY DEF LimitTypes
<1>2. Accepted(r) \in SUBSET Nat
  BY <1>1 DEF Accepted
<1>3. ASSUME NEW k \in Nat, LastLimit(k, r), cfg.limits[k].n <= rlimit[r].max
      PROVE  Enforced(r).cur = cfg.limits[k].n
  <2>1. k \in Accepted(r) /\ \A j \in Accepted(r) : j <= k
    BY <1>1, <1>3 DEF Accepted, LastLimit
  <2>2. Max(Accepted(r)) = k
    BY <1>2, <2>1, MaxIs
  <2>3. QED  BY <1>1, <2>1, <2>2 DEF Enforced
<1>4. "cur" \in DOMAIN Enforced(r) /\ Enforced(r).max = rlimit[r].max
  BY <1>1 DEF Enforced
<1>5. QED  BY <1>3, <1>4

(* The memory limit is set when all the options have been handled.         *)
LEMMA EndOfLimits ==
  ASSUME LimitTypes, CpuAsked, VsizeAsked, EndOfOptions, rlimit' = rlimit
  PROVE  LimitTypes' /\ CpuAsked' /\ VsizeAsked' /\ VsizeSet'
<1>1. /\ UNCHANGED <<line, todo, asked>> /\ DOMAIN cfg' = DOMAIN cfg
      /\ cfg'.cpu = cfg.cpu /\ cfg'.vsize = asked.vsize /\ asked.vsize \in Nat
  BY DEF EndOfOptions, LimitTypes
<1>2. \A names : Handled(names)' <=> Handled(names)
  BY <1>1 DEF Handled
<1>3. \A i, name : LastHandled(i, name)' <=> LastHandled(i, name)
  BY <1>1 DEF LastHandled, AllHandled
<1>4. VsizeAsked'
  BY <1>1, <1>2, <1>3 DEF VsizeAsked
<1>5. CASE asked.vsize = 0
  <2>1. cfg'.limits = cfg.limits
    BY <1>5 DEF EndOfOptions, LimitTypes
  <2>2. \A k, r : LastLimit(k, r)' <=> LastLimit(k, r)
    BY <2>1 DEF LastLimit
  <2>3. CpuAsked'
    BY <1>1, <1>2, <1>3, <2>1, <2>2 DEF CpuAsked
  <2>4. VsizeSet'
    BY <1>1, <1>5 DEF VsizeSet
  <2>5. QED  BY <1>1, <1>4, <2>1, <2>3, <2>4 DEF LimitTypes
<1>6. CASE asked.vsize # 0
  <2>1. PICK y : y = KernelLimit("AS", asked.vsize + Reserve)
    OBVIOUS
  <2>2. PICK n : n = Len(cfg.limits) + 1
    OBVIOUS
  <2>3. cfg'.limits = Append(cfg.limits, y)
    BY <1>6, <2>1 DEF EndOfOptions, LimitTypes
  <2>4. y \in Limits /\ y.resource = "AS" /\ y.n = asked.vsize + Reserve
    BY <1>1, <2>1, OptionsAssumption DEF KernelLimit, Limits, Resources
  <2>5. /\ cfg'.limits \in Seq(Limits)
        /\ LastLimit(n, y.resource)' /\ n \in Nat /\ cfg'.limits[n] = y
        /\ \A k \in Nat : \A r : r # y.resource /\ LastLimit(k, r) =>
             LastLimit(k, r)' /\ cfg'.limits[k] = cfg.limits[k]
    BY <2>2, <2>3, <2>4, AppendLimit DEF LimitTypes
  <2>6. CpuAsked'
    <3> SUFFICES ASSUME Handled({"cpu-limit"})' PROVE CpuAsked'
      BY DEF CpuAsked
    <3>1. PICK i \in Nat, k \in Nat :
            /\ LastHandled(i, "cpu-limit") /\ cfg.cpu = line[i].n
            /\ LastLimit(k, "CPU") /\ cfg.limits[k].n = line[i].n + HardDelay
      BY <1>2 DEF CpuAsked
    <3>2. LastLimit(k, "CPU")' /\ cfg'.limits[k] = cfg.limits[k]
      BY <2>4, <2>5, <3>1
    <3>3. QED  BY <1>1, <1>3, <3>1, <3>2 DEF CpuAsked
  <2>7. VsizeSet'
    <3>1. LastLimit(n, "AS")' /\ cfg'.limits[n].n = asked'.vsize + Reserve
      BY <1>1, <2>4, <2>5
    <3>2. QED  BY <1>1, <2>5, <3>1 DEF VsizeSet
  <2>8. QED  BY <1>1, <1>4, <2>5, <2>6, <2>7 DEF LimitTypes
<1>7. QED  BY <1>5, <1>6

LEMMA LimitStep ==
  ASSUME TypeOK, LineInv, RouteInv, LimitInv, KernelInv, [Next]_vars
  PROVE  LimitInv' /\ KernelInv'
<1>1. CASE ParseOptions
  <2>1. main = "options" /\ proc' = proc /\ rlimit' = rlimit
    BY <1>1, OptionsFrame DEF ParseOptions, startVars
  <2>2. KernelInv'
    BY <2>1 DEF KernelInv, Limited, RouteInv
  <2>3. CASE HandleOption
    <3>1. main' \in {"options", "exited"}
      BY <2>1, <2>3 DEF HandleOption, SetFlag, SetCPULimit, SetWallClockLimit,
         SetStackLimit, AskMemory, SetSolverOutputLimits, SelectCores, Refuse, Continue, Exit1
    <3>2. LimitTypes' /\ (main' # "exited" => CpuAsked' /\ VsizeAsked')
      BY <2>1, <2>3, OptionLimits DEF LimitInv
    <3>3. QED  BY <2>2, <3>1, <3>2 DEF LimitInv
  <2>4. CASE EndOfOptions
    BY <2>1, <2>2, <2>4, EndOfLimits DEF LimitInv
  <2>5. QED  BY <1>1, <2>3, <2>4 DEF ParseOptions
<1>2. CASE ~ ParseOptions
  <2>1. /\ UNCHANGED <<line, todo, cfg, asked>>
        /\ main' = main \/ main \notin {"options", "exited"}
    BY <1>2, LimitFrame
  <2>2. CpuAsked' = CpuAsked /\ VsizeAsked' = VsizeAsked /\ VsizeSet' = VsizeSet
    BY <2>1 DEF CpuAsked, VsizeAsked, VsizeSet, Handled, LastHandled, AllHandled, LastLimit
  <2>3. \A k, r : LastLimit(k, r)' <=> LastLimit(k, r)
    BY <2>1 DEF LastLimit
  <2>4. ASSUME LimitTypes'
        PROVE  LimitInv'
    BY <2>1, <2>2, <2>4 DEF LimitInv
  <2>5. CASE EnforceLimits
    <3>1. rlimit' = [r \in Resources |-> Enforced(r)]
      BY <2>5 DEF EnforceLimits
    <3>2. \A r \in Resources :
            /\ "cur" \in DOMAIN rlimit'[r] /\ rlimit'[r].max = rlimit[r].max
            /\ \A k \in Nat : LastLimit(k, r) /\ cfg.limits[k].n <= rlimit[r].max =>
                 rlimit'[r].cur = cfg.limits[k].n
      BY <3>1, EnforcedIs DEF LimitInv
    <3>3. LimitTypes'
      BY <2>1, <3>1, <3>2 DEF LimitInv, LimitTypes
    <3>4. KernelInv'
      BY <2>1, <2>3, <3>2 DEF KernelInv
    <3>5. QED  BY <2>4, <3>3, <3>4
  <2>6. CASE rlimit' = rlimit /\ (proc'["solver"] \in Limited => proc["solver"] \in Limited)
    <3>1. LimitTypes'
      BY <2>1, <2>6 DEF LimitInv, LimitTypes
    <3>2. KernelInv'
      BY <2>1, <2>3, <2>6 DEF KernelInv
    <3>3. QED  BY <2>4, <3>1, <3>2
  <2>7. QED  BY <1>2, <2>5, <2>6, LimitFrame
<1>3. QED  BY <1>1, <1>2

(* The watcher stops the solver before the kernel does, for every command  *)
(* line, unless the kernel refuses its last limit or -C is 0.              *)
THEOREM WatcherComesFirst == Spec => []SoftBeforeHard
<1> DEFINE IInv == TypeOK /\ LineInv /\ RouteInv /\ LimitInv /\ KernelInv
<1>1. Init => IInv
  BY TypeInit, RouteInit, LimitInit
<1>2. IInv /\ [Next]_vars => IInv'
  BY TypeStep, RouteStep, LimitStep
<1>3. IInv => SoftBeforeHard
  <2> SUFFICES ASSUME IInv, Executes PROVE SoftBeforeHard
    BY DEF SoftBeforeHard
  <2>1. /\ todo = <<>> /\ LimitTypes /\ CpuAsked /\ VsizeAsked /\ VsizeSet
        /\ line \in Seq(ToSet(line))
    BY DEF RouteInv, LimitInv, LineInv, Executes
  <2>2. \A names : Given(names) <=> Handled(names)
    BY <2>1 DEF Given, Handled
  <2>3. ASSUME NEW i \in Nat, NEW name, LastHandled(i, name)
        PROVE  LastOf(name) = line[i].n /\ (name \in Numeric => line[i].n \in Nat)
    <3>1. DOMAIN line = 1..Len(line) /\ Len(line) \in Nat /\ AllHandled = 1..Len(line)
      BY <2>1 DEF AllHandled
    <3>2. Places(name) \in SUBSET Nat /\ i \in Places(name) /\ \A j \in Places(name) : j <= i
      BY <2>3, <3>1 DEF Places, LastHandled
    <3>3. Max(Places(name)) = i
      BY <3>2, MaxIs
    <3>4. line[i].o = name /\ line[i] \in ToSet(line)
      BY <2>1, <2>3, <3>1 DEF LastHandled, ToSet
    <3>5. QED  BY <2>1, <3>3, <3>4, OptionsAssumption DEF LastOf, LimitTypes
  <2>4. \A r \in Resources, k \in Nat :
          LastLimit(k, r) /\ cfg.limits[k].n <= rlimit[r].max =>
            rlimit[r].cur = cfg.limits[k].n
    BY DEF KernelInv, Limited, Executes
  <2>5. ASSUME Given({"vsize-limit"}), LastOf("vsize-limit") # 0,
               LastOf("vsize-limit") + Reserve <= rlimit["AS"].max
        PROVE  cfg.vsize = LastOf("vsize-limit") /\ LastOf("vsize-limit") < rlimit["AS"].cur
    <3>1. PICK i \in Nat : LastHandled(i, "vsize-limit") /\ asked.vsize = line[i].n
      BY <2>1, <2>2, <2>5 DEF VsizeAsked
    <3>2. LastOf("vsize-limit") = asked.vsize /\ asked.vsize \in Nat
      BY <2>3, <3>1 DEF Numeric
    <3>3. PICK k \in Nat : LastLimit(k, "AS") /\ cfg.limits[k].n = asked.vsize + Reserve
      BY <2>1, <2>5, <3>2 DEF VsizeSet
    <3>4. rlimit["AS"].cur = asked.vsize + Reserve
      BY <2>4, <2>5, <3>2, <3>3 DEF Resources
    <3>5. QED  BY <2>1, <3>2, <3>4, OptionsAssumption DEF VsizeSet
  <2>6. ASSUME Given({"cpu-limit"}), LastOf("cpu-limit") # 0,
               LastOf("cpu-limit") + HardDelay <= rlimit["CPU"].max
        PROVE  cfg.cpu = LastOf("cpu-limit") /\ LastOf("cpu-limit") < rlimit["CPU"].cur
    <3>1. PICK i \in Nat, k \in Nat :
            /\ LastHandled(i, "cpu-limit") /\ cfg.cpu = line[i].n
            /\ LastLimit(k, "CPU") /\ cfg.limits[k].n = line[i].n + HardDelay
      BY <2>1, <2>2, <2>6 DEF CpuAsked
    <3>2. LastOf("cpu-limit") = line[i].n /\ line[i].n \in Nat
      BY <2>3, <3>1 DEF Numeric
    <3>3. rlimit["CPU"].cur = line[i].n + HardDelay
      BY <2>4, <2>6, <3>1, <3>2 DEF Resources
    <3>4. QED  BY <3>1, <3>2, <3>3, OptionsAssumption
  <2>7. QED  BY <2>5, <2>6 DEF SoftBeforeHard
<1>4. QED  BY <1>1, <1>2, <1>3, PTL DEF Spec

-----------------------------------------------------------------------------
(* The limits on the output.                                               *)

(* The last -O is the one that set the filter, and it was accepted.        *)
FilterAsked ==
  Handled({"output-limit"}) =>
    \E i \in Nat :
      /\ LastHandled(i, "output-limit") /\ AcceptsLimits(line[i].a, line[i].m)
      /\ cfg.stamping
      /\ cfg.activate \in InBytes(line[i].a) /\ cfg.max \in InBytes(line[i].m)

OutputLimitInv ==
  /\ {"stamping", "activate", "max"} \subseteq DOMAIN cfg
  /\ main # "exited" => FilterAsked

LEMMA OutputLimitInit == Init => OutputLimitInv
<1> SUFFICES ASSUME Init PROVE OutputLimitInv
  OBVIOUS
<1>1. line \in Seq(ToSet(line)) /\ todo = line /\ cfg = NoSetup
  BY OptionsAssumption DEF Init, OptionsInit
<1>2. ~ Handled({"output-limit"})
  BY <1>1 DEF Handled
<1>3. QED  BY <1>1, <1>2 DEF OutputLimitInv, FilterAsked, NoSetup

LEMMA OptionFilters ==
  ASSUME LineInv, OutputLimitInv, FilterAsked, HandleOption
  PROVE  /\ {"stamping", "activate", "max"} \subseteq DOMAIN cfg'
         /\ main' # "exited" => FilterAsked'
<1>1. todo # <<>> /\ todo' = Tail(todo) /\ line' = line
  BY Taking
<1>2. CASE Refuse
  BY <1>2 DEF Refuse, Exit1, OutputLimitInv
<1>3. CASE SetSolverOutputLimits
  <2>1. CASE AcceptsLimits(arg.a, arg.m)
    <3>1. PICK a \in InBytes(arg.a), m \in InBytes(arg.m) :
            cfg' = [cfg EXCEPT !.stamping = TRUE, !.activate = a, !.max = m]
      BY <1>3, <2>1 DEF SetSolverOutputLimits
    <3>2. /\ DOMAIN cfg' = DOMAIN cfg
          /\ cfg'.stamping /\ cfg'.activate = a /\ cfg'.max = m
      BY <3>1 DEF OutputLimitInv
    <3>3. arg.o = "output-limit"
      BY <1>3 DEF SetSolverOutputLimits, Take
    <3>4. PICK i : i = Len(line) - Len(todo) + 1
      OBVIOUS
    <3>5. PICK o : o = arg.o
      OBVIOUS
    <3>6. i \in Nat /\ arg = line[i] /\ LastHandled(i, o)'
      BY <1>1, <3>4, <3>5, TakeLast
    <3>7. FilterAsked'
      BY <1>1, <2>1, <3>1, <3>2, <3>3, <3>5, <3>6 DEF FilterAsked
    <3>8. QED  BY <3>2, <3>7 DEF OutputLimitInv
  <2>2. CASE ~ AcceptsLimits(arg.a, arg.m)
    BY <1>3, <2>2 DEF SetSolverOutputLimits, Exit1, OutputLimitInv
  <2>3. QED  BY <2>1, <2>2
<1>4. CASE SetFlag \/ SetCPULimit \/ SetWallClockLimit \/ SetStackLimit \/ AskMemory
             \/ SelectCores
  <2>1. arg.o # "output-limit"
    BY <1>4 DEF SetFlag, SetCPULimit, SetWallClockLimit, SetStackLimit, AskMemory,
       SelectCores, Take
  <2>2. /\ DOMAIN cfg' = DOMAIN cfg /\ (cfg.stamping => cfg'.stamping)
        /\ cfg'.activate = cfg.activate /\ cfg'.max = cfg.max
    <3>1. CASE SetFlag
      <4>1. arg.o \in {"output", "input", "timestamp", "use-pty", "watchdog"}
        BY <3>1 DEF SetFlag, Take
      <4>2. QED  BY <3>1, <4>1 DEF SetFlag, OutputLimitInv
    <3>2. CASE SetCPULimit \/ SetWallClockLimit \/ SetStackLimit
      BY <3>2 DEF SetCPULimit, SetWallClockLimit, SetStackLimit, OutputLimitInv
    <3>3. CASE AskMemory \/ SelectCores
      BY <3>3 DEF AskMemory, SelectCores, Exit1, OutputLimitInv
    <3>4. QED  BY <1>4, <3>1, <3>2, <3>3
  <2>3. Handled({"output-limit"})' => Handled({"output-limit"})
    BY <1>1, <2>1, TakeOne
  <2>4. PICK o : o = arg.o
    OBVIOUS
  <2>5. \A i \in Nat : \A name : name # o /\ LastHandled(i, name) => LastHandled(i, name)'
    BY <1>1, <2>4, TakeLast
  <2>6. FilterAsked'
    <3> SUFFICES ASSUME Handled({"output-limit"})' PROVE FilterAsked'
      BY DEF FilterAsked
    <3>1. PICK i \in Nat :
            /\ LastHandled(i, "output-limit") /\ AcceptsLimits(line[i].a, line[i].m)
            /\ cfg.stamping
            /\ cfg.activate \in InBytes(line[i].a) /\ cfg.max \in InBytes(line[i].m)
      BY <2>3 DEF FilterAsked
    <3>2. LastHandled(i, "output-limit")'
      BY <2>1, <2>4, <2>5, <3>1
    <3>3. QED  BY <1>1, <2>2, <3>1, <3>2 DEF FilterAsked
  <2>7. QED  BY <2>2, <2>6 DEF OutputLimitInv
<1>5. QED  BY <1>2, <1>3, <1>4 DEF HandleOption

LEMMA OutputLimitStep ==
  ASSUME TypeOK, LineInv, OutputLimitInv, [Next]_vars
  PROVE  OutputLimitInv'
<1>1. CASE ParseOptions
  <2>1. main = "options"
    BY <1>1, OptionsFrame
  <2>2. CASE HandleOption
    BY <2>1, <2>2, OptionFilters DEF OutputLimitInv
  <2>3. CASE EndOfOptions
    <3>1. /\ UNCHANGED <<line, todo>> /\ DOMAIN cfg' = DOMAIN cfg
          /\ cfg'.stamping = cfg.stamping /\ cfg'.activate = cfg.activate
          /\ cfg'.max = cfg.max
      BY <2>3 DEF EndOfOptions, OutputLimitInv
    <3>2. FilterAsked' = FilterAsked
      BY <3>1 DEF FilterAsked, Handled, LastHandled, AllHandled
    <3>3. QED  BY <2>1, <3>1, <3>2 DEF OutputLimitInv
  <2>4. QED  BY <1>1, <2>2, <2>3 DEF ParseOptions
<1>2. CASE ~ ParseOptions
  <2>1. /\ UNCHANGED <<line, todo, cfg>>
        /\ main' = main \/ main \notin {"options", "exited"}
    BY <1>2, LimitFrame
  <2>2. FilterAsked' = FilterAsked
    BY <2>1 DEF FilterAsked, Handled, LastHandled, AllHandled
  <2>3. QED  BY <2>1, <2>2 DEF OutputLimitInv
<1>3. QED  BY <1>1, <1>2

(* What fits in an int is computed exactly.                                *)
LEMMA Exact ==
  ASSUME NEW n \in Int, n * MiB >= 0, n * MiB < IntHalf
  PROVE  InBytes(n) = {n * MiB}
<1> DEFINE x == n * MiB
<1>1. x \in Nat /\ IntHalf \in Nat /\ LongRange \in Nat /\ 2 * IntHalf <= LongRange
  BY OptionsAssumption
<1>2. x < IntHalf /\ x < 2 * IntHalf /\ x < LongRange
  BY <1>1
<1> HIDE DEF x
<1>3. x % (2 * IntHalf) = x
  BY <1>1, <1>2
<1>4. Signed(x) = x
  BY <1>1, <1>2, <1>3 DEF Signed
<1>5. Unsigned(x) = x
  BY <1>1, <1>2 DEF Unsigned
<1>6. QED  BY <1>4, <1>5 DEF InBytes, x

LEMMA Times ==
  ASSUME NEW a \in Int, NEW m \in Int, a >= 0, a < m
  PROVE  a * MiB \in Nat /\ m * MiB \in Nat /\ a * MiB < m * MiB
BY OptionsAssumption

(* The filter is set up with the numbers of the last -O, and its start is  *)
(* below its limit, whatever else was asked for, if they fit in an int.    *)
THEOREM FilterIsAsAsked == Spec => []FilterAsAsked
<1> DEFINE IInv == TypeOK /\ LineInv /\ RouteInv /\ LimitInv /\ KernelInv /\ OutputLimitInv
<1>1. Init => IInv
  BY TypeInit, RouteInit, LimitInit, OutputLimitInit
<1>2. IInv /\ [Next]_vars => IInv'
  BY TypeStep, RouteStep, LimitStep, OutputLimitStep
<1>3. IInv => FilterAsAsked
  <2> SUFFICES ASSUME IInv, main \notin {"options", "exited"}, Given({"output-limit"}),
                      NEW x, x = line[Max(Places("output-limit"))], InRange(x)
               PROVE  /\ cfg.stamping
                      /\ cfg.activate = x.a * MiB /\ cfg.max = x.m * MiB
                      /\ cfg.activate < cfg.max
    BY DEF FilterAsAsked
  <2>1. todo = <<>> /\ line \in Seq(ToSet(line)) /\ FilterAsked /\ line \in CommandLines
    BY DEF RouteInv, LimitInv, LimitTypes, LineInv, OutputLimitInv
  <2>2. /\ DOMAIN line = 1..Len(line) /\ Len(line) \in Nat /\ AllHandled = 1..Len(line)
        /\ Handled({"output-limit"})
    BY <2>1 DEF AllHandled, Given, Handled
  <2>3. PICK i \in Nat :
          /\ LastHandled(i, "output-limit") /\ AcceptsLimits(line[i].a, line[i].m)
          /\ cfg.stamping
          /\ cfg.activate \in InBytes(line[i].a) /\ cfg.max \in InBytes(line[i].m)
    BY <2>1, <2>2 DEF FilterAsked
  <2>4. /\ Places("output-limit") \in SUBSET Nat /\ i \in Places("output-limit")
        /\ \A j \in Places("output-limit") : j <= i
    BY <2>2, <2>3 DEF Places, LastHandled
  <2>5. x = line[i]
    BY <2>4, MaxIs
  <2>6. x.a \in Int /\ x.m \in Int
    <3>1. x.o = "output-limit" /\ x \in ToSet(line)
      BY <2>1, <2>2, <2>3, <2>5 DEF LastHandled, ToSet
    <3>2. QED  BY <2>1, <3>1, OptionsAssumption
  <2>7. x.a >= 0 /\ x.a < x.m /\ x.m * MiB < IntHalf
    BY <2>3, <2>5 DEF InRange, AcceptsLimits
  <2>8. x.a * MiB \in Nat /\ x.m * MiB \in Nat /\ x.a * MiB < x.m * MiB
    BY <2>6, <2>7, Times
  <2>9. IntHalf \in Nat
    BY OptionsAssumption
  <2>10. cfg.activate = x.a * MiB
    <3>1. x.a * MiB < IntHalf
      BY <2>7, <2>8, <2>9
    <3>2. InBytes(x.a) = {x.a * MiB}
      BY <2>6, <2>8, <3>1, Exact
    <3>3. QED  BY <2>3, <2>5, <3>2
  <2>11. cfg.max = x.m * MiB
    <3>1. InBytes(x.m) = {x.m * MiB}
      BY <2>6, <2>7, <2>8, Exact
    <3>2. QED  BY <2>3, <2>5, <3>1
  <2>12. QED  BY <2>3, <2>8, <2>10, <2>11
<1>4. QED  BY <1>1, <1>2, <1>3, PTL DEF Spec

-----------------------------------------------------------------------------
(* The cores.  A set of numbers in ascending order: the number of smaller  *)
(* elements tells where an element stands.                                 *)
LEMMA Ranks ==
  ASSUME NEW S \in SUBSET Int, IsFiniteSet(S),
         NEW rank, rank = [c \in S |-> Cardinality({d \in S : d < c})]
  PROVE  /\ Cardinality(S) \in Nat
         /\ \A c \in S : rank[c] \in 0..(Cardinality(S) - 1)
         /\ \A b, c \in S : b < c => rank[b] < rank[c]
         /\ \A n \in 0..(Cardinality(S) - 1) : \E c \in S : rank[c] = n
<1> DEFINE below(c) == {d \in S : d < c}
           N == Cardinality(S)
<1>1. N \in Nat /\ \A c \in S : rank[c] = Cardinality(below(c))
  BY FS_CardinalityType
<1>2. ASSUME NEW c \in S
      PROVE  /\ IsFiniteSet(below(c)) /\ Cardinality(below(c)) \in Nat
             /\ Cardinality(below(c)) < N
  <2>1. below(c) \in SUBSET S /\ below(c) # S
    <3>1. c \notin below(c)
      OBVIOUS
    <3>2. QED  BY <3>1
  <2> HIDE DEF below
  <2>2. /\ IsFiniteSet(below(c)) /\ Cardinality(below(c)) <= N
        /\ Cardinality(below(c)) # N
    BY <2>1, FS_Subset
  <2>3. Cardinality(below(c)) \in Nat
    BY <2>2, FS_CardinalityType
  <2>4. QED  BY <1>1, <2>2, <2>3
<1>3. ASSUME NEW b \in S, NEW c \in S, b < c
      PROVE  rank[b] < rank[c]
  <2>1. below(b) \in SUBSET below(c)
    <3>1. ASSUME NEW d \in S, d < b
          PROVE  d < c
      <4>1. d \in Int /\ b \in Int /\ c \in Int
        OBVIOUS
      <4>2. QED  BY <1>3, <3>1, <4>1
    <3>2. QED  BY <3>1
  <2>2. b \in below(c) /\ b \notin below(b)
    BY <1>3
  <2> HIDE DEF below
  <2>3. /\ Cardinality(below(b)) <= Cardinality(below(c))
        /\ Cardinality(below(b)) # Cardinality(below(c))
    BY <1>2, <2>1, <2>2, FS_Subset
  <2>4. QED  BY <1>1, <1>2, <2>3
<1>4. \A c \in S : rank[c] \in 0..(N - 1)
  <2> HIDE DEF below
  <2>1. QED  BY <1>1, <1>2
<1>5. \A n \in 0..(N - 1) : \E c \in S : rank[c] = n
  <2> HIDE DEF N
  <2>1. rank \in [S -> 0..(N - 1)]
    BY <1>4
  <2>2. \A b, c \in S : rank[b] = rank[c] => b = c
    <3>1. ASSUME NEW b \in S, NEW c \in S, rank[b] = rank[c], b # c
          PROVE  FALSE
      <4>1. b < c \/ c < b
        BY <3>1
      <4>2. rank[b] < rank[c] \/ rank[c] < rank[b]
        BY <1>3, <4>1
      <4>3. rank[b] \in Int
        BY <1>4
      <4>4. QED  BY <3>1, <4>2, <4>3
    <3>2. QED  BY <3>1
  <2>3. rank \in Injection(S, 0..(N - 1))
    BY <2>1, <2>2 DEF Injection, IsInjective
  <2>4. IsFiniteSet(0..(N - 1)) /\ Cardinality(0..(N - 1)) = N
    BY <1>1, FS_Interval
  <2>5. rank \in Surjection(S, 0..(N - 1))
    BY <2>3, <2>4, FS_Injection DEF N
  <2>6. QED  BY <2>5 DEF Surjection
<1>6. QED  BY <1>1, <1>3, <1>4, <1>5

LEMMA AscendingIs ==
  ASSUME NEW S \in SUBSET Int, IsFiniteSet(S)
  PROVE  /\ Cardinality(S) \in Nat
         /\ Ascending(S) \in [1..Cardinality(S) -> S]
         /\ \A i, j \in 1..Cardinality(S) : i < j => Ascending(S)[i] < Ascending(S)[j]
         /\ \A c \in S : \E i \in 1..Cardinality(S) : Ascending(S)[i] = c
<1> DEFINE N == Cardinality(S)
           A == Ascending(S)
           rank == [c \in S |-> Cardinality({d \in S : d < c})]
<1>1. /\ N \in Nat
      /\ \A c \in S : rank[c] \in 0..(N - 1)
      /\ \A b, c \in S : b < c => rank[b] < rank[c]
      /\ \A n \in 0..(N - 1) : \E c \in S : rank[c] = n
  BY Ranks
<1>2. /\ A = [i \in 1..N |-> A[i]]
      /\ \A i \in 1..N : A[i] = CHOOSE c \in S : Cardinality({d \in S : d < c}) = i - 1
  BY DEF Ascending
<1>3. ASSUME NEW i \in 1..N
      PROVE  A[i] \in S /\ rank[A[i]] = i - 1
  <2>1. PICK b \in S : rank[b] = i - 1
    <3> HIDE DEF rank, N
    <3>1. QED  BY <1>1
  <2>2. Cardinality({d \in S : d < b}) = i - 1
    BY <2>1
  <2>3. A[i] \in S /\ Cardinality({d \in S : d < A[i]}) = i - 1
    <3> HIDE DEF A
    <3>1. QED  BY <1>2, <2>2
  <2>4. QED  BY <2>3
<1> HIDE DEF N, A, rank
<1>8. (\A x \in S : x \in Int) /\ \A i \in 1..N : i \in Int
  BY <1>1
<1>4. A \in [1..N -> S]
  BY <1>2, <1>3
<1>5. ASSUME NEW i \in 1..N, NEW j \in 1..N, i < j
      PROVE  A[i] < A[j]
  <2>1. /\ A[i] \in S /\ A[j] \in S /\ rank[A[i]] = i - 1 /\ rank[A[j]] = j - 1
        /\ i \in Int /\ j \in Int /\ A[i] \in Int /\ A[j] \in Int
    <3>1. A[i] \in S /\ A[j] \in S /\ rank[A[i]] = i - 1 /\ rank[A[j]] = j - 1
      BY <1>3
    <3>2. QED  BY <1>8, <3>1
  <2>2. ~ (A[j] < A[i]) /\ A[i] # A[j]
    BY <1>1, <1>5, <2>1
  <2>3. QED  BY <2>1, <2>2
<1>6. ASSUME NEW c \in S
      PROVE  \E i \in 1..N : A[i] = c
  <2>1. PICK i \in 1..N : i = rank[c] + 1
    BY <1>1
  <2>2. rank[c] \in Int /\ A[i] \in S /\ rank[A[i]] = i - 1 /\ A[i] \in Int /\ c \in Int
    <3>1. A[i] \in S /\ rank[A[i]] = i - 1
      BY <1>3
    <3>2. rank[c] \in 0..(N - 1)
      BY <1>1
    <3>3. rank[c] \in Int
      BY <3>2
    <3>4. A[i] \in Int /\ c \in Int
      BY <1>8, <3>1
    <3>5. QED  BY <3>1, <3>3, <3>4
  <2>3. ~ (A[i] < c) /\ ~ (c < A[i])
    BY <1>1, <2>1, <2>2
  <2>4. A[i] = c
    BY <2>2, <2>3
  <2>5. QED  BY <2>1, <2>4
<1>7. QED  BY <1>1, <1>4, <1>5, <1>6 DEF N, A

(* The physical order: the cpus themselves.                                *)
LEMMA CpuFinite ==
  /\ NbCpus \in Nat \ {0} /\ Cpu \in SUBSET Nat
  /\ IsFiniteSet(Cpu) /\ Cardinality(Cpu) = NbCpus
  /\ \A M \in SUBSET Cpu : IsFiniteSet(M) /\ Cardinality(M) \in Nat
<1>1. NbCpus \in Nat \ {0} /\ Cpu \in SUBSET Nat
  BY CoresAssumption DEF Cpu
<1>2. IsFiniteSet(Cpu) /\ Cardinality(Cpu) = NbCpus
  BY <1>1, FS_Interval DEF Cpu
<1>3. QED  BY <1>1, <1>2, FS_Subset, FS_CardinalityType

(* The processor of a core, and the first core of it in a set.             *)
LEMMA FirstIs ==
  ASSUME NEW M \in SUBSET Cpu, NEW c \in M
  PROVE  /\ FirstOf(c, M) \in M /\ FirstOf(c, M) <= c
         /\ Processor[FirstOf(c, M)] = Processor[c]
         /\ \A d \in M : Processor[d] = Processor[c] =>
              FirstOf(c, M) <= d /\ FirstOf(d, M) = FirstOf(c, M)
<1> DEFINE T == {d \in M : Processor[d] = Processor[c]}
<1>1. T \in SUBSET Nat /\ T # {}
  BY CpuFinite
<1>2. PICK m \in T : \A n \in T : m <= n
  BY <1>1, LeastNatural, Zenon
<1>3. FirstOf(c, M) \in T /\ \A n \in T : FirstOf(c, M) <= n
  BY <1>2 DEF FirstOf, Min
<1>4. \A d \in M : Processor[d] = Processor[c] => FirstOf(d, M) = FirstOf(c, M)
  BY DEF FirstOf
<1>5. QED  BY <1>3, <1>4

LEMMA SameFirst ==
  ASSUME NEW M \in SUBSET Cpu, NEW c \in M, NEW d \in M
  PROVE  FirstOf(c, M) = FirstOf(d, M) <=> Processor[c] = Processor[d]
BY FirstIs

LEMMA BeforeIsOrder ==
  ASSUME NEW M \in SUBSET Cpu
  PROVE  /\ \A b \in M : ~ Before(b, b, M)
         /\ \A b, c \in M : b # c => Before(b, c, M) \/ Before(c, b, M)
         /\ \A b, c, d \in M : Before(b, c, M) /\ Before(c, d, M) => Before(b, d, M)
<1>1. \A b \in M : b \in Nat /\ FirstOf(b, M) \in Nat
  BY FirstIs, CpuFinite
<1>2. QED  BY <1>1 DEF Before

(* The numbers read from a mask are those of the cpus, if it has no comma. *)
LEMMA SmallMasks ==
  ASSUME NbCpus <= GroupSize
  PROVE  /\ CoreId = Cpu
         /\ \A c \in Cpu : Siblings(c) = {d \in Cpu : Processor[d] = Processor[c]}
<1>1. ASSUME NEW c \in Cpu
      PROVE  ReadAs(c) = c
  <2>1. c \in Nat /\ GroupSize \in Nat /\ c < GroupSize /\ DigitSize \in Nat
    BY CoresAssumption DEF Cpu
  <2>2. c \div GroupSize = 0
    BY <2>1
  <2>3. DigitSize * 0 = 0
    BY <2>1
  <2>4. QED  BY <2>1, <2>2, <2>3 DEF ReadAs
<1>2. CoreId = Cpu
  BY <1>1 DEF CoreId
<1>3. QED  BY <1>1, <1>2 DEF Siblings

(* One round of the loop of the code, and the lists after each round.      *)
ListNext(M, old, n) ==
  IF n - 1 \in M \ ToSet(old)
  THEN old \o Ascending((Siblings(n - 1) \cap M) \ ToSet(old)) ELSE old
ListUpTo(M, f, m) ==
  f = [n \in 0..m |-> IF n = 0 THEN <<>> ELSE ListNext(M, f[n - 1], n)]

LEMMA ListsExist ==
  ASSUME NEW M
  PROVE  \E f : ListUpTo(M, f, NbCpus)
<1> DEFINE Missing == {m \in 0..NbCpus : ~ \E f : ListUpTo(M, f, m)}
<1>0. NbCpus \in Nat
  BY CoresAssumption
<1> SUFFICES ASSUME NbCpus \in Missing PROVE FALSE
  BY <1>0
<1>1. PICK m \in Missing : \A n \in Missing : m <= n
  <2>1. Missing \in SUBSET Nat /\ Missing # {}
    BY <1>0
  <2>2. QED
    BY <2>1, LeastNatural, Zenon
<1>2. m \in 0..NbCpus /\ ~ \E f : ListUpTo(M, f, m)
  OBVIOUS
<1>3. CASE m = 0
  <2>1. ListUpTo(M, [n \in 0..0 |-> <<>>], 0)
    BY DEF ListUpTo
  <2>2. QED
    BY <1>2, <1>3, <2>1
<1>4. CASE m > 0
  <2>1. m - 1 \in 0..NbCpus /\ m - 1 \notin Missing
    BY <1>0, <1>1, <1>2, <1>4
  <2>2. PICK f : ListUpTo(M, f, m - 1)
    BY <2>1
  <2> DEFINE g == [n \in 0..m |-> IF n = m THEN ListNext(M, f[m - 1], m) ELSE f[n]]
  <2>3. ASSUME NEW n \in 0..m
        PROVE  g[n] = IF n = 0 THEN <<>> ELSE ListNext(M, g[n - 1], n)
    <3>1. CASE n = 0
      BY <1>4, <2>2, <3>1 DEF ListUpTo
    <3>2. CASE n > 0 /\ n < m
      <4>1. n \in 0..(m - 1) /\ n - 1 \in 0..m /\ n - 1 # m /\ n # m /\ n # 0
        BY <1>2, <3>2
      <4>2. g[n] = f[n] /\ g[n - 1] = f[n - 1]
        BY <4>1
      <4>3. f[n] = ListNext(M, f[n - 1], n)
        BY <2>2, <4>1 DEF ListUpTo
      <4> HIDE DEF g
      <4>4. QED
        BY <4>1, <4>2, <4>3
    <3>3. CASE n = m
      <4>1. m - 1 \in 0..m /\ m - 1 # m /\ m # 0
        BY <1>2, <1>4
      <4>2. g[m] = ListNext(M, f[m - 1], m) /\ g[m - 1] = f[m - 1]
        BY <4>1
      <4> HIDE DEF g
      <4>3. QED
        BY <3>3, <4>1, <4>2
    <3>4. QED
      BY <1>2, <3>1, <3>2, <3>3
  <2>4. ListUpTo(M, g, m)
    <3>1. g = [n \in 0..m |-> g[n]]
      OBVIOUS
    <3> HIDE DEF g
    <3>2. QED
      BY <2>3, <3>1 DEF ListUpTo
  <2>5. QED
    BY <1>2, <2>4
<1>5. QED
  BY <1>2, <1>3, <1>4

LEMMA ByProcessorIs ==
  ASSUME NEW M
  PROVE  \E f : /\ ByProcessor(M, M) = f[NbCpus] /\ f[0] = <<>>
                /\ \A n \in 1..NbCpus : f[n] = ListNext(M, f[n - 1], n)
<1> DEFINE step(f) ==
      [n \in 0..NbCpus |->
         IF n = 0 THEN <<>>
         ELSE LET old == f[n - 1]
                  new == (Siblings(n - 1) \cap M) \ ToSet(old)
              IN IF n - 1 \in M \ ToSet(old) THEN old \o Ascending(new) ELSE old]
           list == CHOOSE f : f = step(f)
<1>1. \A f : ListUpTo(M, f, NbCpus) <=> f = step(f)
  BY DEF ListUpTo, ListNext
<1>2. ByProcessor(M, M) = list[NbCpus]
  BY DEF ByProcessor
<1> HIDE DEF step
<1>3. ListUpTo(M, list, NbCpus)
  BY <1>1, ListsExist, Zenon
<1> HIDE DEF list
<1>4. NbCpus \in Nat
  BY CoresAssumption
<1>5. \A n \in 0..NbCpus : list[n] = IF n = 0 THEN <<>> ELSE ListNext(M, list[n - 1], n)
  BY <1>3 DEF ListUpTo
<1>6. list[0] = <<>> /\ \A n \in 1..NbCpus : list[n] = ListNext(M, list[n - 1], n)
  BY <1>4, <1>5
<1>7. QED  BY <1>2, <1>6

(* After the cpus below n: the cores of the processors met so far, in the  *)
(* order of the documentation.                                             *)
Listed(M, s, n) ==
  /\ s \in Seq(M)
  /\ \A c \in M : FirstOf(c, M) < n <=> \E i \in 1..Len(s) : s[i] = c
  /\ \A i, j \in 1..Len(s) : i < j => Before(s[i], s[j], M)

LEMMA ListedStep ==
  ASSUME NbCpus <= GroupSize, NEW M \in SUBSET Cpu, NEW n \in 1..NbCpus,
         NEW old, Listed(M, old, n - 1)
  PROVE  Listed(M, ListNext(M, old, n), n)
<1> DEFINE new == (Siblings(n - 1) \cap M) \ ToSet(old)
           next == ListNext(M, old, n)
<1>1. /\ NbCpus \in Nat /\ n \in Nat /\ n - 1 \in Nat /\ n - 1 \in Cpu
      /\ \A c \in M : c \in Nat /\ c \in Cpu /\ FirstOf(c, M) \in Nat /\ FirstOf(c, M) \in M
  <2>1. NbCpus \in Nat /\ n \in Nat /\ n - 1 \in Nat /\ n - 1 \in Cpu
    BY CpuFinite DEF Cpu
  <2>2. \A c \in M : c \in Cpu /\ c \in Nat
    BY CpuFinite
  <2>3. \A c \in M : FirstOf(c, M) \in M
    BY FirstIs
  <2>4. QED  BY <2>1, <2>2, <2>3
<1>2. /\ old \in Seq(M) /\ Len(old) \in Nat
      /\ \A c \in M : FirstOf(c, M) < n - 1 <=> c \in ToSet(old)
  BY DEF Listed, ToSet
<1>3. CASE n - 1 \in M \ ToSet(old)
  <2>1. FirstOf(n - 1, M) = n - 1
    <3>1. ~ (FirstOf(n - 1, M) < n - 1) /\ FirstOf(n - 1, M) <= n - 1
      BY <1>2, <1>3, FirstIs
    <3>2. FirstOf(n - 1, M) \in Nat
      BY <1>1, <1>3
    <3>3. QED  BY <1>1, <3>1, <3>2
  <2>2. \A c \in M : c \in new <=> FirstOf(c, M) = n - 1
    <3> SUFFICES ASSUME NEW c \in M PROVE c \in new <=> FirstOf(c, M) = n - 1
      OBVIOUS
    <3>1. c \in Siblings(n - 1) <=> Processor[c] = Processor[n - 1]
      BY <1>1, SmallMasks
    <3>2. Processor[c] = Processor[n - 1] <=> FirstOf(c, M) = n - 1
      BY <1>3, <2>1, SameFirst
    <3>3. FirstOf(c, M) = n - 1 => c \notin ToSet(old)
      BY <1>1, <1>2
    <3>4. QED  BY <3>1, <3>2, <3>3
  <2>3. new \in SUBSET Int /\ new \subseteq M /\ IsFiniteSet(new)
    <3>1. new \in SUBSET M /\ new \subseteq Int
      BY <1>1
    <3>2. IsFiniteSet(M)
      BY CpuFinite
    <3> HIDE DEF new
    <3>3. QED  BY <3>1, <3>2, FS_Subset
  <2> DEFINE k == Cardinality(new)
             A == Ascending(new)
  <2>4. /\ k \in Nat /\ A \in [1..k -> new]
        /\ \A i, j \in 1..k : i < j => A[i] < A[j]
        /\ \A c \in new : \E i \in 1..k : A[i] = c
    BY <2>3, AscendingIs
  <2>5. next = old \o A
    BY <1>3 DEF ListNext
  <2> HIDE DEF new, k, A, next
  <2>6. A \in Seq(M) /\ Len(A) = k
    <3>1. A \in [1..k -> M] /\ k \in Nat
      BY <2>3, <2>4
    <3>2. QED  BY <3>1
  <2>7. next \in Seq(M) /\ Len(next) = Len(old) + k
    <3>1. old \in Seq(M) /\ A \in Seq(M)
      BY <1>2, <2>6
    <3>2. old \o A \in Seq(M) /\ Len(old \o A) = Len(old) + Len(A)
      BY <3>1
    <3>3. QED  BY <2>5, <2>6, <3>2
  <2>8. /\ \A i \in 1..Len(old) : next[i] = old[i] /\ i \in 1..Len(next)
        /\ \A i \in 1..k : next[Len(old) + i] = A[i] /\ Len(old) + i \in 1..Len(next)
    BY <1>2, <2>4, <2>5, <2>6, <2>7
  <2>9. \A i \in 1..Len(next) : i \in 1..Len(old) \/ (i - Len(old) \in 1..k /\ i = Len(old) + (i - Len(old)))
    BY <1>2, <2>4, <2>7
  <2>10. ASSUME NEW c \in M
         PROVE  FirstOf(c, M) < n <=> \E i \in 1..Len(next) : next[i] = c
    <3>1. FirstOf(c, M) < n <=> c \in ToSet(old) \/ c \in new
      BY <1>1, <1>2, <2>2
    <3>2. c \in ToSet(old) => \E i \in 1..Len(next) : next[i] = c
      BY <1>2, <2>8 DEF ToSet
    <3>3. c \in new => \E i \in 1..Len(next) : next[i] = c
      BY <2>4, <2>8
    <3>4. ASSUME NEW i \in 1..Len(next), next[i] = c
          PROVE  c \in ToSet(old) \/ c \in new
      <4>1. CASE i \in 1..Len(old)
        BY <1>2, <2>8, <3>4, <4>1 DEF ToSet
      <4>2. CASE i - Len(old) \in 1..k /\ i = Len(old) + (i - Len(old))
        <5>1. next[i] = A[i - Len(old)]
          BY <2>8, <4>2
        <5>2. QED  BY <2>4, <3>4, <4>2, <5>1
      <4>3. QED  BY <2>9, <4>1, <4>2
    <3>5. QED  BY <3>1, <3>2, <3>3, <3>4
  <2>11. ASSUME NEW i \in 1..Len(next), NEW j \in 1..Len(next), i < j
         PROVE  Before(next[i], next[j], M)
    <3>1. CASE j \in 1..Len(old)
      <4>1. i \in 1..Len(old)
        BY <2>11, <3>1, <1>2
      <4>2. next[i] = old[i] /\ next[j] = old[j]
        BY <2>8, <3>1, <4>1
      <4>3. QED  BY <2>11, <3>1, <4>1, <4>2 DEF Listed
    <3>2. CASE j - Len(old) \in 1..k /\ j = Len(old) + (j - Len(old))
      <4>1. /\ next[j] = A[j - Len(old)] /\ next[j] \in new /\ next[j] \in M
            /\ FirstOf(next[j], M) = n - 1
        <5>1. next[j] = A[j - Len(old)]
          BY <2>8, <3>2
        <5>2. QED  BY <2>2, <2>3, <2>4, <3>2, <5>1
      <4>2. CASE i \in 1..Len(old)
        <5>1. next[i] = old[i] /\ old[i] \in M /\ old[i] \in ToSet(old)
          BY <1>2, <2>8, <4>2 DEF ToSet
        <5>2. FirstOf(next[i], M) < n - 1
          BY <1>2, <5>1
        <5>3. QED  BY <4>1, <5>2 DEF Before
      <4>3. CASE i - Len(old) \in 1..k /\ i = Len(old) + (i - Len(old))
        <5>1. next[i] = A[i - Len(old)]
          BY <2>8, <4>3
        <5>2. next[i] \in new /\ next[i] \in M /\ FirstOf(next[i], M) = n - 1
          BY <2>2, <2>3, <2>4, <4>3, <5>1
        <5>3. i - Len(old) < j - Len(old)
          BY <1>2, <2>7, <2>11, <2>4
        <5>4. next[i] < next[j]
          BY <2>4, <3>2, <4>1, <4>3, <5>1, <5>3
        <5>5. QED  BY <4>1, <5>2, <5>4 DEF Before
      <4>4. QED  BY <2>9, <4>2, <4>3
    <3>3. QED  BY <2>9, <3>1, <3>2
  <2>12. QED  BY <2>7, <2>10, <2>11 DEF Listed, next
<1>4. CASE n - 1 \notin M \ ToSet(old)
  <2>1. next = old
    BY <1>4 DEF ListNext
  <2>2. ASSUME NEW c \in M
        PROVE  FirstOf(c, M) < n <=> FirstOf(c, M) < n - 1
    <3>1. ASSUME FirstOf(c, M) = n - 1
          PROVE  FALSE
      <4>1. n - 1 \in M /\ n - 1 \in ToSet(old)
        BY <1>1, <1>4, <3>1
      <4>2. FirstOf(n - 1, M) = n - 1
        BY <3>1, <4>1, FirstIs
      <4>3. FirstOf(n - 1, M) < n - 1
        BY <1>2, <4>1
      <4>4. QED  BY <1>1, <4>2, <4>3
    <3>2. QED  BY <1>1, <3>1
  <2>3. QED  BY <2>1, <2>2 DEF Listed
<1>5. QED  BY <1>3, <1>4

(* A list of exactly these cores, in the order of the documentation.       *)
InOrder(s, M) ==
  /\ s \in [1..Cardinality(M) -> M]
  /\ \A c \in M : \E i \in 1..Cardinality(M) : s[i] = c
  /\ \A i, j \in 1..Cardinality(M) : i < j => Before(s[i], s[j], M)

LEMMA ByProcessorOrder ==
  ASSUME NbCpus <= GroupSize, NEW M \in SUBSET Cpu
  PROVE  InOrder(ByProcessor(M, M), M)
<1>1. PICK f : /\ ByProcessor(M, M) = f[NbCpus] /\ f[0] = <<>>
               /\ \A n \in 1..NbCpus : f[n] = ListNext(M, f[n - 1], n)
  BY ByProcessorIs
<1> DEFINE Bad == {n \in 0..NbCpus : ~ Listed(M, f[n], n)}
           s == ByProcessor(M, M)
<1>2. NbCpus \in Nat /\ \A c \in M : FirstOf(c, M) \in 0..(NbCpus - 1)
  BY CoresAssumption, FirstIs DEF Cpu
<1>3. Listed(M, <<>>, 0)
  BY <1>2 DEF Listed
<1>4. Bad = {}
  <2> SUFFICES ASSUME Bad # {} PROVE FALSE
    OBVIOUS
  <2>1. PICK m \in Bad : \A n \in Bad : m <= n
    <3>1. Bad \in SUBSET Nat
      BY <1>2
    <3>2. QED  BY <3>1, LeastNatural, Zenon
  <2>2. m # 0
    BY <1>1, <1>3, <2>1
  <2>3. m \in 1..NbCpus /\ m - 1 \in 0..NbCpus /\ m - 1 \notin Bad
    BY <1>2, <2>1, <2>2
  <2>4. Listed(M, f[m - 1], m - 1)
    BY <2>3
  <2>5. Listed(M, f[m], m)
    BY <1>1, <2>3, <2>4, ListedStep
  <2>6. QED  BY <2>1, <2>5
<1>5. Listed(M, s, NbCpus)
  BY <1>1, <1>2, <1>4
<1> HIDE DEF s
<1>6. /\ s \in Seq(M) /\ Len(s) \in Nat /\ s \in [1..Len(s) -> M]
      /\ \A c \in M : \E i \in 1..Len(s) : s[i] = c
      /\ \A i, j \in 1..Len(s) : i < j => Before(s[i], s[j], M)
  BY <1>2, <1>5 DEF Listed
<1>7. Len(s) = Cardinality(M)
  <2>1. \A i, j \in 1..Len(s) : s[i] = s[j] => i = j
    <3> SUFFICES ASSUME NEW i \in 1..Len(s), NEW j \in 1..Len(s), s[i] = s[j], i # j
                 PROVE  FALSE
      OBVIOUS
    <3>1. i < j \/ j < i
      BY <1>6
    <3>2. s[i] \in M /\ Before(s[i], s[i], M)
      BY <1>6, <3>1
    <3>3. QED  BY <3>2, BeforeIsOrder
  <2>2. s \in Bijection(1..Len(s), M)
    BY <1>6, <2>1 DEF Bijection, Injection, Surjection, IsInjective
  <2>3. ExistsBijection(1..Len(s), M)
    BY <2>2 DEF ExistsBijection
  <2>4. IsFiniteSet(1..Len(s)) /\ Cardinality(1..Len(s)) = Len(s)
    BY <1>6, FS_Interval
  <2>5. QED  BY <2>3, <2>4, FS_Bijection
<1>8. QED  BY <1>6, <1>7 DEF InOrder, s

LEMMA AllocatedIs ==
  ASSUME NEW M \in SUBSET Cpu
  PROVE  AllocatedCores(M) = ByProcessor(M, M)
<1> DEFINE chosen == CHOOSE entry \in AllocatedLists : entry[1] = M
<1>1. <<M, ByProcessor(M, M)>> \in AllocatedLists
  BY DEF AllocatedLists
<1>2. chosen \in AllocatedLists /\ chosen[1] = M
  BY <1>1
<1> HIDE DEF chosen
<1>3. chosen[2] = ByProcessor(M, M)
  BY <1>2 DEF AllocatedLists
<1>4. QED  BY <1>3 DEF AllocatedCores, chosen

LEMMA OrderedIsSeq ==
  ASSUME NEW M \in SUBSET Cpu, NEW s, InOrder(s, M)
  PROVE  /\ Cardinality(M) \in Nat /\ s \in Seq(M) /\ Len(s) = Cardinality(M)
         /\ ToSet(s) = M
<1>1. Cardinality(M) \in Nat
  BY CpuFinite
<1>2. s \in Seq(M) /\ Len(s) = Cardinality(M) /\ DOMAIN s = 1..Cardinality(M)
  BY <1>1 DEF InOrder
<1>3. ToSet(s) = M
  BY <1>2 DEF InOrder, ToSet
<1>4. QED  BY <1>1, <1>2, <1>3

(* Moving to the last core of a set takes the last one in this order.      *)
LEMMA LastCore ==
  ASSUME NbCpus <= GroupSize, NEW M \in SUBSET Cpu
  PROVE  SetAffinity(M, OwnMask(AllocatedCores(M))) =
           {c \in M : \A d \in M : ~ Before(c, d, M)}
<1> DEFINE s == AllocatedCores(M)
           n == Cardinality(M)
           last == {c \in M : \A d \in M : ~ Before(c, d, M)}
<1>1. InOrder(s, M)
  BY AllocatedIs, ByProcessorOrder
<1> HIDE DEF s
<1>2. n \in Nat /\ s \in Seq(M) /\ Len(s) = n /\ ToSet(s) = M
  BY <1>1, OrderedIsSeq
<1> HIDE DEF n
<1>3. /\ \A i \in 1..n : s[i] \in M
      /\ \A c \in M : \E i \in 1..n : s[i] = c
      /\ \A i, j \in 1..n : i < j => Before(s[i], s[j], M)
  BY <1>1 DEF InOrder, n
<1>4. CASE n > 1
  <2>1. n \in 1..n /\ Last(s) = s[n] /\ s[n] \in M
    BY <1>2, <1>3, <1>4 DEF Last
  <2>2. \A d \in M : ~ Before(s[n], d, M)
    <3> SUFFICES ASSUME NEW d \in M, Before(s[n], d, M) PROVE FALSE
      OBVIOUS
    <3>1. PICK i \in 1..n : s[i] = d
      BY <1>3
    <3>2. CASE i = n
      BY <2>1, <3>1, <3>2, BeforeIsOrder
    <3>3. CASE i < n
      <4>1. Before(d, s[n], M)
        BY <1>3, <2>1, <3>1, <3>3
      <4>2. Before(d, d, M)
        BY <2>1, <4>1, BeforeIsOrder
      <4>3. QED  BY <4>2, BeforeIsOrder
    <3>4. QED  BY <1>2, <3>1, <3>2, <3>3
  <2>3. \A c \in M : c # s[n] => Before(c, s[n], M)
    BY <2>1, <2>2, BeforeIsOrder
  <2>4. last = {s[n]}
    BY <2>1, <2>2, <2>3
  <2>5. OwnMask(s) = {s[n]}
    BY <1>2, <1>4, <2>1 DEF OwnMask
  <2>6. SetAffinity(M, {s[n]}) = {s[n]}
    BY <2>1 DEF SetAffinity
  <2>7. QED  BY <2>4, <2>5, <2>6 DEF s
<1>5. CASE n <= 1
  <2>1. OwnMask(s) = M
    BY <1>2, <1>5 DEF OwnMask
  <2>2. SetAffinity(M, M) = M
    BY DEF SetAffinity
  <2>3. \A c, d \in M : c = d
    <3> SUFFICES ASSUME NEW c \in M, NEW d \in M PROVE c = d
      OBVIOUS
    <3>1. PICK i \in 1..n : s[i] = c
      BY <1>3
    <3>2. PICK j \in 1..n : s[j] = d
      BY <1>3
    <3>3. i = 1 /\ j = 1
      BY <1>2, <1>5, <3>1, <3>2
    <3>4. QED  BY <3>1, <3>2, <3>3
  <2>4. last = M
    BY <2>3, BeforeIsOrder
  <2>5. QED  BY <2>1, <2>2, <2>4 DEF s
<1>6. QED  BY <1>2, <1>4, <1>5

-----------------------------------------------------------------------------
(* Two lists of the same cores in this order are the same.                 *)
LEMMA InOrderUnique ==
  ASSUME NEW M \in SUBSET Cpu, NEW s, InOrder(s, M), NEW t, InOrder(t, M)
  PROVE  s = t
<1> DEFINE n == Cardinality(M)
           D == {i \in 1..n : s[i] # t[i]}
<1>1. n \in Nat
  BY CpuFinite
<1>2. /\ s \in [1..n -> M] /\ t \in [1..n -> M]
      /\ \A c \in M : (\E i \in 1..n : s[i] = c) /\ (\E i \in 1..n : t[i] = c)
      /\ \A i, j \in 1..n : i < j => Before(s[i], s[j], M) /\ Before(t[i], t[j], M)
  BY DEF InOrder
<1> HIDE DEF n
<1>3. D = {}
  <2> SUFFICES ASSUME D # {} PROVE FALSE
    OBVIOUS
  <2>1. PICK m \in D : \A i \in D : m <= i
    <3>1. D \in SUBSET Nat
      OBVIOUS
    <3>2. QED  BY <3>1, LeastNatural, Zenon
  <2>2. m \in 1..n /\ s[m] # t[m] /\ s[m] \in M /\ t[m] \in M
    BY <1>2
  <2>3. \A i \in 1..n : i < m => s[i] = t[i]
    BY <1>1, <2>1, <2>2
  <2>4. PICK i \in 1..n : t[i] = s[m]
    BY <1>2, <2>2
  <2>5. PICK j \in 1..n : s[j] = t[m]
    BY <1>2, <2>2
  <2>6. i > m
    <3>1. i # m
      BY <2>2, <2>4
    <3>2. ~ (i < m)
      <4> SUFFICES ASSUME i < m PROVE FALSE
        OBVIOUS
      <4>1. s[i] = s[m] /\ Before(s[i], s[m], M)
        BY <1>2, <2>2, <2>3, <2>4
      <4>2. QED  BY <2>2, <4>1, BeforeIsOrder
    <3>3. QED  BY <1>1, <2>2, <2>4, <3>1, <3>2
  <2>7. j > m
    <3>1. j # m
      BY <2>2, <2>5
    <3>2. ~ (j < m)
      <4> SUFFICES ASSUME j < m PROVE FALSE
        OBVIOUS
      <4>1. t[j] = t[m] /\ Before(t[j], t[m], M)
        BY <1>2, <2>2, <2>3, <2>5
      <4>2. QED  BY <2>2, <4>1, BeforeIsOrder
    <3>3. QED  BY <1>1, <2>2, <2>5, <3>1, <3>2
  <2>8. Before(t[m], s[m], M) /\ Before(s[m], t[m], M)
    BY <1>2, <2>2, <2>4, <2>5, <2>6, <2>7
  <2>9. Before(t[m], t[m], M)
    BY <2>2, <2>8, BeforeIsOrder
  <2>10. QED  BY <2>2, <2>9, BeforeIsOrder
<1>4. \A i \in 1..n : s[i] = t[i]
  BY <1>3
<1>5. s = [i \in 1..n |-> s[i]] /\ t = [i \in 1..n |-> t[i]]
  BY <1>2
<1>6. QED  BY <1>4, <1>5

(* The order of the documentation is the one of the code.                  *)
LEMMA DocumentedIs ==
  ASSUME NbCpus <= GroupSize
  PROVE  /\ LogicalView \in [1..NbCpus -> Cpu] /\ Len(LogicalView) = NbCpus
         /\ Documented = LogicalView
<1> DEFINE L == LogicalView
           Sorted(s) == \A i, j \in 1..NbCpus : i < j => Before(s[i], s[j], Cpu)
           D == CHOOSE s \in [1..NbCpus -> Cpu] : Sorted(s)
<1>1. LogicalView = ByProcessor(Cpu, Cpu)
  BY SmallMasks DEF LogicalView
<1>2. InOrder(L, Cpu) /\ Cardinality(Cpu) = NbCpus /\ Cpu \in SUBSET Cpu
  BY <1>1, ByProcessorOrder, CpuFinite
<1>3. L \in [1..NbCpus -> Cpu] /\ Sorted(L)
  BY <1>2 DEF InOrder
<1>4. D \in [1..NbCpus -> Cpu] /\ Sorted(D)
  BY <1>3
<1> HIDE DEF L, D
<1>5. InOrder(D, Cpu)
  <2>1. \A i, j \in 1..NbCpus : D[i] = D[j] => i = j
    <3> SUFFICES ASSUME NEW i \in 1..NbCpus, NEW j \in 1..NbCpus, D[i] = D[j], i # j
                 PROVE  FALSE
      OBVIOUS
    <3>1. i < j \/ j < i
      BY CpuFinite
    <3>2. D[i] \in Cpu /\ Before(D[i], D[i], Cpu)
      BY <1>4, <3>1
    <3>3. QED  BY <3>2, BeforeIsOrder
  <2>2. D \in Injection(1..NbCpus, Cpu)
    BY <1>4, <2>1 DEF Injection, IsInjective
  <2>3. IsFiniteSet(Cpu) /\ Cardinality(1..NbCpus) = NbCpus /\ IsFiniteSet(1..NbCpus)
    BY CpuFinite, FS_Interval
  <2>4. D \in Surjection(1..NbCpus, Cpu)
    BY <1>2, <2>2, <2>3, FS_Injection
  <2>5. \A c \in Cpu : \E i \in 1..NbCpus : D[i] = c
    BY <2>4 DEF Surjection
  <2>6. QED  BY <1>2, <1>4, <2>5 DEF InOrder
<1>6. D = L
  BY <1>2, <1>5, InOrderUnique
<1>7. Documented = D
  BY DEF Documented, D
<1>8. Len(L) = NbCpus
  BY <1>3, CpuFinite
<1>9. QED  BY <1>3, <1>6, <1>7, <1>8 DEF L

(* The physical order: core i is number i.                                 *)
LEMMA PhysicalIs ==
  /\ Ascending(Cpu) \in [1..NbCpus -> Cpu] /\ Len(Ascending(Cpu)) = NbCpus
  /\ \A q \in Cpu : Ascending(Cpu)[q + 1] = q
<1>1. /\ NbCpus \in Nat \ {0} /\ Cardinality(Cpu) = NbCpus /\ IsFiniteSet(Cpu)
      /\ Cpu \in SUBSET Int
  BY CpuFinite
<1>2. Ascending(Cpu) \in [1..NbCpus -> Cpu]
  BY <1>1, AscendingIs
<1>3. \A c \in Cpu : Cardinality({d \in Cpu : d < c}) = c
  <2> SUFFICES ASSUME NEW c \in Cpu PROVE Cardinality({d \in Cpu : d < c}) = c
    OBVIOUS
  <2>1. {d \in Cpu : d < c} = 0..(c - 1) /\ c \in Nat
    BY <1>1 DEF Cpu
  <2>2. Cardinality(0..(c - 1)) = c
    BY <2>1, FS_Interval
  <2>3. QED  BY <2>1, <2>2
<1>4. ASSUME NEW q \in Cpu
      PROVE  Ascending(Cpu)[q + 1] = q
  <2>1. PICK j \in 1..Cardinality(Cpu) : j = q + 1 /\ j - 1 = q
    BY <1>1 DEF Cpu
  <2> DEFINE a == Ascending(Cpu)[j]
  <2>2. a = CHOOSE c \in Cpu : Cardinality({d \in Cpu : d < c}) = j - 1
    BY DEF Ascending
  <2>3. Cardinality({d \in Cpu : d < q}) = j - 1
    BY <1>3, <2>1
  <2> HIDE DEF a
  <2>4. a \in Cpu /\ Cardinality({d \in Cpu : d < a}) = j - 1
    BY <2>2, <2>3
  <2>5. a = q
    BY <1>3, <2>1, <2>4
  <2>6. QED  BY <2>1, <2>5 DEF a
<1>5. Len(Ascending(Cpu)) = NbCpus
  BY <1>1, <1>2
<1>6. QED  BY <1>2, <1>4, <1>5

-----------------------------------------------------------------------------
LEMMA PositionsAre ==
  ASSUME NEW x \in Numbers, NEW available, Len(available) \in Nat
  PROVE  Positions(x, available) = {q \in 0..(Len(available) - 1) : Within(q, x)}
<1>1. CASE x \in [1..1 -> Nat]
  <2>1. x[1] \in Nat /\ Len(x) = 1 /\ ToSet(x) = {x[1]}
    BY <1>1 DEF ToSet
  <2>2. Min({x[1]}) = x[1] /\ Max({x[1]}) = x[1]
    BY <2>1 DEF Min, Max
  <2>3. QED  BY <2>1, <2>2 DEF Positions, Within
<1>2. CASE x \in [1..2 -> Nat]
  <2>1. x[1] \in Nat /\ x[2] \in Nat /\ Len(x) = 2 /\ ToSet(x) = {x[1], x[2]}
    BY <1>2 DEF ToSet
  <2>2. CASE x[1] <= x[2]
    <3>1. Min({x[1], x[2]}) = x[1] /\ Max({x[1], x[2]}) = x[2]
      BY <2>1, <2>2 DEF Min, Max
    <3>2. QED  BY <2>1, <2>2, <3>1 DEF Positions, Within, Span
  <2>3. CASE ~ (x[1] <= x[2])
    <3>1. Min({x[1], x[2]}) = x[2] /\ Max({x[1], x[2]}) = x[1]
      BY <2>1, <2>3 DEF Min, Max
    <3>2. QED  BY <2>1, <2>3, <3>1 DEF Positions, Within, Span
  <2>4. QED  BY <2>2, <2>3
<1>3. QED  BY <1>1, <1>2 DEF Numbers

(* Without a number that is too large, a list selects what it names.       *)
LEMMA SelectsExactly ==
  ASSUME NbCpus <= GroupSize,
         NEW desc, \A k \in DOMAIN desc : desc[k] \in Numbers,
         NEW available, Len(available) \in Nat,
         \A k \in DOMAIN desc : ~ ReadsBehind(desc[k], available)
  PROVE  Selections(desc, available) =
           {{available[q + 1] : q \in {p \in 0..(Len(available) - 1) :
                                         \E k \in DOMAIN desc : Within(p, desc[k])}}}
<1> DEFINE chosen == UNION {{available[p + 1] : p \in Positions(desc[i], available)} :
                              i \in DOMAIN desc}
           wild   == {i \in DOMAIN desc : ReadsBehind(desc[i], available)}
           named  == {available[q + 1] : q \in {p \in 0..(Len(available) - 1) :
                                         \E k \in DOMAIN desc : Within(p, desc[k])}}
           small  == {G \in SUBSET CoreId : Cardinality(G) <= Cardinality(wild)}
<1>1. chosen = named
  <2>1. \A k \in DOMAIN desc : Positions(desc[k], available) =
                                 {q \in 0..(Len(available) - 1) : Within(q, desc[k])}
    BY PositionsAre
  <2>2. QED  BY <2>1
<1>2. wild = {} /\ Cardinality(wild) = 0
  <2>1. wild = {}
    OBVIOUS
  <2>2. QED  BY <2>1, FS_EmptySet
<1> HIDE DEF wild
<1>3. small = {{}}
  <2>1. \A G \in SUBSET CoreId : IsFiniteSet(G) /\ Cardinality(G) \in Nat
    BY SmallMasks, CpuFinite
  <2>2. \A G \in SUBSET CoreId : Cardinality(G) <= 0 <=> G = {}
    BY <2>1, FS_EmptySet
  <2>3. QED  BY <1>2, <2>2
<1> HIDE DEF small
<1>4. Selections(desc, available) = {chosen \cup garbage : garbage \in small}
  BY DEF Selections, small, wild
<1> HIDE DEF chosen, named
<1>5. Selections(desc, available) = {named}
  BY <1>1, <1>3, <1>4
<1>6. QED  BY <1>5 DEF named

-----------------------------------------------------------------------------
(* The positions where the n runs of successive numbers begin, and the     *)
(* position where one ends.                                                *)
RunsBegin(s, b, n) ==
  /\ n \in Nat /\ b \in [1..n -> 1..Len(s)]
  /\ \A k, m \in 1..n : k < m => b[k] < b[m]
  /\ \A i \in 1..Len(s) : ~ Follows(s, i) => \E k \in 1..n : b[k] = i
RunEnds(s, b, n, k) == IF k = n THEN Len(s) ELSE b[k + 1] - 1

LEMMA PrintedRuns ==
  ASSUME NEW s \in Seq(Nat)
  PROVE  \E n, b : /\ RunsBegin(s, b, n) /\ DOMAIN Printed(s) = 1..n
                  /\ \A k \in 1..n : Printed(s)[k] = <<s[b[k]], s[RunEnds(s, b, n, k)]>>
<1> DEFINE B == {i \in DOMAIN s : ~ Follows(s, i)}
           b == Ascending(B)
           n == Cardinality(B)
<1>1. Len(s) \in Nat /\ DOMAIN s = 1..Len(s)
  OBVIOUS
<1>2. /\ B \in SUBSET (1..Len(s)) /\ B \in SUBSET Int
      /\ \A i \in 1..Len(s) : i \in B <=> ~ Follows(s, i)
  BY <1>1
<1>3. DOMAIN Printed(s) = DOMAIN b /\ \A k \in DOMAIN b :
        Printed(s)[k] = <<s[b[k]], s[IF k = Len(b) THEN Len(s) ELSE b[k + 1] - 1]>>
  BY DEF Printed
<1> HIDE DEF B
<1>4. IsFiniteSet(B)
  <2>1. IsFiniteSet(1..Len(s))
    BY <1>1, FS_Interval
  <2>2. QED  BY <1>2, <2>1, FS_Subset
<1>5. /\ n \in Nat /\ b \in [1..n -> B]
      /\ \A i, j \in 1..n : i < j => b[i] < b[j]
      /\ \A c \in B : \E i \in 1..n : b[i] = c
  BY <1>2, <1>4, AscendingIs
<1> HIDE DEF b, n
<1>6. b \in [1..n -> 1..Len(s)] /\ DOMAIN b = 1..n /\ Len(b) = n
  <2>1. DOMAIN b = 1..n /\ \A i \in 1..n : b[i] \in 1..Len(s)
    BY <1>2, <1>5
  <2>2. b = [i \in 1..n |-> b[i]]
    BY <1>5
  <2>3. b \in [1..n -> 1..Len(s)]
    BY <2>1, <2>2
  <2>4. Len(b) = n
    BY <1>5, <2>1
  <2>5. QED  BY <2>1, <2>3, <2>4
<1>7. RunsBegin(s, b, n)
  BY <1>2, <1>5, <1>6 DEF RunsBegin
<1>8. /\ DOMAIN Printed(s) = 1..n
      /\ \A k \in 1..n : Printed(s)[k] = <<s[b[k]], s[RunEnds(s, b, n, k)]>>
  BY <1>3, <1>6 DEF RunEnds
<1>9. QED  BY <1>7, <1>8

(* A run is one of successive numbers.                                     *)
LEMMA EndsAre ==
  ASSUME NEW s \in Seq(Nat), NEW b, NEW n, RunsBegin(s, b, n), NEW k \in 1..n,
         NEW e, e = RunEnds(s, b, n, k)
  PROVE  /\ b[k] \in 1..Len(s) /\ e \in 1..Len(s) /\ b[k] <= e
         /\ \A i \in (b[k] + 1)..e : Follows(s, i)
<1>1. /\ n \in Nat /\ Len(s) \in Nat
      /\ \A m, j \in 1..n : m < j => b[m] < b[j]
      /\ \A i \in 1..Len(s) : ~ Follows(s, i) => \E m \in 1..n : b[m] = i
      /\ \A m \in 1..n : b[m] \in 1..Len(s) /\ b[m] \in Nat
  BY DEF RunsBegin
<1>2. e = IF k = n THEN Len(s) ELSE b[k + 1] - 1
  BY DEF RunEnds
<1>3. CASE k = n
  <2>1. b[k] \in 1..Len(s) /\ e = Len(s)
    BY <1>1, <1>2, <1>3
  <2>2. ASSUME NEW i \in (b[k] + 1)..e, ~ Follows(s, i)
        PROVE  FALSE
    <3>1. i \in 1..Len(s) /\ b[k] < i
      BY <1>1, <2>1
    <3>2. PICK m \in 1..n : b[m] = i
      BY <1>1, <2>2, <3>1
    <3>3. m < k \/ m = k
      BY <1>1, <1>3
    <3>4. b[m] <= b[k]
      BY <1>1, <3>3
    <3>5. QED  BY <1>1, <3>1, <3>2, <3>4
  <2>3. QED  BY <1>1, <2>1, <2>2
<1>4. CASE k # n
  <2>1. k + 1 \in 1..n /\ k < k + 1
    BY <1>1, <1>4
  <2>2. b[k] < b[k + 1] /\ e = b[k + 1] - 1 /\ b[k] \in 1..Len(s) /\ b[k + 1] \in 1..Len(s)
    BY <1>1, <1>2, <1>4, <2>1
  <2>3. ASSUME NEW i \in (b[k] + 1)..e, ~ Follows(s, i)
        PROVE  FALSE
    <3>1. i \in 1..Len(s) /\ b[k] < i /\ i < b[k + 1]
      <4>1. PICK f \in 1..Len(s), g \in 1..Len(s) : f = b[k] /\ g = b[k + 1] /\ e = g - 1
        BY <2>2
      <4>2. i \in (f + 1)..(g - 1)
        BY <4>1
      <4>3. PICK len \in Nat : len = Len(s)
        BY <1>1
      <4>4. f \in 1..len /\ g \in 1..len
        BY <4>3
      <4>5. i \in 1..len /\ f < i /\ i < g
        BY <4>2, <4>3, <4>4
      <4>6. QED  BY <4>1, <4>3, <4>5
    <3>2. PICK m \in 1..n : b[m] = i
      BY <1>1, <2>3, <3>1
    <3>3. m < k \/ m = k \/ m = k + 1 \/ k + 1 < m
      BY <1>1
    <3>4. b[m] < b[k] \/ b[m] = b[k] \/ b[m] = b[k + 1] \/ b[k + 1] < b[m]
      BY <1>1, <2>1, <3>3
    <3>5. b[m] \in Nat /\ b[k] \in Nat /\ b[k + 1] \in Nat /\ i \in Nat
      BY <1>1, <2>1, <3>2
    <3>6. QED  BY <3>1, <3>2, <3>4, <3>5
  <2>4. e \in 1..Len(s) /\ b[k] <= e
    <3>1. PICK f \in Nat, g \in Nat, len \in Nat :
            /\ f = b[k] /\ g = b[k + 1] /\ len = Len(s)
            /\ 1 <= f /\ f < g /\ g <= len
      BY <1>1, <2>2
    <3>2. g - 1 \in 1..len /\ f <= g - 1
      BY <3>1
    <3>3. QED  BY <2>2, <3>1, <3>2
  <2>5. QED  BY <2>2, <2>3, <2>4
<1>5. QED  BY <1>3, <1>4

LEMMA Successive ==
  ASSUME NEW s, NEW b \in Nat, NEW e \in Nat, b <= e,
         \A i \in b..e : s[i] \in Nat,
         \A i \in (b + 1)..e : Follows(s, i)
  PROVE  \A i \in b..e : s[i] = s[b] + (i - b)
<1> DEFINE Bad == {i \in b..e : s[i] # s[b] + (i - b)}
<1> SUFFICES ASSUME Bad # {} PROVE FALSE
  OBVIOUS
<1>1. PICK m \in Bad : \A i \in Bad : m <= i
  <2>1. Bad \in SUBSET Nat
    OBVIOUS
  <2>2. QED  BY <2>1, LeastNatural, Zenon
<1>2. m \in b..e /\ s[m] # s[b] + (m - b) /\ s[b] \in Nat
  BY <1>1
<1>3. m # b
  BY <1>2
<1>4. m - 1 \in b..e /\ m \in (b + 1)..e /\ m - 1 < m
  BY <1>2, <1>3
<1>5. m - 1 \notin Bad
  BY <1>1, <1>4
<1>6. s[m - 1] = s[b] + (m - 1 - b)
  BY <1>4, <1>5
<1>7. s[m] = s[m - 1] + 1
  BY <1>4 DEF Follows
<1>8. s[b] + (m - 1 - b) + 1 = s[b] + (m - b)
  BY <1>2
<1>9. QED  BY <1>2, <1>6, <1>7, <1>8

LEMMA Covered ==
  ASSUME NEW s \in Seq(Nat), NEW b, NEW n, RunsBegin(s, b, n), NEW i \in 1..Len(s)
  PROVE  \E k \in 1..n : b[k] <= i /\ i <= RunEnds(s, b, n, k)
<1> DEFINE Bad == {j \in 1..Len(s) : ~ \E k \in 1..n : b[k] <= j /\ j <= RunEnds(s, b, n, k)}
<1>1. /\ n \in Nat /\ Len(s) \in Nat
      /\ \A j \in 1..Len(s) : ~ Follows(s, j) => \E k \in 1..n : b[k] = j
  BY DEF RunsBegin
<1>2. \A k \in 1..n : /\ b[k] \in 1..Len(s) /\ RunEnds(s, b, n, k) \in 1..Len(s)
                      /\ b[k] <= RunEnds(s, b, n, k)
  BY EndsAre
<1> SUFFICES ASSUME Bad # {} PROVE FALSE
  OBVIOUS
<1>3. PICK m \in Bad : \A j \in Bad : m <= j
  <2>1. Bad \in SUBSET Nat
    OBVIOUS
  <2>2. QED  BY <2>1, LeastNatural, Zenon
<1>4. m \in 1..Len(s) /\ ~ \E k \in 1..n : b[k] <= m /\ m <= RunEnds(s, b, n, k)
  BY <1>3
<1>5. ~ \E k \in 1..n : b[k] = m
  <2> SUFFICES ASSUME NEW k \in 1..n, b[k] = m PROVE FALSE
    OBVIOUS
  <2>1. m <= RunEnds(s, b, n, k) /\ m <= m
    BY <1>2, <1>4
  <2>2. QED  BY <1>4, <2>1
<1>6. Follows(s, m)
  BY <1>1, <1>4, <1>5
<1>7. m - 1 \in 1..Len(s) /\ m - 1 < m
  BY <1>1, <1>4, <1>6 DEF Follows
<1>8. m - 1 \notin Bad
  BY <1>3, <1>4, <1>7
<1>9. PICK k \in 1..n : b[k] <= m - 1 /\ m - 1 <= RunEnds(s, b, n, k)
  BY <1>7, <1>8
<1>10. PICK e \in 1..Len(s) : e = RunEnds(s, b, n, k) /\ ~ (m <= e)
  <2>1. b[k] \in Nat /\ b[k] <= m
    BY <1>2, <1>4, <1>9
  <2>2. QED  BY <1>2, <1>4, <1>9, <2>1
<1>11. e = m - 1
  BY <1>4, <1>9, <1>10
<1>12. k # n /\ e = b[k + 1] - 1
  BY <1>1, <1>4, <1>10, <1>11 DEF RunEnds
<1>13. k + 1 \in 1..n
  BY <1>1, <1>12
<1>14. b[k + 1] = m
  <2>1. b[k + 1] \in 1..Len(s)
    BY <1>2, <1>13
  <2>2. \A x, y \in Nat : x - 1 = y - 1 => x = y
    OBVIOUS
  <2>3. b[k + 1] \in Nat /\ m \in Nat
    <3>1. Len(s) \in Nat
      OBVIOUS
    <3>2. QED  BY <1>4, <2>1, <3>1
  <2>4. b[k + 1] - 1 = m - 1
    BY <1>11, <1>12, Zenon
  <2>5. QED  BY <2>2, <2>3, <2>4, Zenon
<1>15. QED  BY <1>5, <1>13, <1>14

(* What is printed names the numbers of the list.                          *)
LEMMA PrintedIs ==
  ASSUME NEW s \in Seq(Nat)
  PROVE  /\ \A k \in DOMAIN Printed(s) : Printed(s)[k] \in [1..2 -> Nat]
         /\ \A q \in Nat : (\E k \in DOMAIN Printed(s) : Within(q, Printed(s)[k]))
                             <=> q \in ToSet(s)
<1>1. PICK n, b : /\ RunsBegin(s, b, n) /\ DOMAIN Printed(s) = 1..n
                   /\ \A k \in 1..n : Printed(s)[k] = <<s[b[k]], s[RunEnds(s, b, n, k)]>>
  BY PrintedRuns
<1> DEFINE e(k) == RunEnds(s, b, n, k)
<1>2. \A i \in 1..Len(s) : s[i] \in Nat
  OBVIOUS
<1>3. \A k \in 1..n : /\ b[k] \in 1..Len(s) /\ e(k) \in 1..Len(s) /\ b[k] <= e(k)
                      /\ \A i \in (b[k] + 1)..e(k) : Follows(s, i)
  BY <1>1, EndsAre
<1>4. \A i \in 1..Len(s) : \E k \in 1..n : b[k] <= i /\ i <= e(k)
  BY <1>1, Covered
<1> HIDE DEF e
<1>5. ASSUME NEW k \in 1..n, NEW q \in Nat
      PROVE  Within(q, Printed(s)[k]) <=> \E i \in b[k]..e(k) : s[i] = q
  <2>1. PICK f \in 1..Len(s), l \in 1..Len(s) :
          /\ f = b[k] /\ l = e(k) /\ f <= l
          /\ \A i \in (f + 1)..l : Follows(s, i)
    BY <1>3
  <2>2. f \in Nat /\ l \in Nat /\ \A i \in f..l : s[i] \in Nat
    <3>1. Len(s) \in Nat
      OBVIOUS
    <3>2. f \in Nat /\ l \in Nat /\ \A i \in f..l : i \in 1..Len(s)
      BY <3>1
    <3>3. QED  BY <1>2, <3>2
  <2>3. \A i \in f..l : s[i] = s[f] + (i - f)
    <3>1. f <= l /\ \A i \in (f + 1)..l : Follows(s, i)
      BY <2>1
    <3>2. QED  BY <2>2, <3>1, Successive
  <2>4. f \in f..l /\ l \in f..l
    BY <2>1, <2>2
  <2>5. PICK x \in Nat, y \in Nat : x = s[f] /\ y = s[l] /\ y = x + (l - f) /\ x <= y
    <3>1. s[f] \in Nat /\ s[l] \in Nat /\ s[l] = s[f] + (l - f)
      BY <2>2, <2>3, <2>4
    <3>2. s[f] <= s[l]
      <4>1. \A x, y, u, v \in Nat : y = x + (v - u) /\ u <= v => x <= y
        OBVIOUS
      <4>2. f \in Nat /\ l \in Nat /\ f <= l
        BY <2>1, <2>2
      <4>3. QED  BY <3>1, <4>1, <4>2
    <3>3. QED  BY <3>1, <3>2
  <2>6. Printed(s)[k] = <<x, y>>
    BY <1>1, <2>1, <2>5 DEF e
  <2>7. ToSet(<<x, y>>) = {x, y}
    BY DEF ToSet
  <2>8. Min({x, y}) = x /\ Max({x, y}) = y
    BY <2>5 DEF Min, Max
  <2>9. Within(q, Printed(s)[k]) <=> x <= q /\ q <= y
    BY <2>6, <2>7, <2>8 DEF Within
  <2>10. ASSUME x <= q, q <= y
         PROVE  \E i \in f..l : s[i] = q
    <3>1. PICK i \in f..l : x + (i - f) = q
      <4>1. f \in Nat /\ l \in Nat /\ f <= l /\ y = x + (l - f)
        BY <2>1, <2>2, <2>5
      <4>2. f + (q - x) \in f..l /\ x + ((f + (q - x)) - f) = q
        BY <2>10, <4>1
      <4>3. QED  BY <4>2
    <3>2. s[i] = x + (i - f)
      BY <2>3, <2>5
    <3>3. QED  BY <3>1, <3>2
  <2>11. ASSUME NEW i \in f..l, s[i] = q
         PROVE  x <= q /\ q <= y
    <3>1. q = x + (i - f)
      BY <2>3, <2>5, <2>11
    <3>2. f \in Nat /\ l \in Nat /\ f <= l /\ y = x + (l - f)
      BY <2>1, <2>2, <2>5
    <3>3. i \in Int /\ f <= i /\ i <= l
      BY <2>11, <3>2
    <3>4. QED  BY <3>1, <3>2, <3>3
  <2>12. QED  BY <2>1, <2>9, <2>10, <2>11
<1>6. ASSUME NEW q \in Nat
      PROVE  (\E k \in 1..n : Within(q, Printed(s)[k])) <=> q \in ToSet(s)
  <2>1. q \in ToSet(s) <=> \E i \in 1..Len(s) : s[i] = q
    BY DEF ToSet
  <2>2. ASSUME NEW k \in 1..n, NEW i \in b[k]..e(k)
        PROVE  i \in 1..Len(s)
    <3>1. PICK f \in 1..Len(s), l \in 1..Len(s) : f = b[k] /\ l = e(k)
      BY <1>3
    <3>2. Len(s) \in Nat /\ i \in f..l
      BY <2>2, <3>1
    <3>3. QED  BY <3>2
  <2>3. ASSUME NEW i \in 1..Len(s)
        PROVE  \E k \in 1..n : i \in b[k]..e(k)
    <3>1. PICK k \in 1..n : b[k] <= i /\ i <= e(k)
      BY <1>4
    <3>2. PICK f \in 1..Len(s), l \in 1..Len(s) : f = b[k] /\ l = e(k)
      BY <1>3
    <3>3. i \in f..l
      BY <3>1, <3>2
    <3>4. QED  BY <3>2, <3>3
  <2>4. QED  BY <1>5, <2>1, <2>2, <2>3
<1>7. \A k \in 1..n : Printed(s)[k] \in [1..2 -> Nat]
  <2> SUFFICES ASSUME NEW k \in 1..n PROVE Printed(s)[k] \in [1..2 -> Nat]
    OBVIOUS
  <2>1. s[b[k]] \in Nat /\ s[e(k)] \in Nat
    BY <1>2, <1>3
  <2>2. Printed(s)[k] = <<s[b[k]], s[e(k)]>>
    BY <1>1 DEF e
  <2>3. QED  BY <2>1, <2>2
<1>8. QED  BY <1>1, <1>6, <1>7

(* The list that is printed selects the mask it was printed for.           *)
LEMMA PrintedGivesBack ==
  ASSUME NbCpus <= GroupSize, NEW M \in SUBSET Cpu
  PROVE  Selections(Printed(AllocatedCores(M)), ExistingCores(TRUE)) = {M}
<1> DEFINE s == AllocatedCores(M)
           p == Printed(s)
           all == Ascending(Cpu)
<1>1. InOrder(s, M)
  BY AllocatedIs, ByProcessorOrder
<1>2. s \in Seq(M) /\ ToSet(s) = M
  BY <1>1, OrderedIsSeq
<1>3. s \in Seq(Nat)
  <2>1. s \in [1..Len(s) -> M] /\ Len(s) \in Nat
    BY <1>2
  <2>2. M \subseteq Nat
    BY CpuFinite
  <2>3. s \in [1..Len(s) -> Nat]
    BY <2>1, <2>2
  <2>4. QED  BY <2>1, <2>3
<1>4. /\ \A k \in DOMAIN p : p[k] \in [1..2 -> Nat]
      /\ \A q \in Nat : (\E k \in DOMAIN p : Within(q, p[k])) <=> q \in M
  BY <1>2, <1>3, PrintedIs
<1>5. Len(all) = NbCpus /\ (\A q \in Cpu : all[q + 1] = q) /\ NbCpus \in Nat
  BY PhysicalIs, CpuFinite
<1>6. ExistingCores(TRUE) = all
  BY DEF ExistingCores
<1> HIDE DEF s, p, all
<1>7. \A k \in DOMAIN p : p[k] \in Numbers /\ ~ ReadsBehind(p[k], all)
  <2> SUFFICES ASSUME NEW k \in DOMAIN p
               PROVE  p[k] \in Numbers /\ ~ ReadsBehind(p[k], all)
    OBVIOUS
  <2>1. p[k] \in [1..2 -> Nat]
    BY <1>4
  <2>2. Len(p[k]) = 2
    BY <2>1
  <2>3. QED  BY <2>1, <2>2 DEF Numbers, ReadsBehind
<1>8. Selections(p, all) =
        {{all[q + 1] : q \in {r \in 0..(NbCpus - 1) : \E k \in DOMAIN p : Within(r, p[k])}}}
  BY <1>5, <1>7, SelectsExactly
<1>9. {r \in 0..(NbCpus - 1) : \E k \in DOMAIN p : Within(r, p[k])} = M
  BY <1>4, CpuFinite DEF Cpu
<1>10. {all[q + 1] : q \in M} = M
  BY <1>5
<1>11. QED  BY <1>6, <1>8, <1>9, <1>10 DEF p, s

-----------------------------------------------------------------------------
(* Where the main thread, the time stamper and the watcher are.            *)
LastOne(M) == {c \in M : \A d \in M : ~ Before(c, d, M)}

CoreInv ==
  /\ own \in SUBSET Cpu
  /\ affinity \in [solver : SUBSET Cpu, stamper : SUBSET Cpu, watcher : SUBSET Cpu]
  /\ main \in {"fork", "parent"} => affinity.stamper = own
  /\ main = "parent" => affinity.solver = own
  /\ main \in {"close", "wait", "join", "stream", "done"} =>
       /\ affinity.stamper = affinity.solver
       /\ NbCpus <= GroupSize => own = LastOne(affinity.solver)
  /\ main \in {"wait", "join", "stream", "done"} => affinity.watcher = own

LEMMA CoreInit == Init => CoreInv
<1> SUFFICES ASSUME Init PROVE CoreInv
  OBVIOUS
<1>1. own \in SUBSET Cpu /\ main = "options"
  BY OptionsAssumption DEF Init, OptionsInit
<1>2. affinity \in [solver : SUBSET Cpu, stamper : SUBSET Cpu, watcher : SUBSET Cpu]
  BY DEF Init
<1>3. QED  BY <1>1, <1>2 DEF CoreInv

LEMMA AffinityKept ==
  ASSUME NEW M \in SUBSET Cpu, NEW mask
  PROVE  SetAffinity(M, mask) \in SUBSET Cpu
BY DEF SetAffinity

(* The options and four steps of the main thread change the masks.         *)
LEMMA CoreFrame ==
  ASSUME [Next]_vars, ~ ParseOptions, ~ OpenOutput, ~ ForkSolver, ~ MoveToLastCore,
         ~ StartWatching
  PROVE  /\ UNCHANGED <<own, affinity, line, todo>>
         /\ \/ main' = main
            \/ main' \in Terminal \ {"done"}
            \/ main = "wait" /\ main' = "join"
            \/ main = "join" /\ main' = "stream"
            \/ main = "stream" /\ main' = "done"
<1> USE DEF vars, optionVars, startVars, watchVars, endVars, KernelSteps, Terminal
<1>1. CASE SetupFails \/ NoMoreChildren \/ WriteReport \/ JoinStream
             \/ \E p \in Solvers : ReapChild(p)
  BY <1>1 DEF SetupFails, NoMoreChildren, WriteReport, JoinStream, ReapChild
<1>2. CASE ChildStart
  BY <1>2, ChildFrame DEF ChildStart, EnforceLimits, RedirectInput, RedirectOutput, Execute,
     ChildGoesTo
<1>3. CASE SolverStep
  BY <1>3, SolverFrame
<1>4. CASE WatcherStep
  BY <1>4, WatcherFrame
<1>5. CASE UserStops \/ StreamEnds \/ StrayEnds \/ Watchdog \/ Rests \/ UNCHANGED vars
  BY <1>5 DEF UserStops, StreamEnds, StrayEnds, Watchdog, Rests
<1>6. QED  BY <1>1, <1>2, <1>3, <1>4, <1>5 DEF Next, RunStep

LEMMA CoreStep ==
  ASSUME TypeOK, CoreInv, [Next]_vars
  PROVE  CoreInv'
<1> USE DEF CoreInv
<1> DEFINE Masks == [solver : SUBSET Cpu, stamper : SUBSET Cpu, watcher : SUBSET Cpu]
<1>1. CASE ParseOptions
  <2>1. main' \in {"options", "output", "exited"} /\ UNCHANGED affinity
    BY <1>1, OptionsFrame DEF ParseOptions, startVars
  <2>2. own' \in SUBSET Cpu
    <3>1. CASE SelectCores
      BY <3>1, AffinityKept DEF SelectCores, Exit1
    <3>2. CASE ~ SelectCores
      BY <1>1, <3>2 DEF ParseOptions, HandleOption, EndOfOptions, SetFlag, SetCPULimit,
         SetWallClockLimit, SetStackLimit, AskMemory, SetSolverOutputLimits, Refuse, Exit1
    <3>3. QED  BY <3>1, <3>2
  <2>3. QED  BY <2>1, <2>2
<1>2. CASE OpenOutput
  <2>1. /\ affinity' = [affinity EXCEPT !.stamper = own] /\ main' = "fork" /\ own' = own
    BY <1>2 DEF OpenOutput
  <2>2. affinity' \in Masks /\ affinity'.stamper = own
    BY <2>1
  <2>3. QED  BY <2>1, <2>2
<1>3. CASE ForkSolver
  <2>1. /\ affinity' = [affinity EXCEPT !.solver = own] /\ own' = own
        /\ main = "fork" /\ main' = "parent"
    BY <1>3 DEF ForkSolver
  <2>2. affinity' \in Masks /\ affinity'.solver = own /\ affinity'.stamper = affinity.stamper
    BY <2>1
  <2>3. QED  BY <2>1, <2>2
<1>4. CASE MoveToLastCore
  <2>1. /\ own' = SetAffinity(own, OwnMask(AllocatedCores(own))) /\ affinity' = affinity
        /\ main = "parent" /\ main' = "close"
    BY <1>4 DEF MoveToLastCore, startVars
  <2>2. own' \in SUBSET Cpu
    BY <2>1, AffinityKept
  <2>3. NbCpus <= GroupSize => own' = LastOne(own)
    BY <2>1, LastCore DEF LastOne
  <2>4. affinity.solver = own /\ affinity.stamper = own
    BY <2>1
  <2>5. NbCpus <= GroupSize => own' = LastOne(affinity'.solver)
    BY <2>1, <2>3, <2>4
  <2>6. QED  BY <2>1, <2>2, <2>4, <2>5 DEF LastOne
<1>5. CASE StartWatching
  <2>1. /\ affinity' = [affinity EXCEPT !.watcher = own] /\ own' = own
        /\ main = "close" /\ main' = "wait"
    BY <1>5 DEF StartWatching
  <2>2. /\ affinity' \in Masks /\ affinity'.watcher = own
        /\ affinity'.solver = affinity.solver /\ affinity'.stamper = affinity.stamper
    BY <2>1
  <2>3. QED  BY <2>1, <2>2 DEF LastOne
<1>6. CASE ~ (ParseOptions \/ OpenOutput \/ ForkSolver \/ MoveToLastCore \/ StartWatching)
  <2>1. UNCHANGED <<own, affinity>>
    BY <1>6, CoreFrame
  <2>2. LastOne(affinity'.solver) = LastOne(affinity.solver)
    BY <2>1
  <2>3. \/ main' = main
        \/ main' \in {"exited", "crashed", "aborted"}
        \/ main = "wait" /\ main' = "join"
        \/ main = "join" /\ main' = "stream"
        \/ main = "stream" /\ main' = "done"
    BY <1>6, CoreFrame DEF Terminal
  <2>4. QED  BY <2>1, <2>2, <2>3 DEF LastOne
<1>7. QED  BY <1>1, <1>2, <1>3, <1>4, <1>5, <1>6

(* On every machine with at most GroupSize cpus, from every mask: the main *)
(* thread and the watcher thread stay on the last core of the solver's in  *)
(* the documented order, the time stamper on all of them.                  *)
THEOREM StaysOnLastCore == Spec => []OnLastCore
<1> DEFINE IInv == TypeOK /\ CoreInv
<1>1. Init => IInv
  BY TypeInit, CoreInit
<1>2. IInv /\ [Next]_vars => IInv'
  BY TypeStep, CoreStep
<1>3. IInv => OnLastCore
  BY DEF CoreInv, OnLastCore, LastOne
<1>4. QED  BY <1>1, <1>2, <1>3, PTL DEF Spec

(* The list printed for a mask is one that selects this mask again.        *)
THEOREM PrintedCoresSelect == Spec => []PrintedSelects
<1> DEFINE IInv == TypeOK /\ CoreInv
<1>1. Init => IInv
  BY TypeInit, CoreInit
<1>2. IInv /\ [Next]_vars => IInv'
  BY TypeStep, CoreStep
<1>3. IInv => PrintedSelects
  BY PrintedGivesBack DEF CoreInv, PrintedSelects
<1>4. QED  BY <1>1, <1>2, <1>3, PTL DEF Spec

-----------------------------------------------------------------------------
(* The cores that were asked for.                                          *)
LastCores(i) ==
  /\ i \in AllHandled /\ line[i].o \in {"cores", "phys-cores"}
  /\ \A j \in AllHandled : line[j].o \in {"cores", "phys-cores"} => j <= i

(* A mask is what the last option among those handled names.               *)
Obeys(M) ==
  NbCpus <= GroupSize =>
    \A i \in Nat : LastCores(i) /\ NumbersExist(line[i]) /\ NamedCores(line[i]) # {} =>
      M = NamedCores(line[i])

CoresInv ==
  /\ line \in CommandLines
  /\ main \in {"options", "output", "fork"} => Obeys(own)
  /\ proc["solver"] # "none" => Obeys(affinity.solver)

LEMMA CoresInit == Init => CoresInv
<1> SUFFICES ASSUME Init PROVE CoresInv
  OBVIOUS
<1>1. line \in CommandLines /\ line \in Seq(ToSet(line)) /\ todo = line
  BY OptionsAssumption DEF Init, OptionsInit
<1>2. AllHandled = {}
  BY <1>1 DEF AllHandled
<1>3. \A M : Obeys(M)
  BY <1>2 DEF Obeys, LastCores
<1>4. proc["solver"] = "none"
  BY DEF Init, Solvers
<1>5. QED  BY <1>1, <1>3, <1>4 DEF CoresInv

(* A list that is accepted selects what it names.                          *)
LEMMA CoresSelected ==
  ASSUME NbCpus <= GroupSize, NEW x, x.o \in {"cores", "phys-cores"},
         x.list \in Seq(Numbers \cup {<<>>}), WellFormed(x.list),
         NumbersExist(x), NamedCores(x) # {},
         NEW M, NEW mask \in Selections(x.list, ExistingCores(x.o = "phys-cores"))
  PROVE  SetAffinity(M, mask) = NamedCores(x)
<1> DEFINE order == IF x.o = "cores" THEN Documented ELSE Ascending(Cpu)
<1>1. \A k \in DOMAIN x.list : x.list[k] \in Numbers
  BY DEF WellFormed
<1>2. /\ ExistingCores(x.o = "phys-cores") = order
      /\ order \in [1..NbCpus -> Cpu] /\ Len(order) = NbCpus /\ NbCpus \in Nat
  <2>1. CASE x.o = "cores"
    BY <2>1, DocumentedIs, CpuFinite DEF ExistingCores
  <2>2. CASE x.o = "phys-cores"
    BY <2>2, PhysicalIs, CpuFinite DEF ExistingCores
  <2>3. QED  BY <2>1, <2>2
<1>3. NamedCores(x) = {order[i + 1] : i \in {j \in 0..(NbCpus - 1) :
                                  \E k \in DOMAIN x.list : Within(j, x.list[k])}}
  BY DEF NamedCores
<1> HIDE DEF order
<1>4. \A k \in DOMAIN x.list : ~ ReadsBehind(x.list[k], order)
  <2> SUFFICES ASSUME NEW k \in DOMAIN x.list, ReadsBehind(x.list[k], order)
               PROVE  FALSE
    OBVIOUS
  <2>1. Len(x.list[k]) = 1 /\ x.list[k][1] >= NbCpus
    BY <1>2 DEF ReadsBehind
  <2>2. x.list[k][1] < NbCpus
    BY <2>1 DEF NumbersExist
  <2>3. x.list[k][1] \in Nat
    <3>1. x.list[k] \in [1..1 -> Nat] \/ x.list[k] \in [1..2 -> Nat]
      BY <1>1 DEF Numbers
    <3>2. QED  BY <3>1
  <2>4. QED  BY <1>2, <2>1, <2>2, <2>3
<1>5. Selections(x.list, order) =
        {{order[q + 1] : q \in {p \in 0..(Len(order) - 1) :
                                  \E k \in DOMAIN x.list : Within(p, x.list[k])}}}
  <2>1. PICK desc : desc = x.list
    OBVIOUS
  <2>2. /\ \A k \in DOMAIN desc : desc[k] \in Numbers
        /\ \A k \in DOMAIN desc : ~ ReadsBehind(desc[k], order)
        /\ Len(order) \in Nat
    BY <1>1, <1>2, <1>4, <2>1
  <2>3. Selections(desc, order) =
          {{order[q + 1] : q \in {p \in 0..(Len(order) - 1) :
                                    \E k \in DOMAIN desc : Within(p, desc[k])}}}
    BY <2>2, SelectsExactly
  <2>4. QED  BY <2>1, <2>3
<1>6. mask = NamedCores(x)
  BY <1>2, <1>3, <1>5
<1>7. NamedCores(x) \in SUBSET Cpu
  BY <1>2, <1>3
<1>8. QED  BY <1>6, <1>7 DEF SetAffinity

(* One more argument.                                                      *)
LEMMA OptionCores ==
  ASSUME LineInv, line \in CommandLines, Obeys(own), HandleOption
  PROVE  main' # "exited" => Obeys(own)'
<1> SUFFICES ASSUME main' # "exited", NbCpus <= GroupSize,
                    NEW i \in Nat, LastCores(i)', NumbersExist(line[i]),
                    NamedCores(line[i]) # {}
             PROVE  own' = NamedCores(line[i])
  <2>1. line' = line
    BY Taking
  <2>2. QED  BY <2>1 DEF Obeys, NumbersExist, NamedCores
<1>1. todo # <<>> /\ todo' = Tail(todo) /\ line' = line
  BY Taking
<1>2. PICK n : n = Len(line) - Len(todo) + 1
  OBVIOUS
<1>3. n \in Nat /\ arg = line[n] /\ arg \in ToSet(line)
  BY <1>1, <1>2, TakeLast
<1>4. AllHandled' = 1..n /\ AllHandled = 1..(n - 1) /\ n \in Nat \ {0}
  <2>1. Len(todo) > 0 /\ Len(todo) \in Nat /\ Len(line) \in Nat
        /\ Len(todo) <= Len(line) /\ Len(todo') = Len(todo) - 1
    BY <1>1 DEF LineInv
  <2>2. n \in Nat \ {0} /\ Len(line) - Len(todo) = n - 1 /\ Len(line') - Len(todo') = n
    <3>1. PICK a \in Nat, b \in Nat : a = Len(line) /\ b = Len(todo)
      BY <2>1
    <3>2. n = a - b + 1 /\ b <= a /\ Len(line') = a /\ Len(todo') = b - 1
      BY <1>1, <1>2, <2>1, <3>1
    <3>3. n \in Nat \ {0} /\ a - b = n - 1 /\ a - (b - 1) = n
      BY <3>1, <3>2
    <3>4. QED  BY <3>1, <3>2, <3>3
  <2>3. QED  BY <2>2 DEF AllHandled
<1>5. CASE SelectCores
  <2>1. arg.o \in {"cores", "phys-cores"}
    BY <1>5 DEF SelectCores, Take
  <2>2. i = n
    <3>1. i \in 1..n /\ \A j \in 1..n : line[j].o \in {"cores", "phys-cores"} => j <= i
      BY <1>1, <1>4 DEF LastCores
    <3>2. n \in 1..n /\ n <= i
      BY <1>3, <1>4, <2>1, <3>1
    <3>3. QED  BY <1>4, <3>1, <3>2
  <2>3. WellFormed(arg.list)
    BY <1>5 DEF SelectCores, Exit1
  <2>4. PICK mask \in Selections(arg.list, ExistingCores(arg.o = "phys-cores")) :
          own' = SetAffinity(own, mask)
    BY <1>5, <2>3 DEF SelectCores
  <2>5. arg.list \in Seq(Numbers \cup {<<>>})
    BY <1>3, <2>1, OptionsAssumption
  <2>6. QED  BY <1>3, <2>1, <2>2, <2>3, <2>4, <2>5, CoresSelected
<1>6. CASE ~ SelectCores
  <2>1. own' = own /\ arg.o \notin {"cores", "phys-cores"}
    BY <1>6 DEF HandleOption, SetFlag, SetCPULimit, SetWallClockLimit, SetStackLimit,
       AskMemory, SetSolverOutputLimits, Refuse, Exit1, Take, Numeric
  <2>2. LastCores(i)
    <3>1. /\ i \in 1..n /\ line[i].o \in {"cores", "phys-cores"}
          /\ \A j \in 1..n : line[j].o \in {"cores", "phys-cores"} => j <= i
      BY <1>1, <1>4 DEF LastCores
    <3>2. i # n
      BY <1>3, <2>1, <3>1
    <3>3. i \in 1..(n - 1) /\ \A j \in 1..(n - 1) : j \in 1..n
      BY <1>4, <3>1, <3>2
    <3>4. QED  BY <1>4, <3>1, <3>3 DEF LastCores
  <2>3. QED  BY <2>1, <2>2 DEF Obeys
<1>7. QED  BY <1>5, <1>6

(* The forked process does not become the one that was never forked.       *)
LEMMA BornOnce ==
  ASSUME TypeOK, [Next]_vars, proc["solver"] = "none", proc'["solver"] # "none"
  PROVE  ForkSolver
<1> USE DEF TypeOK, vars, optionVars, startVars, watchVars, endVars, KernelSteps, Solvers
<1>1. CASE ParseOptions
  BY <1>1, OptionsFrame
<1>2. CASE RunStep
  BY <1>2 DEF RunStep, OpenOutput, MoveToLastCore, StartWatching, ReapChild,
     NoMoreChildren, WriteReport, JoinStream
<1>3. CASE ChildStart
  BY <1>3, ChildFrame
<1>4. CASE SolverStep
  BY <1>4, SolverFate
<1>5. CASE WatcherStep
  BY <1>5, WatcherFrame
<1>6. CASE SetupFails \/ UserStops \/ StreamEnds \/ StrayEnds \/ Watchdog \/ Rests
           \/ UNCHANGED vars
  BY <1>6 DEF SetupFails, UserStops, StreamEnds, StrayEnds, Watchdog, Rests
<1>7. QED  BY <1>1, <1>2, <1>3, <1>4, <1>5, <1>6 DEF Next

(* A nonempty set of places has a last one.                                *)
LEMMA LastPlace ==
  ASSUME NEW n \in Nat, NEW S \in SUBSET (1..n), S # {}
  PROVE  \E m \in S : \A j \in S : j <= m
<1> DEFINE T == {n - i : i \in S}
<1>1. T \in SUBSET Nat /\ T # {}
  <2>1. \A i \in S : i \in 1..n /\ n - i \in Nat
    OBVIOUS
  <2>2. QED  BY <2>1
<1>2. PICK t \in T : \A u \in T : t <= u
  BY <1>1, LeastNatural, Zenon
<1>3. PICK m \in S : t = n - m
  BY <1>2
<1>4. \A j \in S : n - m <= n - j
  BY <1>2, <1>3
<1>5. QED  BY <1>4

LEMMA CoresStep ==
  ASSUME TypeOK, LineInv, RouteInv, CoreInv, CoresInv, [Next]_vars
  PROVE  CoresInv'
<1>1. CASE ParseOptions
  <2>1. /\ main = "options" /\ UNCHANGED <<proc, affinity>>
        /\ main' \in {"options", "output", "exited"}
    BY <1>1, OptionsFrame DEF ParseOptions, startVars
  <2>2. proc'["solver"] = "none"
    BY <2>1 DEF RouteInv
  <2>3. CASE HandleOption
    <3>1. line' = line
      BY <2>3, Taking
    <3>2. main' # "exited" => Obeys(own)'
      BY <2>1, <2>3, OptionCores DEF CoresInv
    <3>3. QED  BY <2>1, <2>2, <3>1, <3>2 DEF CoresInv
  <2>4. CASE EndOfOptions
    <3>1. UNCHANGED <<line, todo, own>>
      BY <2>4 DEF EndOfOptions
    <3>2. Obeys(own)'
      BY <2>1, <3>1 DEF CoresInv, Obeys, LastCores, AllHandled
    <3>3. QED  BY <2>2, <3>1, <3>2 DEF CoresInv
  <2>5. QED  BY <1>1, <2>3, <2>4 DEF ParseOptions
<1>2. CASE OpenOutput
  <2>1. /\ UNCHANGED <<line, todo, own, proc>> /\ affinity'.solver = affinity.solver
        /\ main = "output"
    BY <1>2 DEF OpenOutput, CoreInv
  <2>2. Obeys(own)'
    BY <2>1 DEF CoresInv, Obeys, LastCores, AllHandled
  <2>3. proc'["solver"] = "none"
    BY <2>1 DEF RouteInv
  <2>4. QED  BY <2>1, <2>2, <2>3 DEF CoresInv
<1>3. CASE ForkSolver
  <2>1. /\ UNCHANGED <<line, todo, own>> /\ affinity'.solver = own
        /\ main = "fork" /\ main' = "parent"
    BY <1>3 DEF ForkSolver, CoreInv
  <2>2. Obeys(affinity.solver)'
    BY <2>1 DEF CoresInv, Obeys, LastCores, AllHandled
  <2>3. QED  BY <2>1, <2>2 DEF CoresInv
<1>4. CASE MoveToLastCore \/ StartWatching
  <2>1. /\ UNCHANGED <<line, todo, proc>> /\ affinity'.solver = affinity.solver
        /\ main' \in {"close", "wait"}
    BY <1>4 DEF MoveToLastCore, StartWatching, startVars, CoreInv
  <2>2. Obeys(affinity.solver) => Obeys(affinity.solver)'
    BY <2>1 DEF Obeys, LastCores, AllHandled
  <2>3. QED  BY <2>1, <2>2 DEF CoresInv
<1>5. CASE ~ (ParseOptions \/ OpenOutput \/ ForkSolver \/ MoveToLastCore \/ StartWatching)
  <2>1. UNCHANGED <<own, affinity, line, todo>>
    BY <1>5, CoreFrame
  <2>2. main' \in {"options", "output", "fork"} => main' = main
    BY <1>5, CoreFrame DEF Terminal
  <2>3. proc'["solver"] # "none" => proc["solver"] # "none"
    BY <1>5, BornOnce
  <2>4. /\ Obeys(own) => Obeys(own)'
        /\ Obeys(affinity.solver) => Obeys(affinity.solver)'
    BY <2>1 DEF Obeys, LastCores, AllHandled
  <2>5. QED  BY <2>1, <2>2, <2>3, <2>4 DEF CoresInv
<1>6. QED  BY <1>1, <1>2, <1>3, <1>4, <1>5

(* The solver runs on the cores the last --cores or --phys-cores names, by *)
(* the documented order or by number, whatever options come before, after. *)
THEOREM CoresAreAsAsked == Spec => []CoresAsAsked
<1> DEFINE IInv == TypeOK /\ LineInv /\ RouteInv /\ CoreInv /\ CoresInv
<1>1. Init => IInv
  BY TypeInit, RouteInit, CoreInit, CoresInit
<1>2. IInv /\ [Next]_vars => IInv'
  BY TypeStep, RouteStep, CoreStep, CoresStep
<1>3. IInv => CoresAsAsked
  <2> SUFFICES ASSUME IInv, Executes, CoreOptions # {}, NbCpus <= GroupSize,
                      NEW x, x = line[Max(CoreOptions)],
                      NumbersExist(x), NamedCores(x) # {}
               PROVE  affinity.solver = NamedCores(x)
    BY DEF CoresAsAsked
  <2>1. todo = <<>> /\ line \in Seq(ToSet(line)) /\ Obeys(affinity.solver)
    BY DEF RouteInv, LineInv, CoresInv, Executes
  <2>2. DOMAIN line = 1..Len(line) /\ Len(line) \in Nat /\ AllHandled = 1..Len(line)
    BY <2>1 DEF AllHandled
  <2>3. CoreOptions = {i \in 1..Len(line) : line[i].o \in {"cores", "phys-cores"}}
    BY <2>2 DEF CoreOptions, Places
  <2>4. PICK m \in CoreOptions : \A j \in CoreOptions : j <= m
    BY <2>2, <2>3, LastPlace
  <2>5. Max(CoreOptions) = m /\ m \in Nat
    <3>1. CoreOptions \in SUBSET Nat
      BY <2>2, <2>3
    <3>2. QED  BY <2>4, <3>1, MaxIs
  <2>6. LastCores(m)
    BY <2>2, <2>3, <2>4 DEF LastCores
  <2>7. QED  BY <2>1, <2>5, <2>6 DEF Obeys
<1>4. QED  BY <1>1, <1>2, <1>3, PTL DEF Spec
=============================================================================
