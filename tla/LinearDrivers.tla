---------------------------- MODULE LinearDrivers ----------------------------
(***************************************************************************)
(* The drivers of SCIP (pb_scip.cpp) and of Gurobi (pb_gurobi.py): they    *)
(* read an OPB file statement by statement into a model of the solver      *)
(* library, let it search, print an "o" line when it reports a better      *)
(* solution, and print the answer when it stops.  The two programs have    *)
(* the same structure; where they differ each has its own action.          *)
(*                                                                         *)
(* The libraries are external.  A library knows the rows and the goal it   *)
(* was given; it reports solutions one after another, and stops when it    *)
(* has proved something or when the time limit strikes.  Gurobi calls back *)
(* for any solution it meets, SCIP for better ones.  gurobipy delays the   *)
(* changes of a model until the search begins.  The libraries compute with *)
(* doubles up to tolerances, which are relative to the coefficients: when  *)
(* these are large, a solution may miss a row by 1 or more.                *)
(***************************************************************************)
EXTENDS Opb

CONSTANTS Wrappers,      \* the drivers looked at: "scip", "gurobi"
          MaxStatements, \* bound: statements of the file
          MaxReports,    \* bound: "o" lines of a run
          Tolerance      \* one part in so many is neglected

(* The tolerances are coarser than a double.                               *)
ASSUME DriverAssumption == /\ Wrappers \subseteq {"scip", "gurobi"}
                           /\ MaxStatements \in Nat /\ MaxReports \in Nat
                           /\ Tolerance \in 1..LastExact

VARIABLES wrapper,
          objective,   \* the objective read: <<>> or one objective
          constraints, \* the constraints read
          goal,        \* what the library was given: <<>> or one goal
          rows,
          phase,       \* "reading", "solving", "stopped", "ended" or "failed"
          incumbent,   \* the library's best solution: <<>> or one assignment
          status,      \* the library's status
          oLines,      \* printed
          sLine, vLine

fileVars == <<objective, constraints>>
modelVars == <<goal, rows>>
searchVars == <<incumbent, status>>
outVars == <<oLines, sLine, vLine>>
vars == <<wrapper, fileVars, modelVars, phase, searchVars, outVars>>

Init ==
  /\ wrapper \in Wrappers
  /\ objective = <<>> /\ constraints = <<>>
  /\ goal = <<>> /\ rows = {}
  /\ phase = "reading"
  /\ incumbent = <<>> /\ status = "UNKNOWN"
  /\ oLines = <<>> /\ sLine = "" /\ vLine = <<>>

-----------------------------------------------------------------------------
(* Reading.                                                                *)
CanRead == phase = "reading" /\ Len(objective) + Len(constraints) < MaxStatements

ReadObjective(o, linear) ==
  /\ CanRead /\ objective = <<>>
  /\ objective' = <<o>>
  /\ goal' = <<[linear |-> linear, minimize |-> o.minimize]>>
  /\ UNCHANGED <<wrapper, constraints, rows, phase, searchVars, outVars>>

ReadConstraint(c, linear, rhs) ==
  /\ CanRead
  /\ constraints' = Append(constraints, c)
  /\ rows' = rows \cup {[linear |-> linear, rel |-> c.rel, rhs |-> rhs]}
  /\ UNCHANGED <<wrapper, objective, goal, phase, searchVars, outVars>>

(* The constant is a double too; that it is rounded at each addition is    *)
(* seen as rounding the sum.                                               *)
ParsedExpression(expr) == [Parsed(expr) EXCEPT !.constant = Double(@)]

RightHandSide(c) == Double(Double(c.rhs) - ParsedExpression(c.expr).constant)

WithoutConstant(linear) == [linear EXCEPT !.constant = 0]

(* SCIPchgVarObj is called for the terms; nothing is done with the         *)
(* constant.                                                               *)
ScipObjective(o) ==
  wrapper = "scip" /\ ReadObjective(o, WithoutConstant(ParsedExpression(o.expr)))

(* The constant goes to the right-hand side.                               *)
ScipConstraint(c) ==
  wrapper = "scip" /\
    ReadConstraint(c, WithoutConstant(ParsedExpression(c.expr)), RightHandSide(c))

(* build_linear_expression: the terms and the constant.                    *)
GurobiLinear(expr) == ParsedExpression(expr)

GurobiObjective(o) ==
  wrapper = "gurobi" /\ ReadObjective(o, GurobiLinear(o.expr))

(* The constant goes to the right-hand side, and stays on the left.        *)
GurobiConstraint(c) ==
  wrapper = "gurobi" /\
    ReadConstraint(c, GurobiLinear(c.expr), RightHandSide(c))

(* A statement that cannot be read, or a last one without semicolon: a     *)
(* message, and no answer.                                                 *)
ReadFails ==
  /\ phase = "reading"
  /\ phase' = "failed"
  /\ UNCHANGED <<wrapper, fileVars, modelVars, searchVars, outVars>>

StartSearch ==
  /\ phase = "reading"
  /\ phase' = "solving"
  /\ UNCHANGED <<wrapper, fileVars, modelVars, searchVars, outVars>>

-----------------------------------------------------------------------------
(* The search of the library.                                              *)
Solutions == {a \in Assignment :
                \A r \in rows : Holds(ParsedValue(r.linear, a), r.rel, r.rhs)}

(* How far a value may be off, in relation to the coefficients.            *)
Slack(linear) ==
  SumFunction([v \in DOMAIN linear.coef |-> Magnitude(linear.coef[v])]) \div Tolerance

(* What a library takes for a solution.                                    *)
Accepted ==
  {a \in Assignment :
     \A r \in rows : \E e \in (- Slack(r.linear))..Slack(r.linear) :
       Holds(ParsedValue(r.linear, a) + e, r.rel, r.rhs)}

GoalValue(a) == IF goal = <<>> THEN 0 ELSE ParsedValue(goal[1].linear, a)
IsBetter(a, b) == goal # <<>> /\ Better(GoalValue(a), GoalValue(b), goal[1].minimize)
Improves(a) == incumbent # <<>> => IsBetter(a, incumbent[1])

ScipBestSolution(a) ==
  /\ wrapper = "scip" /\ phase = "solving" /\ a \in Accepted
  /\ Improves(a)
  /\ incumbent' = <<a>>

GurobiSolution(a) ==
  /\ wrapper = "gurobi" /\ phase = "solving" /\ a \in Accepted
  /\ incumbent' = IF Improves(a) THEN <<a>> ELSE incumbent

(* Mutant: a gap of 1.                                                     *)
WholeGap == 2

(* MIPGapAbs, in halves: the search stops when no solution is better by    *)
(* more than the gap.                                                      *)
MIPGapAbs == IF wrapper = "gurobi" THEN 1 ELSE 0

ProvedOptimal ==
  /\ incumbent # <<>>
  /\ \A a \in Solutions :
       IsBetter(a, incumbent[1]) =>
         LET d == GoalValue(a) - GoalValue(incumbent[1])
         IN 2 * (Magnitude(d) - Slack(goal[1].linear)) <= MIPGapAbs

SearchStops(s) ==
  /\ phase = "solving"
  /\ \/ s = "OPTIMAL" /\ ProvedOptimal
     \/ s = "INFEASIBLE" /\ Solutions = {} /\ incumbent = <<>>
     \/ s = "TIME_LIMIT"
  /\ status' = s
  /\ phase' = "stopped"
  /\ UNCHANGED <<wrapper, fileVars, modelVars, incumbent, outVars>>

-----------------------------------------------------------------------------
(* The callbacks and the report.                                           *)
(* Mutant: any solution is printed.                                        *)
GurobiPrintsAll(a) == objective # <<>>

(* The event handler is installed if the file has an objective.            *)
ScipPrints(a) == IF objective # <<>> THEN Append(oLines, GoalValue(a)) ELSE oLines

(* eventExecBestSolution                                                   *)
ScipReports(a) ==
  /\ Len(oLines) < MaxReports
  /\ ScipBestSolution(a)
  /\ oLines' = ScipPrints(a)
  /\ UNCHANGED <<wrapper, fileVars, modelVars, phase, status, sLine, vLine>>

(* model.ModelSense, as it is before the search begins: the default.       *)
CallbackMinimize == TRUE

GurobiImproved(a) ==
  /\ objective # <<>>
  /\ oLines # <<>> => Better(GoalValue(a), oLines[Len(oLines)], CallbackMinimize)

(* The callback of Gurobi; best_objective is the last value printed.       *)
GurobiReports(a) ==
  /\ Len(oLines) < MaxReports
  /\ GurobiSolution(a)
  /\ oLines' = IF GurobiImproved(a) THEN Append(oLines, GoalValue(a)) ELSE oLines
  /\ UNCHANGED <<wrapper, fileVars, modelVars, phase, status, sLine, vLine>>

(* competition_status                                                      *)
CompetitionStatus ==
  CASE status = "OPTIMAL"    -> IF objective # <<>> THEN "OPTIMUM FOUND" ELSE "SATISFIABLE"
    [] status = "INFEASIBLE" -> "UNSATISFIABLE"
    [] OTHER                 -> "UNKNOWN"

Report ==
  /\ phase = "stopped"
  /\ sLine' = CompetitionStatus
  /\ vLine' = incumbent
  /\ phase' = "ended"
  /\ UNCHANGED <<wrapper, fileVars, modelVars, searchVars, oLines>>

Ended == phase \in {"ended", "failed"} /\ UNCHANGED vars

Next ==
  \/ \E o \in Objective : ScipObjective(o) \/ GurobiObjective(o)
  \/ \E c \in Constraint : ScipConstraint(c) \/ GurobiConstraint(c)
  \/ ReadFails \/ StartSearch
  \/ \E a \in Assignment : ScipReports(a) \/ GurobiReports(a)
  \/ \E s \in {"OPTIMAL", "INFEASIBLE", "TIME_LIMIT"} : SearchStops(s)
  \/ Report \/ Ended

Spec == Init /\ [][Next]_vars

-----------------------------------------------------------------------------
Feasible == {a \in Assignment : \A i \in DOMAIN constraints : Satisfies(a, constraints[i])}

(* What is printed is true of the file: the v line satisfies it, no        *)
(* assignment is better than the one printed under OPTIMUM FOUND, none     *)
(* exists under UNSATISFIABLE.  Both drivers claim to support x1 and ~x1.  *)
AnswerTrue ==
  /\ \A i \in DOMAIN vLine : vLine[i] \in Feasible
  /\ sLine \in {"OPTIMUM FOUND", "SATISFIABLE"} => vLine # <<>>
  /\ sLine = "OPTIMUM FOUND" =>
       \A a \in Feasible : ~ Better(Value(objective[1].expr, a),
                                    Value(objective[1].expr, vLine[1]),
                                    objective[1].minimize)
  /\ sLine = "UNSATISFIABLE" => Feasible = {}

(* A constraint with negated literals that leave a constant, which Gurobi's *)
(* driver counts twice.                                                    *)
CountedTwice ==
  wrapper = "gurobi" /\
    \E i \in DOMAIN constraints : ParsedExpression(constraints[i].expr).constant # 0

(* A statement whose numbers are so large that the tolerances, or the      *)
(* precision of a double, may reach 1.                                     *)
LargeObjective == objective # <<>> /\ Size(objective[1].expr) >= Tolerance
LargeConstraint ==
  \E i \in DOMAIN constraints :
    Size(constraints[i].expr) + Magnitude(constraints[i].rhs) >= Tolerance

(* What both drivers print is true of the file, if its numbers are smaller *)
(* than what the library tolerates and no constant is counted twice.       *)
AnswerTrueUnlessTwiceOrLarge ==
  CountedTwice \/ LargeObjective \/ LargeConstraint \/ AnswerTrue

(* The o lines improve strictly and the last one is the objective of the   *)
(* best solution so far.  Excepted are a constant in the objective, which  *)
(* SCIP's driver drops, max: with Gurobi's driver, which asks for the      *)
(* sense of the model before the model is updated, and large numbers.      *)
ObjectiveShown ==
  \/ objective = <<>>
  \/ LargeObjective
  \/ wrapper = "scip" /\ ParsedExpression(objective[1].expr).constant # 0
  \/ wrapper = "gurobi" /\ ~ objective[1].minimize
  \/ /\ incumbent # <<>> =>
          /\ oLines # <<>>
          /\ oLines[Len(oLines)] = Value(objective[1].expr, incumbent[1])
     /\ \A i \in 1..(Len(oLines) - 1) :
          Better(oLines[i + 1], oLines[i], objective[1].minimize)
=============================================================================
