------------------------------ MODULE Rc2Driver ------------------------------
(***************************************************************************)
(* The driver of the MaxSAT solver RC2 (pb_rc2.py): it reads an OPB file,  *)
(* numbers its names, turns the objective into soft clauses and each       *)
(* constraint into hard clauses through an encoder, and prints the answer. *)
(* The alarm of the time limit may strike between any two steps.           *)
(*                                                                         *)
(* The encoder and RC2 are external.  The clauses of an encoding hold for  *)
(* the assignments that satisfy the constraint and in which the            *)
(* auxiliaries have the values the encoder defines; one auxiliary per      *)
(* encoding is enough here, and its value is that of a literal of the      *)
(* constraint.  The encoder takes the number after top_id, or the first one*)
(* after top_id and the literals it is given: which is left open.  Its nv  *)
(* is the largest number in the clauses, where a literal need not occur.   *)
(***************************************************************************)
EXTENDS Opb, FiniteSets

CONSTANTS MaxStatements, \* bound: statements of the file
          AfterLiterals  \* may the encoder heed its literals?

ASSUME Rc2Assumption == MaxStatements \in Nat /\ AfterLiterals \in {{TRUE}, {FALSE}, BOOLEAN}

VARIABLES objective,   \* <<>> or one objective
          constraints,
          phase,       \* "reading", "objective", "constraints", "solving",
                       \* "o", "s", "v", "return", "ended" or "failed"
          added,       \* number of constraints encoded
          name_to_id,
          next_var,
          hard,        \* the encodings
          conflict,    \* has an empty clause been added?
          soft,        \* for each id the weight of its soft clause
          model,       \* the ids that are true
          oLine, sLines, vLine \* printed

fileVars == <<objective, constraints>>
formulaVars == <<added, name_to_id, next_var, hard, conflict, soft>>
outVars == <<oLine, sLines, vLine>>
vars == <<fileVars, phase, formulaVars, model, outVars>>

Init ==
  /\ objective = <<>> /\ constraints = <<>>
  /\ phase = "reading"
  /\ added = 0 /\ name_to_id = <<>> /\ next_var = 1
  /\ hard = <<>> /\ conflict = FALSE /\ soft = <<>>
  /\ model = {}
  /\ oLine = <<>> /\ sLines = <<>> /\ vLine = <<>>

-----------------------------------------------------------------------------
(* read_opb                                                                *)
ReadStatement ==
  /\ phase = "reading" /\ Len(objective) + Len(constraints) < MaxStatements
  /\ \/ \E o \in Objective : objective' = Append(objective, o) /\ UNCHANGED constraints
     \/ \E c \in Constraint : constraints' = Append(constraints, c) /\ UNCHANGED objective
  /\ Len(objective') <= 1
  /\ UNCHANGED <<phase, formulaVars, model, outVars>>

ReadFails ==
  /\ phase = "reading"
  /\ phase' = "failed"
  /\ UNCHANGED <<fileVars, formulaVars, model, outVars>>

FileRead ==
  /\ phase = "reading"
  /\ phase' = IF objective # <<>> THEN "objective" ELSE "constraints"
  /\ UNCHANGED <<fileVars, formulaVars, model, outVars>>

-----------------------------------------------------------------------------
(* var_id numbers new names by their count, in the order of the file, which*)
(* may be any.                                                             *)
Numberings(names) ==
  LET all == DOMAIN name_to_id \cup names
  IN {f \in [all -> 1..Cardinality(all)] :
        /\ \A v \in DOMAIN name_to_id : f[v] = name_to_id[v]
        /\ \A v, u \in all : f[v] = f[u] => v = u}

NameOf(f, id) == CHOOSE v \in DOMAIN f : f[v] = id

AddObjective ==
  /\ phase = "objective" /\ objective[1].minimize
  /\ LET coef == Parsed(objective[1].expr).coef
     IN \E f \in Numberings(DOMAIN coef) :
          /\ name_to_id' = f
          /\ soft' = [id \in {f[v] : v \in DOMAIN coef} |-> coef[NameOf(f, id)]]
          /\ next_var' = Cardinality(DOMAIN f) + 1
  /\ phase' = "constraints"
  /\ UNCHANGED <<fileVars, added, hard, conflict, model, outVars>>

(* max: is refused.                                                        *)
ObjectiveRefused ==
  /\ phase = "objective" /\ ~ objective[1].minimize
  /\ phase' = "failed"
  /\ UNCHANGED <<fileVars, formulaVars, model, outVars>>

-----------------------------------------------------------------------------
(* positive_pb_terms: literals with positive weights, and a constant.      *)
Lits(coef, f) ==
  [id \in {f[v] : v \in DOMAIN coef} |->
     LET c == coef[NameOf(f, id)]
     IN [positive |-> c >= 0, weight |-> IF c >= 0 THEN c ELSE - c]]

TotalConstant(p) ==
  p.constant + SumFunction([v \in DOMAIN p.coef |-> IF p.coef[v] < 0 THEN p.coef[v] ELSE 0])

Total(lits) == SumFunction([id \in DOMAIN lits |-> lits[id].weight])

(* The encodings the encoder (external) may return, when the next number   *)
(* is next: "of" is the literal the auxiliary stands for, or 0 when no     *)
(* auxiliary is needed.                                                    *)
Starts(lits, next) ==
  {IF heeds THEN Max(DOMAIN lits \cup {next - 1}) + 1 ELSE next : heeds \in AfterLiterals}

Auxiliaries(lits, next) ==
  {[of |-> 0, aux |-> 0]} \cup
  IF Cardinality(DOMAIN lits) = 1 THEN {}
  ELSE [of : DOMAIN lits, aux : Starts(lits, next)]

(* The largest number in the clauses.                                      *)
LastNumbers(lits, aux) == {id \in DOMAIN lits \cup {aux} : id >= aux /\ id > 0}

(* Mutant: next_var is what it was.                                        *)
NotAdvanced(nv, next) == next

(* add_encoding returns encoding.nv + 1, whatever next_var was.            *)
Advanced(nv, next) == nv + 1

Encodings(rel, lits, bound, next) ==
  UNION {{[new  |-> <<[rel |-> rel, lits |-> lits, bound |-> bound, of |-> x.of, aux |-> x.aux]>>,
           next |-> Advanced(nv, next)] : nv \in LastNumbers(lits, x.aux)} :
         x \in Auxiliaries(lits, next)}

AddEncoding(needed, rel, lits, bound, next) ==
  IF needed THEN Encodings(rel, lits, bound, next) ELSE {[new |-> <<>>, next |-> next]}

(* add_pb_constraint: the names are numbered first.                        *)
AddConstraint ==
  /\ phase = "constraints" /\ added < Len(constraints)
  /\ LET c     == constraints[added + 1]
         p     == Parsed(c.expr)
         bound == Double(c.rhs) - TotalConstant(p)
     IN \E f \in Numberings(DOMAIN c.expr) :
          LET lits  == Lits(p.coef, f)
              total == Total(lits)
              least == c.rel \in {">=", "="} /\ bound > 0 /\ bound <= total
              most  == c.rel \in {"<=", "="} /\ bound >= 0 /\ bound < total
          IN \E one \in AddEncoding(least, "atleast", lits, bound, next_var) :
             \E two \in AddEncoding(most, "atmost", lits, bound, one.next) :
               /\ name_to_id' = f
               /\ hard' = hard \o one.new \o two.new
               /\ conflict' = \/ conflict
                              \/ c.rel \in {">=", "="} /\ bound > total
                              \/ c.rel \in {"<=", "="} /\ bound < 0
               /\ next_var' = Max({two.next, Cardinality(DOMAIN f) + 1})
  /\ added' = added + 1
  /\ UNCHANGED <<fileVars, phase, soft, model, outVars>>

AllAdded ==
  /\ phase = "constraints" /\ added = Len(constraints)
  /\ phase' = "solving"
  /\ UNCHANGED <<fileVars, formulaVars, model, outVars>>

-----------------------------------------------------------------------------
(* RC2 (external): a model of the hard clauses of least cost.              *)
Weight(lits, m) ==
  SumFunction([id \in DOMAIN lits |->
         IF (id \in m) = lits[id].positive THEN lits[id].weight ELSE 0])

ClausesHold(e, m) ==
  /\ IF e.rel = "atleast" THEN Weight(e.lits, m) >= e.bound
     ELSE Weight(e.lits, m) <= e.bound
  /\ e.of # 0 => (e.aux \in m) = ((e.of \in m) = e.lits[e.of].positive)

(* The numbers in use.                                                     *)
Ids == {name_to_id[v] : v \in DOMAIN name_to_id}
         \cup ({hard[i].aux : i \in DOMAIN hard} \ {0})

Models ==
  IF conflict THEN {}
  ELSE {m \in SUBSET Ids : \A i \in DOMAIN hard : ClausesHold(hard[i], m)}

(* [-x] with weight c is unsatisfied when x is true, [x] with weight -c    *)
(* when x is false.                                                        *)
Cost(m) ==
  SumFunction([id \in DOMAIN soft |->
         IF soft[id] >= 0 THEN (IF id \in m THEN soft[id] ELSE 0)
         ELSE (IF id \in m THEN 0 ELSE - soft[id])])

SolveModel ==
  /\ phase = "solving"
  /\ \E m \in Models :
       /\ \A n \in Models : Cost(m) <= Cost(n)
       /\ model' = m
  /\ phase' = IF objective # <<>> THEN "o" ELSE "s"
  /\ UNCHANGED <<fileVars, formulaVars, outVars>>

(* Mutant: the model is printed whether there is one or not.               *)
SolveNonePrints ==
  /\ phase = "solving" /\ Models = {}
  /\ sLines' = Append(sLines, "UNSATISFIABLE")
  /\ phase' = "s"
  /\ UNCHANGED <<fileVars, formulaVars, model, oLine, vLine>>

SolveNone ==
  /\ phase = "solving" /\ Models = {}
  /\ sLines' = Append(sLines, "UNSATISFIABLE")
  /\ phase' = "return"
  /\ UNCHANGED <<fileVars, formulaVars, model, oLine, vLine>>

-----------------------------------------------------------------------------
(* The values of the names of the file; a name without a number does not   *)
(* occur in it, and its value does not matter.                             *)
Values == [v \in Var |-> IF v \in DOMAIN name_to_id /\ name_to_id[v] \in model THEN 1 ELSE 0]

(* evaluate                                                                *)
PrintObjective ==
  /\ phase = "o"
  /\ oLine' = <<ParsedValue(Parsed(objective[1].expr), Values)>>
  /\ phase' = "s"
  /\ UNCHANGED <<fileVars, formulaVars, model, sLines, vLine>>

PrintStatus ==
  /\ phase = "s"
  /\ sLines' = Append(sLines, IF objective # <<>> THEN "OPTIMUM FOUND" ELSE "SATISFIABLE")
  /\ phase' = "v"
  /\ UNCHANGED <<fileVars, formulaVars, model, oLine, vLine>>

PrintModel ==
  /\ phase = "v"
  /\ vLine' = <<Values>>
  /\ phase' = "return"
  /\ UNCHANGED <<fileVars, formulaVars, model, oLine, sLines>>

Return ==
  /\ phase = "return"
  /\ phase' = "ended"
  /\ UNCHANGED <<fileVars, formulaVars, model, outVars>>

(* The alarm raises TimeoutError between two steps; main prints UNKNOWN.   *)
(* It is not switched off when the answer is known.                        *)
TimeLimit ==
  /\ phase \notin {"ended", "failed"}
  /\ sLines' = Append(sLines, "UNKNOWN")
  /\ phase' = "ended"
  /\ UNCHANGED <<fileVars, formulaVars, model, oLine, vLine>>

Ended == phase \in {"ended", "failed"} /\ UNCHANGED vars

Next ==
  \/ ReadStatement \/ ReadFails \/ FileRead
  \/ AddObjective \/ ObjectiveRefused \/ AddConstraint \/ AllAdded
  \/ SolveModel \/ SolveNone
  \/ PrintObjective \/ PrintStatus \/ PrintModel \/ Return
  \/ TimeLimit \/ Ended

Spec == Init /\ [][Next]_vars

-----------------------------------------------------------------------------
(* The numbers of the auxiliaries ascend in the order of the encodings, so *)
(* that no two share one, as long as every encoding has an auxiliary: one  *)
(* that has none sets next_var back to the number after its literals.      *)
AuxiliariesAscend ==
  \A i, j \in DOMAIN hard :
    i < j /\ (\A k \in i..j : hard[k].aux # 0) => hard[i].aux < hard[j].aux

Feasible == {a \in Assignment : \A i \in DOMAIN constraints : Satisfies(a, constraints[i])}
ObjectiveOf(a) == Value(objective[1].expr, a)

(* What is printed is true of the file, whatever names its constraints     *)
(* introduce: the driver solves linear OPB files.                          *)
AnswerTrue ==
  /\ \A i \in DOMAIN vLine : vLine[i] \in Feasible
  /\ \A i \in DOMAIN oLine :
       /\ oLine[i] \in {ObjectiveOf(a) : a \in Feasible}
       /\ \A a \in Feasible : oLine[i] <= ObjectiveOf(a)
  /\ oLine # <<>> /\ vLine # <<>> => oLine[1] = ObjectiveOf(vLine[1])
  /\ (\E i \in DOMAIN sLines : sLines[i] = "UNSATISFIABLE") => Feasible = {}

(* An auxiliary has the number of a name or of another auxiliary.          *)
IdReused ==
  \E i \in DOMAIN hard :
    /\ hard[i].aux # 0
    /\ \/ \E v \in DOMAIN name_to_id : name_to_id[v] = hard[i].aux
       \/ \E j \in DOMAIN hard \ {i} : hard[j].aux = hard[i].aux

(* A number of the file is not the one that was read.                      *)
Rounded ==
  \/ \E i \in DOMAIN objective : \E v \in DOMAIN objective[i].expr :
        Double(objective[i].expr[v].coef) # objective[i].expr[v].coef
  \/ \E i \in DOMAIN constraints :
        \/ Double(constraints[i].rhs) # constraints[i].rhs
        \/ \E v \in DOMAIN constraints[i].expr :
             Double(constraints[i].expr[v].coef) # constraints[i].expr[v].coef

(* What the driver prints is true of the file unless a number of a variable*)
(* is used twice or a number of the file was rounded.                      *)
AnswerTrueUnlessReusedOrRounded == IdReused \/ Rounded \/ AnswerTrue

(* The first s line is the answer: the alarm may add UNKNOWN behind it, and*)
(* nothing else comes after an s line but the v line of that answer.       *)
OneAnswer ==
  /\ \A i \in DOMAIN sLines : i > 1 => sLines[i] = "UNKNOWN" /\ sLines[i - 1] # "UNKNOWN"
  /\ vLine # <<>> => sLines # <<>> /\ sLines[1] \in {"OPTIMUM FOUND", "SATISFIABLE"}
  /\ oLine # <<>> => sLines = <<>> \/ sLines[1] \in {"OPTIMUM FOUND", "UNKNOWN"}
=============================================================================
