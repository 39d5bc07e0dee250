----------------------------- MODULE LinearProofs -----------------------------
(***************************************************************************)
(* Proofs about module LinearDrivers, for every set of names and of        *)
(* coefficients and every number of statements.                            *)
(***************************************************************************)
EXTENDS LinearDrivers, SumTheorems

-----------------------------------------------------------------------------
(* Expressions.                                                            *)
LEMMA ExpressionParts ==
  ASSUME NEW expr \in Expression
  PROVE  /\ DOMAIN expr \subseteq Var /\ IsFiniteSet(DOMAIN expr)
         /\ \A v \in DOMAIN expr : expr[v].coef \in Int /\ expr[v].negated \in BOOLEAN
<1>1. PICK S \in SUBSET Var : expr \in [S -> Literal]
  BY DEF Expression, kSubset
<1>2. IsFiniteSet(S)
  BY OpbAssumption, FS_Subset
<1>3. QED  BY <1>1, <1>2, OpbAssumption DEF Literal

(* An expression as parse_expression reads it, if no number is rounded.    *)
SignedCoef(expr) ==
  [v \in DOMAIN expr |-> IF expr[v].negated THEN - expr[v].coef ELSE expr[v].coef]
Left(expr) == [v \in DOMAIN expr |-> IF expr[v].negated THEN expr[v].coef ELSE 0]
AsWritten(expr) == [coef |-> SignedCoef(expr), constant |-> SumFunction(Left(expr))]

LEMMA WrittenType ==
  ASSUME NEW expr \in Expression
  PROVE  AsWritten(expr).constant \in Int
<1>1. DOMAIN Left(expr) = DOMAIN expr /\ \A v \in DOMAIN expr : Left(expr)[v] \in Int
  BY ExpressionParts DEF Left
<1>2. AsWritten(expr).constant = SumFunction(Left(expr))
  BY DEF AsWritten
<1>3. QED  BY <1>1, <1>2, ExpressionParts, SumIsInt DEF SumFunction

(* The size of an expression bounds its coefficients and its constant.     *)
LEMMA SizeBounds ==
  ASSUME NEW expr \in Expression
  PROVE  /\ Size(expr) \in Nat
         /\ \A v \in DOMAIN expr : Magnitude(expr[v].coef) <= Size(expr)
         /\ Magnitude(AsWritten(expr).constant) <= Size(expr)
<1> DEFINE D == DOMAIN expr
           m == [v \in D |-> Magnitude(expr[v].coef)]
           n == [v \in D |-> - Magnitude(expr[v].coef)]
           z == [v \in D |-> 0]
           g == Left(expr)
<1>1. IsFiniteSet(D) /\ \A v \in D : expr[v].coef \in Int
  BY ExpressionParts
<1>2. DOMAIN m = D /\ DOMAIN n = D /\ DOMAIN g = D /\ Size(expr) = SumFunctionOnSet(m, D)
  BY DEF Size, SumFunction, Left
<1>3. \A v \in D : /\ m[v] \in Nat /\ m[v] \in Int /\ n[v] \in Int /\ g[v] \in Int
                   /\ n[v] <= g[v] /\ g[v] <= m[v] /\ m[v] = Magnitude(expr[v].coef)
                   /\ z[v] = 0 /\ z[v] = m[v] + n[v]
  BY <1>1 DEF Magnitude, Left
<1>4. AsWritten(expr).constant = SumFunctionOnSet(g, D)
  BY <1>2 DEF AsWritten, SumFunction
<1> HIDE DEF D, m, n, z, g
<1>5. /\ SumFunctionOnSet(m, D) \in Int /\ SumFunctionOnSet(n, D) \in Int
      /\ SumFunctionOnSet(g, D) \in Int
  BY <1>1, <1>3, SumIsInt
<1>6. SumFunctionOnSet(n, D) <= SumFunctionOnSet(g, D)
      /\ SumFunctionOnSet(g, D) <= SumFunctionOnSet(m, D)
  BY <1>1, <1>3, SumMonotone
<1>7. SumFunctionOnSet(z, D) = SumFunctionOnSet(m, D) + SumFunctionOnSet(n, D)
  BY <1>1, <1>3, SumPlus
<1>8. SumFunctionOnSet(z, D) = 0
  BY <1>1, <1>3, SumZero
<1>9. ASSUME NEW v \in D PROVE m[v] <= SumFunctionOnSet(m, D)
  <2>1. SumFunctionOnSet(m, D) = m[v] + SumFunctionOnSet(m, D \ {v})
    BY <1>1, <1>3, SumRemove
  <2>2. IsFiniteSet(D \ {v})
    BY <1>1, FS_Subset
  <2>3. SumFunctionOnSet(z, D \ {v}) = 0
    BY <1>3, <2>2, SumZero
  <2>4. SumFunctionOnSet(z, D \ {v}) <= SumFunctionOnSet(m, D \ {v})
    <3>1. \A u \in D \ {v} : z[u] \in Int /\ m[u] \in Int /\ z[u] <= m[u]
      BY <1>3
    <3>2. QED  BY <2>2, <3>1, SumMonotone
  <2>5. SumFunctionOnSet(m, D \ {v}) \in Int
    BY <1>3, <2>2, SumIsInt
  <2>6. QED  BY <1>3, <1>5, <2>1, <2>3, <2>4, <2>5
<1>10. SumFunctionOnSet(m, D) >= 0
  BY <1>5, <1>6, <1>7, <1>8
<1>11. \A v \in D : Magnitude(expr[v].coef) <= Size(expr)
  BY <1>2, <1>3, <1>9
<1>12. Magnitude(SumFunctionOnSet(g, D)) <= SumFunctionOnSet(m, D)
  BY <1>5, <1>6, <1>7, <1>8 DEF Magnitude
<1>13. QED  BY <1>2, <1>4, <1>5, <1>10, <1>11, <1>12 DEF D

(* Small numbers are read as they are written.                             *)
LEMMA SmallIsExact ==
  ASSUME NEW n \in Int, Magnitude(n) < Tolerance
  PROVE  Double(n) = n
<1>1. Magnitude(n) <= LastExact
  BY OpbAssumption, DriverAssumption DEF Magnitude
<1>2. QED  BY <1>1 DEF Double, Exact

LEMMA SmallIsAsWritten ==
  ASSUME NEW expr \in Expression, Size(expr) < Tolerance
  PROVE  ParsedExpression(expr) = AsWritten(expr)
<1>1. \A v \in DOMAIN expr : Double(expr[v].coef) = expr[v].coef
  <2> SUFFICES ASSUME NEW v \in DOMAIN expr PROVE Double(expr[v].coef) = expr[v].coef
    OBVIOUS
  <2>1. expr[v].coef \in Int
    BY ExpressionParts
  <2>2. Magnitude(expr[v].coef) < Tolerance
    BY <2>1, SizeBounds, DriverAssumption DEF Magnitude
  <2>3. QED  BY <2>1, <2>2, SmallIsExact
<1>2. Parsed(expr) = AsWritten(expr)
  <2>1. [v \in DOMAIN expr |-> IF expr[v].negated THEN - Double(expr[v].coef)
                               ELSE Double(expr[v].coef)] = SignedCoef(expr)
    BY <1>1 DEF SignedCoef
  <2>2. [v \in DOMAIN expr |-> IF expr[v].negated THEN Double(expr[v].coef) ELSE 0]
          = Left(expr)
    BY <1>1 DEF Left
  <2>3. QED  BY <2>1, <2>2 DEF Parsed, AsWritten
<1>3. Double(AsWritten(expr).constant) = AsWritten(expr).constant
  <2>1. Magnitude(AsWritten(expr).constant) < Tolerance
    BY WrittenType, SizeBounds, DriverAssumption DEF Magnitude
  <2>2. QED  BY <2>1, WrittenType, SmallIsExact
<1>4. QED  BY <1>2, <1>3 DEF ParsedExpression, AsWritten

(* The expression that was read has the value of the one that was written: *)
(* c ~x is c - c x.                                                        *)
LEMMA ParsedHasValue ==
  ASSUME NEW expr \in Expression, NEW a \in Assignment
  PROVE  /\ ParsedValue(AsWritten(expr), a) = Value(expr, a)
         /\ Value(expr, a) \in Int
<1> DEFINE D == DOMAIN expr
           f == [v \in D |-> expr[v].coef * (IF expr[v].negated THEN 1 - a[v] ELSE a[v])]
           g == Left(expr)
           c == SignedCoef(expr)
           h == [v \in DOMAIN c |-> c[v] * a[v]]
<1>1. IsFiniteSet(D) /\ DOMAIN f = D /\ DOMAIN g = D /\ DOMAIN h = D
  BY ExpressionParts DEF Left, SignedCoef
<1>2. ASSUME NEW v \in D
      PROVE  f[v] \in Int /\ g[v] \in Int /\ h[v] \in Int /\ f[v] = g[v] + h[v]
  <2>1. expr[v].coef \in Int /\ expr[v].negated \in BOOLEAN /\ v \in Var
    BY ExpressionParts
  <2>2. a[v] = 0 \/ a[v] = 1
    BY <2>1 DEF Assignment
  <2>3. /\ f[v] = expr[v].coef * (IF expr[v].negated THEN 1 - a[v] ELSE a[v])
        /\ g[v] = IF expr[v].negated THEN expr[v].coef ELSE 0
        /\ h[v] = (IF expr[v].negated THEN - expr[v].coef ELSE expr[v].coef) * a[v]
    BY DEF Left, SignedCoef
  <2> HIDE DEF f, g, h
  <2>4. CASE a[v] = 0
    BY <2>1, <2>3, <2>4
  <2>5. CASE a[v] = 1
    BY <2>1, <2>3, <2>5
  <2>6. QED  BY <2>2, <2>4, <2>5
<1>3. /\ Value(expr, a) = SumFunction(f)
      /\ ParsedValue(AsWritten(expr), a) = SumFunction(g) + SumFunction(h)
  BY DEF Value, ParsedValue, AsWritten
<1> HIDE DEF D, f, g, c, h
<1>4. /\ SumFunction(f) = SumFunctionOnSet(f, D)
      /\ SumFunction(g) = SumFunctionOnSet(g, D)
      /\ SumFunction(h) = SumFunctionOnSet(h, D)
  BY <1>1 DEF SumFunction
<1>5. SumFunctionOnSet(f, D) = SumFunctionOnSet(g, D) + SumFunctionOnSet(h, D)
  BY <1>1, <1>2, SumPlus
<1>6. SumFunctionOnSet(f, D) \in Int
  BY <1>1, <1>2, SumIsInt
<1>7. QED  BY <1>3, <1>4, <1>5, <1>6

LEMMA WithoutConstantValue ==
  ASSUME NEW expr \in Expression, NEW a \in Assignment
  PROVE  ParsedValue(WithoutConstant(AsWritten(expr)), a)
           = Value(expr, a) - AsWritten(expr).constant
<1> DEFINE p == AsWritten(expr)
           q == WithoutConstant(AsWritten(expr))
<1>1. q.coef = p.coef /\ q.constant = 0
  BY DEF AsWritten, WithoutConstant
<1>2. p.constant \in Int /\ ParsedValue(p, a) = Value(expr, a) /\ Value(expr, a) \in Int
  BY ParsedHasValue, WrittenType
<1>3. p.coef = SignedCoef(expr)
  BY DEF AsWritten
<1> HIDE DEF p, q
<1> DEFINE x == SumFunction([v \in DOMAIN p.coef |-> p.coef[v] * a[v]])
<1>4. ParsedValue(p, a) = p.constant + x /\ ParsedValue(q, a) = 0 + x
  BY <1>1 DEF ParsedValue
<1>5. x \in Int
  <2> DEFINE h == [v \in DOMAIN p.coef |-> p.coef[v] * a[v]]
  <2>1. DOMAIN h = DOMAIN expr /\ \A v \in DOMAIN expr : h[v] \in Int
    <3>1. \A v \in DOMAIN expr : expr[v].coef \in Int /\ a[v] \in Int
      BY ExpressionParts DEF Assignment
    <3>2. DOMAIN p.coef = DOMAIN expr
      BY <1>3 DEF SignedCoef
    <3>3. \A v \in DOMAIN expr : p.coef[v] \in Int
      BY <1>3, <3>1 DEF SignedCoef
    <3>4. QED  BY <3>1, <3>2, <3>3
  <2> HIDE DEF h
  <2>2. SumFunctionOnSet(h, DOMAIN h) \in Int
    BY <2>1, ExpressionParts, SumIsInt
  <2>3. QED  BY <2>2 DEF h, SumFunction
<1> HIDE DEF x
<1>6. QED  BY <1>2, <1>4, <1>5 DEF p, q

(* The slack of a row or a goal of small coefficients is 0.                *)
LEMMA NoSlack ==
  ASSUME NEW expr \in Expression, Size(expr) < Tolerance,
         NEW linear, linear.coef = SignedCoef(expr)
  PROVE  Slack(linear) = 0
<1> DEFINE D == DOMAIN expr
           m == [v \in D |-> Magnitude(expr[v].coef)]
           n == [v \in DOMAIN linear.coef |-> Magnitude(linear.coef[v])]
<1>1. IsFiniteSet(D) /\ DOMAIN m = D /\ DOMAIN n = D
  BY ExpressionParts DEF SignedCoef
<1>2. \A v \in D : m[v] \in Int /\ n[v] = m[v]
  BY ExpressionParts DEF SignedCoef, Magnitude
<1>3. Size(expr) = SumFunctionOnSet(m, D)
  BY DEF Size, SumFunction
<1>4. SumFunction(n) = SumFunctionOnSet(n, D)
  BY <1>1 DEF SumFunction
<1>5. Slack(linear) = SumFunction(n) \div Tolerance
  BY DEF Slack
<1> HIDE DEF D, m, n
<1>6. SumFunctionOnSet(n, D) = SumFunctionOnSet(m, D)
  BY <1>1, <1>2, SumSame
<1>7. SumFunction(n) = Size(expr)
  BY <1>3, <1>4, <1>6
<1>8. Size(expr) \in Nat /\ Tolerance \in Nat
  BY SizeBounds, OpbAssumption, DriverAssumption
<1>9. \A k, t \in Nat : k < t => k \div t = 0
  OBVIOUS
<1>10. QED  BY <1>5, <1>7, <1>8, <1>9

-----------------------------------------------------------------------------
(* Types.                                                                  *)
AtMostOne(S) == {<<>>} \cup {<<x>> : x \in S}

TypeOK ==
  /\ wrapper \in {"scip", "gurobi"}
  /\ objective \in AtMostOne(Objective) /\ constraints \in Seq(Constraint)
  /\ phase \in {"reading", "solving", "stopped", "ended", "failed"}
  /\ incumbent \in AtMostOne(Assignment)
  /\ status \in {"UNKNOWN", "OPTIMAL", "INFEASIBLE", "TIME_LIMIT"}

LEMMA TypeInit == Init => TypeOK
<1> SUFFICES ASSUME Init PROVE TypeOK
  OBVIOUS
<1>1. wrapper \in {"scip", "gurobi"}
  BY DriverAssumption DEF Init
<1>2. constraints \in Seq(Constraint)
  <2>1. <<>> \in Seq(Constraint)
    OBVIOUS
  <2>2. QED  BY <2>1 DEF Init
<1>3. QED  BY <1>1, <1>2 DEF Init, TypeOK, AtMostOne

LEMMA TypeStep ==
  ASSUME TypeOK, [Next]_vars
  PROVE  TypeOK'
<1> USE DEF TypeOK, AtMostOne, fileVars, modelVars, searchVars, outVars
<1>1. ASSUME NEW o \in Objective, ScipObjective(o) \/ GurobiObjective(o)
      PROVE  TypeOK'
  BY <1>1 DEF ScipObjective, GurobiObjective, ReadObjective
<1>2. ASSUME NEW c \in Constraint, ScipConstraint(c) \/ GurobiConstraint(c)
      PROVE  TypeOK'
  <2>1. /\ constraints' = Append(constraints, c)
        /\ UNCHANGED <<wrapper, objective, phase, incumbent, status>>
    BY <1>2 DEF ScipConstraint, GurobiConstraint, ReadConstraint
  <2>2. constraints' \in Seq(Constraint)
    BY <2>1
  <2>3. QED  BY <2>1, <2>2
<1>3. ASSUME NEW a \in Assignment, ScipReports(a) \/ GurobiReports(a)
      PROVE  TypeOK'
  BY <1>3 DEF ScipReports, GurobiReports, ScipBestSolution, GurobiSolution
<1>4. ASSUME NEW s \in {"OPTIMAL", "INFEASIBLE", "TIME_LIMIT"}, SearchStops(s)
      PROVE  TypeOK'
  BY <1>4 DEF SearchStops
<1>5. CASE ReadFails \/ StartSearch \/ Report \/ Ended \/ UNCHANGED vars
  BY <1>5 DEF ReadFails, StartSearch, Report, Ended, vars
<1>6. QED  BY <1>1, <1>2, <1>3, <1>4, <1>5 DEF Next

(* Every variable of the two drivers that holds a piece of the file or an  *)
(* answer of the library keeps its type.                                   *)
THEOREM TypeCorrect == Spec => []TypeOK
<1>1. TypeOK /\ [Next]_vars => TypeOK'
  BY TypeStep
<1>2. QED  BY <1>1, TypeInit, PTL DEF Spec

-----------------------------------------------------------------------------
(* The library was given the file, as the driver reads it.                 *)
GoalOf(o) ==
  [linear |-> IF wrapper = "scip" THEN WithoutConstant(ParsedExpression(o.expr))
              ELSE ParsedExpression(o.expr),
   minimize |-> o.minimize]
RowOf(c) ==
  [linear |-> IF wrapper = "scip" THEN WithoutConstant(ParsedExpression(c.expr))
              ELSE ParsedExpression(c.expr),
   rel |-> c.rel, rhs |-> RightHandSide(c)]

ModelOfFile ==
  /\ objective = <<>> => goal = <<>>
  /\ objective # <<>> => goal = <<GoalOf(objective[1])>>
  /\ rows = {RowOf(constraints[i]) : i \in DOMAIN constraints}

LEMMA ModelStep ==
  ASSUME TypeOK, ModelOfFile, [Next]_vars
  PROVE  ModelOfFile'
<1> USE DEF ModelOfFile, GoalOf, RowOf, fileVars, modelVars, searchVars, outVars
<1>1. ASSUME NEW o \in Objective, ScipObjective(o) \/ GurobiObjective(o)
      PROVE  ModelOfFile'
  BY <1>1 DEF ScipObjective, GurobiObjective, ReadObjective, GurobiLinear
<1>2. ASSUME NEW c \in Constraint, ScipConstraint(c) \/ GurobiConstraint(c)
      PROVE  ModelOfFile'
  <2>1. /\ rows' = rows \cup {RowOf(c)} /\ constraints' = Append(constraints, c)
        /\ UNCHANGED <<wrapper, objective, goal>>
    BY <1>2 DEF ScipConstraint, GurobiConstraint, ReadConstraint, GurobiLinear
  <2>2. DOMAIN constraints' = DOMAIN constraints \cup {Len(constraints) + 1}
    BY <2>1 DEF TypeOK
  <2>3. /\ constraints'[Len(constraints) + 1] = c
        /\ \A i \in DOMAIN constraints : constraints'[i] = constraints[i]
    BY <2>1 DEF TypeOK
  <2>4. \A d : RowOf(d)' = RowOf(d)
    BY <2>1
  <2> HIDE DEF RowOf
  <2>5. rows' = {RowOf(constraints'[i]) : i \in DOMAIN constraints'}
    BY <2>1, <2>2, <2>3
  <2> USE DEF RowOf
  <2>6. QED  BY <2>1, <2>5
<1>3. CASE UNCHANGED <<wrapper, objective, constraints, goal, rows>>
  BY <1>3
<1>4. ASSUME NEW a \in Assignment, ScipReports(a) \/ GurobiReports(a)
      PROVE  ModelOfFile'
  BY <1>3, <1>4 DEF ScipReports, GurobiReports
<1>5. ASSUME NEW s \in {"OPTIMAL", "INFEASIBLE", "TIME_LIMIT"}, SearchStops(s)
      PROVE  ModelOfFile'
  BY <1>3, <1>5 DEF SearchStops
<1>6. CASE ReadFails \/ StartSearch \/ Report \/ Ended \/ UNCHANGED vars
  BY <1>3, <1>6 DEF ReadFails, StartSearch, Report, Ended, vars
<1>7. QED  BY <1>1, <1>2, <1>4, <1>5, <1>6 DEF Next

(* A row of small numbers that does not count a constant twice says what   *)
(* the constraint says; so the solutions of the library are those of the   *)
(* file, and it accepts no others.                                         *)
Small(c) == Size(c.expr) + Magnitude(c.rhs) < Tolerance

LEMMA RowIsConstraint ==
  ASSUME TypeOK, NEW c \in Constraint, NEW a \in Assignment, Small(c),
         wrapper = "gurobi" => ParsedExpression(c.expr).constant = 0
  PROVE  /\ Slack(RowOf(c).linear) = 0
         /\ ParsedValue(RowOf(c).linear, a) \in Int
         /\ Holds(ParsedValue(RowOf(c).linear, a), RowOf(c).rel, RowOf(c).rhs)
              <=> Satisfies(a, c)
<1> DEFINE k == AsWritten(c.expr).constant
           x == Value(c.expr, a)
<1>1. c.expr \in Expression /\ c.rel \in {">=", "<=", "="} /\ c.rhs \in Int
  BY OpbAssumption DEF Constraint
<1>2. k \in Int /\ x \in Int
  BY <1>1, WrittenType, ParsedHasValue
<1>3. Size(c.expr) \in Nat /\ Magnitude(k) <= Size(c.expr) /\ Size(c.expr) < Tolerance
      /\ Tolerance \in Nat
  <2>1. Size(c.expr) \in Nat /\ Magnitude(k) <= Size(c.expr)
    BY <1>1, SizeBounds
  <2>2. Tolerance \in Nat
    BY OpbAssumption, DriverAssumption
  <2>3. QED  BY <1>1, <2>1, <2>2 DEF Small, Magnitude
<1>4. ParsedExpression(c.expr) = AsWritten(c.expr)
  BY <1>1, <1>3, SmallIsAsWritten
<1>5. RightHandSide(c) = c.rhs - k
  <2>1. Double(c.rhs) = c.rhs
    <3>1. Magnitude(c.rhs) < Tolerance
      BY <1>1, <1>3 DEF Small, Magnitude
    <3>2. QED  BY <1>1, <3>1, SmallIsExact
  <2>2. c.rhs - k \in Int /\ Magnitude(c.rhs - k) < Tolerance
    <3> HIDE DEF k
    <3>1. QED  BY <1>1, <1>2, <1>3 DEF Small, Magnitude
  <2>3. Double(c.rhs - k) = c.rhs - k
    BY <2>2, SmallIsExact
  <2>4. QED  BY <1>4, <2>1, <2>3 DEF RightHandSide
<1>6. Slack(RowOf(c).linear) = 0
  <2>1. RowOf(c).linear.coef = SignedCoef(c.expr)
    BY <1>4 DEF RowOf, AsWritten, WithoutConstant
  <2>2. QED  BY <1>1, <1>3, <2>1, NoSlack
<1>7. /\ wrapper = "scip" => ParsedValue(RowOf(c).linear, a) = x - k
      /\ wrapper = "gurobi" => ParsedValue(RowOf(c).linear, a) = x
  BY <1>1, <1>4, ParsedHasValue, WithoutConstantValue DEF RowOf
<1>8. RowOf(c).rel = c.rel /\ RowOf(c).rhs = c.rhs - k
  BY <1>5 DEF RowOf
<1>9. wrapper = "gurobi" => k = 0
  BY <1>4
<1> HIDE DEF k, x
<1>10. Satisfies(a, c) <=> Holds(x, c.rel, c.rhs)
  BY DEF Satisfies, x
<1>11. CASE wrapper = "scip"
  BY <1>1, <1>2, <1>6, <1>7, <1>8, <1>10, <1>11 DEF Holds
<1>12. CASE wrapper = "gurobi"
  BY <1>1, <1>2, <1>6, <1>7, <1>8, <1>9, <1>10, <1>12 DEF Holds
<1>13. QED  BY <1>11, <1>12 DEF TypeOK

LEMMA SolutionsAreFeasible ==
  ASSUME TypeOK, ModelOfFile, ~ CountedTwice, ~ LargeConstraint
  PROVE  Solutions = Feasible /\ Accepted = Feasible
<1>1. ASSUME NEW i \in DOMAIN constraints, NEW a \in Assignment
      PROVE  LET r == RowOf(constraints[i])
             IN /\ Slack(r.linear) = 0 /\ ParsedValue(r.linear, a) \in Int
                /\ Holds(ParsedValue(r.linear, a), r.rel, r.rhs) <=> Satisfies(a, constraints[i])
  <2>1. constraints[i] \in Constraint
    BY DEF TypeOK
  <2>2. wrapper = "gurobi" => ParsedExpression(constraints[i].expr).constant = 0
    BY DEF CountedTwice
  <2>3. Small(constraints[i])
    <3>1. constraints[i].expr \in Expression /\ constraints[i].rhs \in Int
      BY <2>1, OpbAssumption DEF Constraint
    <3>2. Size(constraints[i].expr) \in Nat
      BY <3>1, SizeBounds
    <3>3. ~ (Size(constraints[i].expr) + Magnitude(constraints[i].rhs) >= Tolerance)
      BY DEF LargeConstraint
    <3>4. QED  BY <3>1, <3>2, <3>3, OpbAssumption, DriverAssumption DEF Small, Magnitude
  <2>4. QED  BY <2>1, <2>2, <2>3, RowIsConstraint
<1> HIDE DEF RowOf
<1>2. Solutions = Feasible
  BY <1>1 DEF Solutions, Feasible, ModelOfFile
<1>3. ASSUME NEW i \in DOMAIN constraints, NEW a \in Assignment
      PROVE  LET r == RowOf(constraints[i])
             IN (\E e \in (- Slack(r.linear))..Slack(r.linear) :
                   Holds(ParsedValue(r.linear, a) + e, r.rel, r.rhs))
                  <=> Satisfies(a, constraints[i])
  <2> DEFINE r == RowOf(constraints[i])
             x == ParsedValue(r.linear, a)
  <2>1. Slack(r.linear) = 0 /\ x \in Int
    BY <1>1
  <2>2. \A e \in (- Slack(r.linear))..Slack(r.linear) : e = 0
    BY <2>1
  <2>3. 0 \in (- Slack(r.linear))..Slack(r.linear) /\ x + 0 = x
    BY <2>1
  <2>4. Holds(x, r.rel, r.rhs) <=> Satisfies(a, constraints[i])
    BY <1>1
  <2> HIDE DEF r, x
  <2>5. (\E e \in (- Slack(r.linear))..Slack(r.linear) : Holds(x + e, r.rel, r.rhs))
          <=> Holds(x, r.rel, r.rhs)
    BY <2>2, <2>3
  <2>6. QED  BY <2>4, <2>5 DEF r, x
<1>4. Accepted = Feasible
  BY <1>3 DEF Accepted, Feasible, ModelOfFile
<1>5. QED  BY <1>2, <1>4

(* The library compares solutions as the file does: a constant that is     *)
(* dropped makes no difference.                                            *)
LEMMA GoalIsObjective ==
  ASSUME TypeOK, ModelOfFile, objective # <<>>, ~ LargeObjective
  PROVE  /\ objective[1] \in Objective /\ objective[1].expr \in Expression
         /\ ParsedExpression(objective[1].expr) = AsWritten(objective[1].expr)
         /\ Slack(goal[1].linear) = 0
         /\ goal # <<>> /\ goal[1].minimize = objective[1].minimize
         /\ \A a \in Assignment :
              /\ Value(objective[1].expr, a) \in Int
              /\ GoalValue(a) = Value(objective[1].expr, a)
                   - (IF wrapper = "scip" THEN AsWritten(objective[1].expr).constant ELSE 0)
<1>1. objective[1] \in Objective /\ objective[1].expr \in Expression
  BY DEF TypeOK, AtMostOne, Objective
<1>2. goal # <<>> /\ goal[1] = GoalOf(objective[1])
  BY DEF ModelOfFile
<1>small. Size(objective[1].expr) < Tolerance
  <2>1. Size(objective[1].expr) \in Nat /\ Tolerance \in Nat
    BY <1>1, SizeBounds, OpbAssumption, DriverAssumption
  <2>2. QED  BY <2>1 DEF LargeObjective
<1>written. ParsedExpression(objective[1].expr) = AsWritten(objective[1].expr)
  BY <1>1, <1>small, SmallIsAsWritten
<1>slack. Slack(goal[1].linear) = 0
  <2>1. goal[1].linear.coef = SignedCoef(objective[1].expr)
    BY <1>2, <1>written DEF GoalOf, AsWritten, WithoutConstant
  <2>2. QED  BY <1>1, <1>small, <2>1, NoSlack
<1>3. goal[1].minimize = objective[1].minimize
  BY <1>2 DEF GoalOf
<1>4. ASSUME NEW a \in Assignment
      PROVE  /\ Value(objective[1].expr, a) \in Int
             /\ GoalValue(a) = Value(objective[1].expr, a)
                   - (IF wrapper = "scip" THEN AsWritten(objective[1].expr).constant ELSE 0)
  <2>1. Value(objective[1].expr, a) \in Int
    BY <1>1, ParsedHasValue
  <2>2. GoalValue(a) = ParsedValue(goal[1].linear, a)
    BY <1>2 DEF GoalValue
  <2>3. CASE wrapper = "scip"
    BY <1>1, <1>2, <1>written, <2>1, <2>2, <2>3, WithoutConstantValue DEF GoalOf
  <2>4. CASE wrapper # "scip"
    BY <1>1, <1>2, <1>written, <2>1, <2>2, <2>4, ParsedHasValue DEF GoalOf
  <2>5. QED  BY <2>1, <2>3, <2>4
<1>5. QED  BY <1>1, <1>2, <1>3, <1>4, <1>written, <1>slack

LEMMA BetterIsBetter ==
  ASSUME TypeOK, ModelOfFile, objective # <<>>, ~ LargeObjective,
         NEW a \in Assignment, NEW b \in Assignment
  PROVE  IsBetter(a, b) <=> Better(Value(objective[1].expr, a), Value(objective[1].expr, b),
                                   objective[1].minimize)
<1>1. AsWritten(objective[1].expr).constant \in Int
  BY GoalIsObjective, WrittenType
<1>2. QED
  BY <1>1, GoalIsObjective DEF IsBetter, Better

-----------------------------------------------------------------------------
(* The search, and what is printed of it.                                  *)
SearchInv ==
  /\ phase = "reading" => incumbent = <<>> /\ oLines = <<>>
  /\ phase \in {"reading", "solving"} => status = "UNKNOWN"
  /\ incumbent # <<>> => incumbent[1] \in Accepted
  /\ status = "OPTIMAL" => ProvedOptimal
  /\ status = "INFEASIBLE" => Solutions = {}
  /\ IF phase = "ended" THEN sLine = CompetitionStatus /\ vLine = incumbent
     ELSE sLine = "" /\ vLine = <<>>

LEMMA SearchStep ==
  ASSUME TypeOK, SearchInv, [Next]_vars
  PROVE  SearchInv'
<1> USE DEF SearchInv, fileVars, modelVars, searchVars, outVars
<1>1. CASE phase = "reading" /\ phase' = "reading"
  <2>1. /\ UNCHANGED <<searchVars, outVars>>
    BY <1>1 DEF Next, vars, ScipObjective, GurobiObjective, ScipConstraint, GurobiConstraint,
       ReadObjective, ReadConstraint, ReadFails, StartSearch, ScipReports, GurobiReports,
       ScipBestSolution, GurobiSolution, SearchStops, Report, Ended
  <2>2. QED  BY <1>1, <2>1
<1>2. CASE ReadFails \/ StartSearch \/ Ended \/ UNCHANGED vars
  <2>1. UNCHANGED <<wrapper, fileVars, modelVars, searchVars, outVars>>
    BY <1>2 DEF ReadFails, StartSearch, Ended, vars
  <2>2. /\ Solutions' = Solutions /\ Accepted' = Accepted /\ ProvedOptimal' = ProvedOptimal
        /\ CompetitionStatus' = CompetitionStatus
    BY <2>1 DEF Solutions, Accepted, ProvedOptimal, CompetitionStatus, IsBetter, GoalValue,
                MIPGapAbs
  <2>3. (phase = "ended" <=> phase' = "ended") /\ (phase' = "reading" => phase = "reading")
        /\ (phase' = "solving" => phase \in {"reading", "solving"})
    BY <1>2 DEF ReadFails, StartSearch, Ended, vars
  <2>4. QED  BY <2>1, <2>2, <2>3
<1>3. ASSUME NEW a \in Assignment, ScipReports(a) \/ GurobiReports(a)
      PROVE  SearchInv'
  <2>1. /\ phase = "solving" /\ a \in Accepted
        /\ UNCHANGED <<wrapper, fileVars, modelVars, phase, status, sLine, vLine>>
        /\ incumbent' \in {<<a>>, incumbent}
    BY <1>3 DEF ScipReports, GurobiReports, ScipBestSolution, GurobiSolution
  <2>2. Accepted' = Accepted
    BY <2>1 DEF Accepted
  <2>3. incumbent' # <<>> => incumbent'[1] \in Accepted
    <3>1. CASE incumbent' = <<a>>
      BY <2>1, <3>1
    <3>2. CASE incumbent' = incumbent
      BY <3>2
    <3>3. QED  BY <2>1, <3>1, <3>2
  <2>4. QED  BY <2>1, <2>2, <2>3
<1>4. ASSUME NEW s \in {"OPTIMAL", "INFEASIBLE", "TIME_LIMIT"}, SearchStops(s)
      PROVE  SearchInv'
  <2>1. /\ phase = "solving" /\ phase' = "stopped" /\ status' = s
        /\ s = "OPTIMAL" => ProvedOptimal
        /\ s = "INFEASIBLE" => Solutions = {}
        /\ UNCHANGED <<wrapper, fileVars, modelVars, incumbent, outVars>>
    BY <1>4 DEF SearchStops
  <2>2. Solutions' = Solutions /\ Accepted' = Accepted /\ ProvedOptimal' = ProvedOptimal
    BY <2>1 DEF Solutions, Accepted, ProvedOptimal, IsBetter, GoalValue, MIPGapAbs
  <2>3. QED  BY <2>1, <2>2
<1>5. CASE Report
  <2>1. /\ Solutions' = Solutions /\ Accepted' = Accepted /\ ProvedOptimal' = ProvedOptimal
        /\ CompetitionStatus' = CompetitionStatus
    BY <1>5 DEF Report, Solutions, Accepted, ProvedOptimal, CompetitionStatus, IsBetter,
                GoalValue, MIPGapAbs
  <2>2. QED  BY <1>5, <2>1 DEF Report
<1>6. ASSUME NEW o \in Objective, ScipObjective(o) \/ GurobiObjective(o)
      PROVE  SearchInv'
  BY <1>1, <1>6 DEF ScipObjective, GurobiObjective, ReadObjective, CanRead
<1>7. ASSUME NEW c \in Constraint, ScipConstraint(c) \/ GurobiConstraint(c)
      PROVE  SearchInv'
  BY <1>1, <1>7 DEF ScipConstraint, GurobiConstraint, ReadConstraint, CanRead
<1>8. QED  BY <1>2, <1>3, <1>4, <1>5, <1>6, <1>7 DEF Next

LEMMA InvInit == Init => ModelOfFile /\ SearchInv
<1> SUFFICES ASSUME Init PROVE ModelOfFile /\ SearchInv
  OBVIOUS
<1>1. constraints = <<>> /\ rows = {}
  BY DEF Init
<1>2. rows = {RowOf(constraints[i]) : i \in DOMAIN constraints}
  <2>1. DOMAIN constraints = {}
    BY <1>1
  <2>2. QED  BY <1>1, <2>1
<1>3. QED  BY <1>2 DEF Init, ModelOfFile, SearchInv

(* The library works on the file, and what is printed is what it found.    *)
THEOREM SearchesTheFile == Spec => [](TypeOK /\ ModelOfFile /\ SearchInv)
<1>1. TypeOK /\ ModelOfFile /\ SearchInv /\ [Next]_vars
        => (TypeOK /\ ModelOfFile /\ SearchInv)'
  BY TypeStep, ModelStep, SearchStep
<1>2. QED  BY <1>1, TypeInit, InvInit, PTL DEF Spec

(* The answers of pb_scip.cpp and pb_gurobi.py: the v line satisfies the   *)
(* file, nothing is better than what is printed under OPTIMUM FOUND, and   *)
(* nothing satisfies the file under UNSATISFIABLE, for any file of numbers *)
(* that are smaller than the library's tolerance, unless Gurobi's driver   *)
(* counted a constant twice.                                               *)
THEOREM AnswersAreTrue == Spec => []AnswerTrueUnlessTwiceOrLarge
<1>1. TypeOK /\ ModelOfFile /\ SearchInv => AnswerTrueUnlessTwiceOrLarge
  <2> SUFFICES ASSUME TypeOK, ModelOfFile, SearchInv, ~ CountedTwice,
                      ~ LargeObjective, ~ LargeConstraint
               PROVE  AnswerTrue
    BY DEF AnswerTrueUnlessTwiceOrLarge
  <2>1. Solutions = Feasible /\ Accepted = Feasible
    BY SolutionsAreFeasible
  <2>2. CASE phase # "ended"
    <3>1. sLine = "" /\ vLine = <<>>
      BY <2>2 DEF SearchInv
    <3>2. DOMAIN vLine = {}
      <4>1. DOMAIN vLine = DOMAIN <<>>
        BY <3>1, Zenon
      <4>2. QED  BY <4>1
    <3>3. QED  BY <3>1, <3>2 DEF AnswerTrue
  <2>3. CASE phase = "ended"
    <3>1. sLine = CompetitionStatus /\ vLine = incumbent
      BY <2>3 DEF SearchInv
    <3>2. \A i \in DOMAIN vLine : vLine[i] \in Feasible
      <4>1. CASE incumbent = <<>>
        BY <3>1, <4>1
      <4>2. CASE incumbent # <<>>
        <5>1. PICK b \in Assignment : incumbent = <<b>>
          BY <4>2 DEF TypeOK, AtMostOne
        <5>2. QED  BY <2>1, <3>1, <5>1 DEF SearchInv
      <4>3. QED  BY <4>1, <4>2
    <3>3. sLine \in {"OPTIMUM FOUND", "SATISFIABLE"} => status = "OPTIMAL"
      BY <3>1 DEF CompetitionStatus, TypeOK
    <3>4. status = "OPTIMAL" => ProvedOptimal /\ vLine # <<>>
      BY <3>1 DEF SearchInv, ProvedOptimal
    <3>5. ASSUME sLine = "OPTIMUM FOUND", NEW a \in Feasible,
                 Better(Value(objective[1].expr, a), Value(objective[1].expr, vLine[1]),
                        objective[1].minimize)
          PROVE  FALSE
      <4>1. objective # <<>> /\ ProvedOptimal
        BY <3>1, <3>3, <3>4, <3>5 DEF CompetitionStatus, TypeOK
      <4>2. vLine[1] \in Assignment /\ a \in Assignment /\ vLine[1] = incumbent[1]
        <5>1. PICK b \in Assignment : incumbent = <<b>>
          BY <4>1 DEF TypeOK, AtMostOne, ProvedOptimal
        <5>2. QED  BY <3>1, <5>1 DEF Feasible
      <4>3. IsBetter(a, incumbent[1])
        BY <3>5, <4>1, <4>2, BetterIsBetter
      <4> DEFINE d == GoalValue(a) - GoalValue(incumbent[1])
      <4>4. 2 * (Magnitude(d) - 0) <= MIPGapAbs
        BY <2>1, <4>1, <4>3, GoalIsObjective DEF ProvedOptimal
      <4>5. GoalValue(a) \in Int /\ GoalValue(incumbent[1]) \in Int
        <5>1. AsWritten(objective[1].expr).constant \in Int
          BY <4>1, GoalIsObjective, WrittenType
        <5>2. QED  BY <4>1, <4>2, <5>1, GoalIsObjective
      <4>6. GoalValue(a) # GoalValue(incumbent[1])
        BY <4>3, <4>5 DEF IsBetter, Better
      <4> HIDE DEF d
      <4>7. d \in Int /\ d # 0
        BY <4>5, <4>6 DEF d
      <4>8. MIPGapAbs \in {0, 1}
        BY DEF MIPGapAbs
      <4>9. QED  BY <4>4, <4>7, <4>8 DEF Magnitude
    <3>6. sLine = "UNSATISFIABLE" => Feasible = {}
      BY <2>1, <3>1 DEF CompetitionStatus, SearchInv, TypeOK
    <3>7. QED  BY <3>2, <3>3, <3>4, <3>5, <3>6 DEF AnswerTrue
  <2>4. QED  BY <2>2, <2>3
<1>2. QED  BY <1>1, SearchesTheFile, PTL

-----------------------------------------------------------------------------
(* The o lines.                                                            *)
Improving(s, minimize) == \A i \in 1..(Len(s) - 1) : Better(s[i + 1], s[i], minimize)

LEMMA AppendImproves ==
  ASSUME NEW s \in Seq(Int), NEW x \in Int, NEW minimize, Improving(s, minimize),
         s # <<>> => Better(x, s[Len(s)], minimize)
  PROVE  /\ Append(s, x) \in Seq(Int) /\ Append(s, x) # <<>>
         /\ Append(s, x)[Len(Append(s, x))] = x
         /\ Improving(Append(s, x), minimize)
<1> DEFINE t == Append(s, x)
<1>1. /\ t \in Seq(Int) /\ Len(t) = Len(s) + 1 /\ Len(s) \in Nat /\ t[Len(s) + 1] = x
      /\ \A i \in 1..Len(s) : t[i] = s[i]
  OBVIOUS
<1>2. t # <<>> /\ t[Len(t)] = x
  BY <1>1
<1> HIDE DEF t
<1>3. ASSUME NEW i \in 1..(Len(t) - 1) PROVE Better(t[i + 1], t[i], minimize)
  <2>1. CASE i < Len(s)
    <3>1. i \in 1..Len(s) /\ i + 1 \in 1..Len(s) /\ i \in 1..(Len(s) - 1)
      <4>1. i \in Int /\ 1 <= i /\ Len(s) \in Int
        BY <1>1
      <4> QED  BY <2>1, <4>1
    <3>2. t[i] = s[i] /\ t[i + 1] = s[i + 1]
      BY <1>1, <3>1
    <3>3. Better(s[i + 1], s[i], minimize)
      BY <3>1 DEF Improving
    <3>4. QED  BY <3>2, <3>3
  <2>2. CASE i = Len(s)
    <3>1. s # <<>> /\ t[i] = s[Len(s)] /\ t[i + 1] = x
      BY <1>1, <2>2
    <3>2. QED  BY <3>1
  <2>3. QED  BY <1>1, <2>1, <2>2
<1>4. QED  BY <1>1, <1>2, <1>3 DEF Improving, t

(* The files whose objective both the driver and the library see as it is. *)
SeenAsIs ==
  /\ objective # <<>> /\ ~ LargeObjective
  /\ wrapper = "scip" => ParsedExpression(objective[1].expr).constant = 0
  /\ wrapper = "gurobi" => objective[1].minimize

OLinesInv ==
  SeenAsIs =>
    /\ oLines \in Seq(Int)
    /\ (incumbent = <<>>) <=> (oLines = <<>>)
    /\ incumbent # <<>> => oLines[Len(oLines)] = GoalValue(incumbent[1])
    /\ Improving(oLines, objective[1].minimize)

(* A better solution is printed, and nothing else is.                      *)
LEMMA ReportStep ==
  ASSUME TypeOK, ModelOfFile, SearchInv, OLinesInv, NEW a \in Assignment,
         ScipReports(a) \/ GurobiReports(a)
  PROVE  OLinesInv'
<1>1. /\ UNCHANGED <<wrapper, objective, goal>>
  BY DEF ScipReports, GurobiReports, fileVars, modelVars
<1>2. SeenAsIs => \A b \in Assignment : GoalValue(b) \in Int
  <2> SUFFICES ASSUME objective # <<>>, ~ LargeObjective
               PROVE  \A b \in Assignment : GoalValue(b) \in Int
    BY DEF SeenAsIs
  <2>1. AsWritten(objective[1].expr).constant \in Int
    BY GoalIsObjective, WrittenType
  <2>2. QED  BY <2>1, GoalIsObjective
<1>3. oLines' \in {oLines, Append(oLines, GoalValue(a))}
      /\ (objective = <<>> => oLines' = oLines)
  BY DEF ScipReports, GurobiReports, ScipPrints, GurobiImproved
<1>4. SeenAsIs => oLines' \in Seq(Int)
  BY <1>2, <1>3 DEF OLinesInv
<1>5. ASSUME SeenAsIs
      PROVE  /\ (incumbent' = <<>>) <=> (oLines' = <<>>)
             /\ incumbent' # <<>> => oLines'[Len(oLines')] = GoalValue(incumbent'[1])
             /\ Improving(oLines', objective[1].minimize)
  <2> DEFINE m == objective[1].minimize
  <2>1. /\ oLines \in Seq(Int) /\ GoalValue(a) \in Int /\ objective # <<>>
        /\ (incumbent = <<>>) <=> (oLines = <<>>)
        /\ incumbent # <<>> => oLines[Len(oLines)] = GoalValue(incumbent[1])
        /\ Improving(oLines, m)
    BY <1>2, <1>5 DEF OLinesInv, SeenAsIs
  <2>2. goal # <<>> /\ goal[1].minimize = m
    BY <1>5, <2>1, GoalIsObjective DEF SeenAsIs
  <2>3. Improves(a) <=> (oLines # <<>> => Better(GoalValue(a), oLines[Len(oLines)], m))
    BY <2>1, <2>2 DEF Improves, IsBetter
  <2>4. ASSUME Improves(a), incumbent' = <<a>>, oLines' = Append(oLines, GoalValue(a))
        PROVE  /\ (incumbent' = <<>>) <=> (oLines' = <<>>)
               /\ incumbent' # <<>> => oLines'[Len(oLines')] = GoalValue(incumbent'[1])
               /\ Improving(oLines', m)
    <3>1. incumbent'[1] = a /\ incumbent' # <<>>
      BY <2>4
    <3> HIDE DEF m
    <3>2. oLines' # <<>> /\ oLines'[Len(oLines')] = GoalValue(a) /\ Improving(oLines', m)
      BY <2>1, <2>3, <2>4, AppendImproves
    <3>3. QED  BY <3>1, <3>2
  <2>5. CASE ScipReports(a)
    <3>1. Improves(a) /\ incumbent' = <<a>> /\ oLines' = Append(oLines, GoalValue(a))
      BY <2>1, <2>5 DEF ScipReports, ScipBestSolution, ScipPrints
    <3>2. QED  BY <2>4, <3>1
  <2>6. CASE GurobiReports(a)
    <3>1. m = TRUE
      BY <1>5, <2>1, <2>6, GoalIsObjective DEF SeenAsIs, GurobiReports, GurobiSolution, Objective
    <3>2. GurobiImproved(a) <=> Improves(a)
      BY <2>1, <2>3, <3>1 DEF GurobiImproved, CallbackMinimize
    <3>3. CASE Improves(a)
      <4>1. incumbent' = <<a>> /\ oLines' = Append(oLines, GoalValue(a))
        BY <2>6, <3>2, <3>3 DEF GurobiReports, GurobiSolution
      <4>2. QED  BY <2>4, <3>3, <4>1
    <3>4. CASE ~ Improves(a)
      <4>1. incumbent' = incumbent /\ oLines' = oLines
        BY <2>6, <3>2, <3>4 DEF GurobiReports, GurobiSolution
      <4>2. QED  BY <2>1, <4>1
    <3>5. QED  BY <3>3, <3>4
  <2>7. QED  BY <2>5, <2>6
<1>6. SeenAsIs' <=> SeenAsIs
  BY <1>1 DEF SeenAsIs, LargeObjective
<1>7. \A b : GoalValue(b)' = GoalValue(b)
  BY <1>1 DEF GoalValue
<1>8. objective' = objective
  BY <1>1
<1> HIDE DEF SeenAsIs
<1>9. QED
  BY <1>4, <1>5, <1>6, <1>7, <1>8 DEF OLinesInv, GoalValue

LEMMA OLinesStep ==
  ASSUME TypeOK, ModelOfFile, SearchInv, SearchInv', OLinesInv, [Next]_vars
  PROVE  OLinesInv'
<1>1. ASSUME NEW a \in Assignment, ScipReports(a) \/ GurobiReports(a)
      PROVE  OLinesInv'
  BY <1>1, ReportStep
<1>2. CASE phase' = "reading"
  <2>1. incumbent' = <<>> /\ oLines' = <<>>
    BY <1>2 DEF SearchInv
  <2>2. oLines' \in Seq(Int) /\ Len(oLines') = 0
    BY <2>1
  <2>3. QED  BY <2>1, <2>2 DEF OLinesInv, Improving
<1>3. CASE UNCHANGED <<wrapper, objective, goal, incumbent, oLines>>
  BY <1>3 DEF OLinesInv, SeenAsIs, LargeObjective, GoalValue, Improving
<1>4. \/ phase' = "reading"
      \/ \E a \in Assignment : ScipReports(a) \/ GurobiReports(a)
      \/ UNCHANGED <<wrapper, objective, goal, incumbent, oLines>>
  BY DEF Next, vars, ScipObjective, GurobiObjective, ScipConstraint, GurobiConstraint,
     ReadObjective, ReadConstraint, CanRead, ReadFails, StartSearch, SearchStops, Report,
     Ended, fileVars, modelVars, searchVars, outVars
<1>5. QED  BY <1>1, <1>2, <1>3, <1>4

(* The o lines of both drivers: each one is strictly better than the one   *)
(* before, and the last one is the objective of the best solution, for any *)
(* file but those the property names.                                      *)
THEOREM ObjectiveIsShown == Spec => []ObjectiveShown
<1> DEFINE Inv == TypeOK /\ ModelOfFile /\ SearchInv
<1>1. Init => OLinesInv
  <2> SUFFICES ASSUME Init PROVE OLinesInv
    OBVIOUS
  <2>1. oLines = <<>> /\ objective = <<>>
    BY DEF Init
  <2>2. oLines \in Seq(Int)
    BY <2>1
  <2>3. QED  BY <2>1, <2>2 DEF OLinesInv, SeenAsIs
<1>2. Inv /\ Inv' /\ OLinesInv /\ [Next]_vars => OLinesInv'
  BY OLinesStep
<1>3. Inv /\ OLinesInv => ObjectiveShown
  <2> SUFFICES ASSUME Inv, OLinesInv, SeenAsIs
               PROVE  /\ incumbent # <<>> =>
                           /\ oLines # <<>>
                           /\ oLines[Len(oLines)] = Value(objective[1].expr, incumbent[1])
                      /\ \A i \in 1..(Len(oLines) - 1) :
                           Better(oLines[i + 1], oLines[i], objective[1].minimize)
    BY DEF ObjectiveShown, SeenAsIs, TypeOK
  <2>1. ASSUME incumbent # <<>>
        PROVE  oLines[Len(oLines)] = Value(objective[1].expr, incumbent[1])
    <3>1. PICK b \in Assignment : incumbent = <<b>>
      BY <2>1 DEF TypeOK, AtMostOne
    <3>2. GoalValue(b) = Value(objective[1].expr, b)
      <4>1. wrapper = "scip" => AsWritten(objective[1].expr).constant = 0
        BY GoalIsObjective DEF SeenAsIs
      <4>2. QED  BY <4>1, GoalIsObjective DEF SeenAsIs
    <3>3. QED  BY <2>1, <3>1, <3>2 DEF OLinesInv
  <2>2. QED  BY <2>1 DEF OLinesInv, Improving
<1>4. QED  BY <1>1, <1>2, <1>3, SearchesTheFile, PTL DEF Spec

=============================================================================
