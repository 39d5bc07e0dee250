--------------------------------- MODULE Opb ---------------------------------
(***************************************************************************)
(* The linear pseudo-Boolean problems the three drivers read, what they    *)
(* mean, and the way the drivers represent an expression: parse_expression *)
(* is the same function in pb_scip.cpp, pb_gurobi.py and pb_rc2.py.        *)
(*                                                                         *)
(* An expression gives a coefficient and a sign to each of its variables;  *)
(* a variable occurs once in an expression, as in a normalised file.       *)
(*                                                                         *)
(* A number of the file becomes a double on its way, whatever type it has  *)
(* afterwards: beyond 2^53 it may be another number.                       *)
(***************************************************************************)
EXTENDS Integers, Sequences, FiniteSetsExt

CONSTANTS Var,     \* the names
          Coef,    \* coefficients and right-hand sides that occur
          Rhs,
          MaxTerms, \* bound: variables of an expression
          LastExact \* 2^53: every integer up to it is a double

ASSUME OpbAssumption == /\ IsFiniteSet(Var)
                        /\ Coef \subseteq Int /\ Rhs \subseteq Int /\ MaxTerms \in Nat
                        /\ LastExact \in Nat \ {0}

Literal    == [coef : Coef, negated : BOOLEAN]
Expression == UNION {[S -> Literal] : S \in UNION {kSubset(k, Var) : k \in 1..MaxTerms}}
Constraint == [expr : Expression, rel : {">=", "<=", "="}, rhs : Rhs]
Objective  == [minimize : BOOLEAN, expr : Expression]
Assignment == [Var -> 0..1]

-----------------------------------------------------------------------------
(* The meaning of a file, from the format.                                 *)
Value(expr, a) ==
  SumFunction([v \in DOMAIN expr |->
         expr[v].coef * (IF expr[v].negated THEN 1 - a[v] ELSE a[v])])

Holds(x, rel, y) ==
  \/ rel = ">=" /\ x >= y
  \/ rel = "<=" /\ x <= y
  \/ rel = "="  /\ x = y

Satisfies(a, constraint) == Holds(Value(constraint.expr, a), constraint.rel, constraint.rhs)

Better(x, y, minimize) == IF minimize THEN x < y ELSE x > y

-----------------------------------------------------------------------------
(* The double nearest to n: large doubles lie Spacing apart, and of two    *)
(* that are as near the even one is taken.                                 *)
Magnitude(n) == IF n < 0 THEN - n ELSE n
Exact(n) == Magnitude(n) <= LastExact

Spacing(n) ==
  CHOOSE s \in {2 ^ k : k \in 0..Magnitude(n)} :
    /\ Magnitude(n) <= LastExact * s
    /\ Magnitude(n) > LastExact * (s \div 2)

Double(n) ==
  IF Exact(n) THEN n
  ELSE LET s    == Spacing(n)
           down == n \div s
           rest == n % s
           isUp == 2 * rest > s \/ (2 * rest = s /\ down % 2 = 1)
       IN s * (IF isUp THEN down + 1 ELSE down)

(* A rounded number is a whole one: TLC evaluates this for the numbers of a*)
(* configuration, and proofs use it, as they know nothing of powers.       *)
ASSUME DoubleAssumption == \A n \in Coef \cup Rhs : Double(n) \in Int

(* Mutant: the constant a negated literal leaves behind is forgotten.      *)
ParsedCoefsOnly(expr) ==
  LET number(v) == Double(expr[v].coef)
  IN [coef |-> [v \in DOMAIN expr |-> IF expr[v].negated THEN - number(v) ELSE number(v)],
      constant |-> 0]

(* parse_expression: c ~x becomes c - c x.                                 *)
Parsed(expr) ==
  LET number(v) == Double(expr[v].coef)
  IN [coef |-> [v \in DOMAIN expr |-> IF expr[v].negated THEN - number(v) ELSE number(v)],
      constant |-> SumFunction([v \in DOMAIN expr |->
                                  IF expr[v].negated THEN number(v) ELSE 0])]

(* The value of a parsed expression.                                       *)
ParsedValue(linear, a) ==
  linear.constant + SumFunction([v \in DOMAIN linear.coef |-> linear.coef[v] * a[v]])

(* The coefficients of an expression without their signs, added up.        *)
Size(expr) == SumFunction([v \in DOMAIN expr |-> Magnitude(expr[v].coef)])
=============================================================================
