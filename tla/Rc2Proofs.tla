------------------------------ MODULE Rc2Proofs ------------------------------
(***************************************************************************)
(* Proofs about module Rc2Driver, for every set of names and of            *)
(* coefficients and every number of statements.                            *)
(***************************************************************************)
EXTENDS Rc2Driver, SumTheorems

-----------------------------------------------------------------------------
(* Expressions and their positive form.                                    *)
LEMMA ExpressionParts ==
  ASSUME NEW expr \in Expression
  PROVE  /\ DOMAIN expr \subseteq Var /\ IsFiniteSet(DOMAIN expr)
         /\ \A v \in DOMAIN expr : expr[v].coef \in Int /\ expr[v].negated \in BOOLEAN
<1>1. PICK S \in SUBSET Var : expr \in [S -> Literal]
  BY DEF Expression, kSubset
<1>2. IsFiniteSet(S)
  BY OpbAssumption, FS_Subset
<1>3. QED  BY <1>1, <1>2, OpbAssumption DEF Literal

LEMMA NumbersRead ==
  ASSUME NEW expr \in Expression
  PROVE  \A v \in DOMAIN expr : Double(expr[v].coef) \in Int
<1>1. PICK S \in SUBSET Var : expr \in [S -> Literal]
  BY DEF Expression, kSubset
<1>2. \A v \in DOMAIN expr : expr[v].coef \in Coef
  BY <1>1 DEF Literal
<1>3. QED  BY <1>2, DoubleAssumption

(* What an expression and a constraint mean with the numbers read, which   *)
(* are those of the file unless a number of it was rounded.                *)
ReadTerms(expr, a) ==
  [v \in DOMAIN expr |-> Double(expr[v].coef) * (IF expr[v].negated THEN 1 - a[v] ELSE a[v])]
ReadValue(expr, a) == SumFunction(ReadTerms(expr, a))
ReadSatisfies(a, c) == Holds(ReadValue(c.expr, a), c.rel, Double(c.rhs))

AsWritten(expr) == \A v \in DOMAIN expr : Double(expr[v].coef) = expr[v].coef

LEMMA WrittenValue ==
  ASSUME NEW expr, AsWritten(expr), NEW a
  PROVE  ReadValue(expr, a) = Value(expr, a)
<1>1. ReadTerms(expr, a)
        = [v \in DOMAIN expr |-> expr[v].coef * (IF expr[v].negated THEN 1 - a[v] ELSE a[v])]
  BY DEF AsWritten, ReadTerms
<1>2. QED  BY <1>1, Zenon DEF ReadValue, Value

(* Only the names of an expression matter to its value.                    *)
LEMMA ValueIsLocal ==
  ASSUME NEW expr \in Expression, NEW a \in Assignment, NEW b \in Assignment,
         \A v \in DOMAIN expr : a[v] = b[v]
  PROVE  ReadValue(expr, a) = ReadValue(expr, b)
<1>1. ReadTerms(expr, a) = ReadTerms(expr, b)
  BY DEF ReadTerms
<1>2. QED  BY <1>1 DEF ReadValue

(* What a literal with a positive weight counts.                           *)
Counts(c, x) == IF c >= 0 THEN c * x ELSE (- c) * (1 - x)

Splits(k, negated, x, c) ==
  /\ c * x \in Int /\ Counts(c, x) \in Int
  /\ k * (IF negated THEN 1 - x ELSE x) \in Int
  /\ k * (IF negated THEN 1 - x ELSE x) = (IF negated THEN k ELSE 0) + c * x
  /\ c * x = (IF c < 0 THEN c ELSE 0) + Counts(c, x)

LEMMA OneTerm ==
  ASSUME NEW k \in Int, NEW negated \in BOOLEAN, NEW x \in 0..1,
         NEW c, c = IF negated THEN - k ELSE k
  PROVE  Splits(k, negated, x, c)
<1>1. CASE x = 0
  BY <1>1 DEF Counts, Splits
<1>2. CASE x = 1
  BY <1>2 DEF Counts, Splits
<1>3. QED  BY <1>1, <1>2

(* The terms of the positive form: c x is c + |c| ~x when c is negative.   *)
Coefs(expr) == Parsed(expr).coef
PositiveTerms(expr, a) == [v \in DOMAIN expr |-> Counts(Coefs(expr)[v], a[v])]

LEMMA CoefsType ==
  ASSUME NEW expr \in Expression
  PROVE  /\ DOMAIN Coefs(expr) = DOMAIN expr
         /\ \A v \in DOMAIN expr :
              /\ Coefs(expr)[v] \in Int
              /\ Coefs(expr)[v] = IF expr[v].negated THEN - Double(expr[v].coef)
                                  ELSE Double(expr[v].coef)
BY NumbersRead DEF Coefs, Parsed

LEMMA PositiveForm ==
  ASSUME NEW expr \in Expression, NEW a \in Assignment
  PROVE  /\ TotalConstant(Parsed(expr)) \in Int /\ Parsed(expr).constant \in Int
         /\ ReadValue(expr, a) \in Int
         /\ ReadValue(expr, a) = TotalConstant(Parsed(expr))
                               + SumFunctionOnSet(PositiveTerms(expr, a), DOMAIN expr)
         /\ ParsedValue(Parsed(expr), a) = ReadValue(expr, a)
<1> DEFINE D == DOMAIN expr
           c == Coefs(expr)
           f == ReadTerms(expr, a)
           g == [v \in D |-> IF expr[v].negated THEN Double(expr[v].coef) ELSE 0]
           h == [v \in D |-> c[v] * a[v]]
           n == [v \in D |-> IF c[v] < 0 THEN c[v] ELSE 0]
           w == PositiveTerms(expr, a)
<1>1. /\ IsFiniteSet(D) /\ DOMAIN f = D /\ DOMAIN g = D /\ DOMAIN h = D /\ DOMAIN n = D
      /\ DOMAIN c = D /\ DOMAIN w = D
  BY ExpressionParts, CoefsType DEF PositiveTerms, ReadTerms
<1>2. ASSUME NEW v \in D
      PROVE  /\ f[v] \in Int /\ g[v] \in Int /\ h[v] \in Int /\ n[v] \in Int /\ w[v] \in Int
             /\ f[v] = g[v] + h[v] /\ h[v] = n[v] + w[v]
  <2> DEFINE k == Double(expr[v].coef)
             s == expr[v].negated
  <2>1. k \in Int /\ s \in BOOLEAN /\ v \in Var
        /\ c[v] \in Int /\ c[v] = IF s THEN - k ELSE k
    BY ExpressionParts, NumbersRead, CoefsType
  <2>2. a[v] \in 0..1
    BY <2>1 DEF Assignment
  <2>3. w[v] = Counts(c[v], a[v])
    BY DEF PositiveTerms
  <2>4. /\ f[v] = k * (IF s THEN 1 - a[v] ELSE a[v])
        /\ g[v] = IF s THEN k ELSE 0
        /\ h[v] = c[v] * a[v]
        /\ n[v] = IF c[v] < 0 THEN c[v] ELSE 0
    BY DEF ReadTerms
  <2> HIDE DEF c, f, g, h, n, w, k, s
  <2>6. Splits(k, s, a[v], c[v])
    BY <2>1, <2>2, OneTerm
  <2>7. QED  BY <2>1, <2>3, <2>4, <2>6 DEF Splits
<1>3. /\ ReadValue(expr, a) = SumFunction(f)
      /\ Parsed(expr).constant = SumFunction(g)
      /\ ParsedValue(Parsed(expr), a) = Parsed(expr).constant + SumFunction(h)
      /\ TotalConstant(Parsed(expr)) = Parsed(expr).constant + SumFunction(n)
  <2>1. DOMAIN Parsed(expr).coef = D
    BY <1>1 DEF Coefs
  <2>2. [v \in DOMAIN Parsed(expr).coef |-> Parsed(expr).coef[v] * a[v]] = h
    BY <2>1 DEF Coefs
  <2>3. [v \in DOMAIN Parsed(expr).coef |->
           IF Parsed(expr).coef[v] < 0 THEN Parsed(expr).coef[v] ELSE 0] = n
    BY <2>1 DEF Coefs
  <2>4. ReadValue(expr, a) = SumFunction(f)
    BY DEF ReadValue
  <2>5. Parsed(expr).constant = SumFunction(g)
    BY DEF Parsed
  <2> HIDE DEF f, g, h, n
  <2>6. QED  BY <2>2, <2>3, <2>4, <2>5, Zenon DEF ParsedValue, TotalConstant
<1> HIDE DEF D, f, g, h, n, w
<1>4. /\ SumFunction(f) = SumFunctionOnSet(f, D)
      /\ SumFunction(g) = SumFunctionOnSet(g, D)
      /\ SumFunction(h) = SumFunctionOnSet(h, D)
      /\ SumFunction(n) = SumFunctionOnSet(n, D)
  BY <1>1 DEF SumFunction
<1>5. /\ SumFunctionOnSet(f, D) = SumFunctionOnSet(g, D) + SumFunctionOnSet(h, D)
      /\ SumFunctionOnSet(h, D) = SumFunctionOnSet(n, D) + SumFunctionOnSet(w, D)
  BY <1>1, <1>2, SumPlus
<1>6. /\ SumFunctionOnSet(f, D) \in Int /\ SumFunctionOnSet(g, D) \in Int
      /\ SumFunctionOnSet(n, D) \in Int /\ SumFunctionOnSet(w, D) \in Int
  BY <1>1, <1>2, SumIsInt
<1>7. QED  BY <1>3, <1>4, <1>5, <1>6 DEF w, D

-----------------------------------------------------------------------------
(* Numbers of names.                                                       *)
Injective(f) == \A v, u \in DOMAIN f : f[v] = f[u] => v = u

(* The model m gives the names of the expression the values of a.          *)
Agree(f, expr, m, a) ==
  \A v \in DOMAIN expr : a[v] = IF f[v] \in m THEN 1 ELSE 0

LEMMA NameOfNumber ==
  ASSUME NEW f, Injective(f), NEW v \in DOMAIN f
  PROVE  NameOf(f, f[v]) = v
BY DEF Injective, NameOf

(* A sum over the numbers of the names is the sum over the names.          *)
LEMMA SumOverNumbers ==
  ASSUME NEW expr \in Expression, NEW f, Injective(f), DOMAIN expr \subseteq DOMAIN f,
         NEW g, DOMAIN g = {f[v] : v \in DOMAIN expr},
         NEW h, \A v \in DOMAIN expr : h[v] \in Int /\ g[f[v]] = h[v]
  PROVE  SumFunction(g) = SumFunctionOnSet(h, DOMAIN expr)
<1>1. IsFiniteSet(DOMAIN expr)
  BY ExpressionParts
<1>2. \A v, u \in DOMAIN expr : f[v] = f[u] => v = u
  BY DEF Injective
<1>3. SumFunctionOnSet(g, {f[v] : v \in DOMAIN expr}) = SumFunctionOnSet(h, DOMAIN expr)
  BY <1>1, <1>2, SumRenamed
<1>4. SumFunction(g) = SumFunctionOnSet(g, DOMAIN g)
  BY DEF SumFunction
<1>5. QED  BY <1>3, <1>4

(* The literals a constraint or the objective is turned into weigh what    *)
(* the positive form counts.                                               *)
LEMMA LitsOfNames ==
  ASSUME NEW expr \in Expression, NEW f, Injective(f), DOMAIN expr \subseteq DOMAIN f
  PROVE  /\ DOMAIN Lits(Coefs(expr), f) = {f[v] : v \in DOMAIN expr}
         /\ \A v \in DOMAIN expr :
              LET l == Lits(Coefs(expr), f)[f[v]]
                  c == Coefs(expr)[v]
              IN l.positive = (c >= 0) /\ l.weight = IF c >= 0 THEN c ELSE - c
<1>1. DOMAIN Coefs(expr) = DOMAIN expr
  BY CoefsType
<1>2. ASSUME NEW v \in DOMAIN expr
      PROVE  NameOf(f, f[v]) = v /\ f[v] \in {f[u] : u \in DOMAIN expr}
  BY NameOfNumber
<1>3. QED  BY <1>1, <1>2 DEF Lits

LEMMA WeightOfTerm ==
  ASSUME NEW c \in Int, NEW x \in 0..1, NEW true \in BOOLEAN, x = IF true THEN 1 ELSE 0
  PROVE  (IF true = (c >= 0) THEN (IF c >= 0 THEN c ELSE - c) ELSE 0) = Counts(c, x)
<1>1. CASE c >= 0
  BY <1>1 DEF Counts
<1>2. CASE ~ (c >= 0)
  BY <1>2 DEF Counts
<1>3. QED  BY <1>1, <1>2

LEMMA WeightIsPositiveForm ==
  ASSUME NEW expr \in Expression, NEW f, Injective(f), DOMAIN expr \subseteq DOMAIN f,
         NEW m, NEW a \in Assignment, Agree(f, expr, m, a)
  PROVE  /\ Weight(Lits(Coefs(expr), f), m)
              = SumFunctionOnSet(PositiveTerms(expr, a), DOMAIN expr)
         /\ Weight(Lits(Coefs(expr), f), m) \in Int
         /\ 0 <= Weight(Lits(Coefs(expr), f), m)
         /\ Weight(Lits(Coefs(expr), f), m) <= Total(Lits(Coefs(expr), f))
         /\ Total(Lits(Coefs(expr), f)) \in Int
<1> DEFINE D == DOMAIN expr
           c == Coefs(expr)
           lits == Lits(c, f)
           w == [id \in DOMAIN lits |->
                   IF (id \in m) = lits[id].positive THEN lits[id].weight ELSE 0]
           t == [id \in DOMAIN lits |-> lits[id].weight]
           h == PositiveTerms(expr, a)
           abs == [v \in D |-> IF c[v] >= 0 THEN c[v] ELSE - c[v]]
           none == [v \in D |-> 0]
<1>1. /\ DOMAIN lits = {f[v] : v \in D} /\ DOMAIN w = {f[v] : v \in D}
      /\ DOMAIN t = {f[v] : v \in D}
  BY LitsOfNames
<1>2. ASSUME NEW v \in D
      PROVE  /\ c[v] \in Int /\ a[v] \in 0..1
             /\ lits[f[v]].positive = (c[v] >= 0)
             /\ lits[f[v]].weight = abs[v]
             /\ f[v] \in DOMAIN lits
             /\ h[v] = Counts(c[v], a[v])
             /\ a[v] = IF f[v] \in m THEN 1 ELSE 0
  <2>1. c[v] \in Int /\ a[v] \in 0..1
    BY CoefsType, ExpressionParts DEF Assignment
  <2>2. lits[f[v]].positive = (c[v] >= 0) /\ lits[f[v]].weight = abs[v]
    BY LitsOfNames
  <2>3. h[v] = Counts(c[v], a[v])
    BY DEF PositiveTerms
  <2>4. QED  BY <1>1, <2>1, <2>2, <2>3 DEF Agree
<1>3. ASSUME NEW v \in D
      PROVE  /\ w[f[v]] = h[v] /\ t[f[v]] = abs[v]
             /\ h[v] \in Int /\ abs[v] \in Int /\ none[v] \in Int
             /\ none[v] <= h[v] /\ h[v] <= abs[v]
  <2> DEFINE true == f[v] \in m
  <2>1. w[f[v]] = IF true = (c[v] >= 0) THEN (IF c[v] >= 0 THEN c[v] ELSE - c[v]) ELSE 0
    BY <1>2
  <2>2. t[f[v]] = abs[v] /\ abs[v] = (IF c[v] >= 0 THEN c[v] ELSE - c[v]) /\ none[v] = 0
    BY <1>2
  <2>3. c[v] \in Int /\ a[v] \in 0..1 /\ true \in BOOLEAN
        /\ a[v] = (IF true THEN 1 ELSE 0) /\ h[v] = Counts(c[v], a[v])
    BY <1>2
  <2> HIDE DEF D, c, lits, w, t, h, abs, none, true
  <2>4. w[f[v]] = h[v]
    BY <2>1, <2>3, WeightOfTerm
  <2>5. a[v] = 0 \/ a[v] = 1
    BY <2>3
  <2>6. h[v] \in Int /\ abs[v] \in Int /\ 0 <= h[v] /\ h[v] <= abs[v]
    <3>1. CASE a[v] = 0
      BY <2>2, <2>3, <3>1 DEF Counts
    <3>2. CASE a[v] = 1
      BY <2>2, <2>3, <3>2 DEF Counts
    <3>3. QED  BY <2>5, <3>1, <3>2
  <2>7. QED  BY <2>2, <2>4, <2>6
<1>4. Weight(lits, m) = SumFunction(w) /\ Total(lits) = SumFunction(t)
  BY DEF Weight, Total
<1>5. IsFiniteSet(D)
  BY ExpressionParts
<1>6. \A v \in D : none[v] = 0
  OBVIOUS
<1> HIDE DEF c, lits, w, t, h, abs, none
<1>7. SumFunction(w) = SumFunctionOnSet(h, D)
  BY <1>1, <1>3, SumOverNumbers
<1>8. SumFunction(t) = SumFunctionOnSet(abs, D)
  BY <1>1, <1>3, SumOverNumbers
<1>9. /\ SumFunctionOnSet(none, D) <= SumFunctionOnSet(h, D)
      /\ SumFunctionOnSet(h, D) <= SumFunctionOnSet(abs, D)
      /\ SumFunctionOnSet(none, D) = 0
  BY <1>3, <1>5, <1>6, SumMonotone, SumZero
<1>10. SumFunctionOnSet(h, D) \in Int /\ SumFunctionOnSet(abs, D) \in Int
  BY <1>3, <1>5, SumIsInt
<1>11. QED
  BY <1>4, <1>7, <1>8, <1>9, <1>10 DEF c, lits, h

-----------------------------------------------------------------------------
(* Encodings.                                                              *)
LitSet == UNION {[S -> [positive : BOOLEAN, weight : Int]] : S \in SUBSET (Nat \ {0})}
Encoding == [rel : {"atleast", "atmost"}, lits : LitSet, bound : Int, of : Nat, aux : Nat]

LEMMA MaxOfTwo ==
  ASSUME NEW x \in Int, NEW y \in Int
  PROVE  Max({x, y}) \in {x, y} /\ Max({x, y}) >= x /\ Max({x, y}) >= y
<1>1. \E z \in {x, y} : \A u \in {x, y} : z >= u
  <2>1. CASE x >= y
    BY <2>1
  <2>2. CASE ~ (x >= y)
    BY <2>2
  <2>3. QED  BY <2>1, <2>2
<1>2. Max({x, y}) \in {x, y} /\ \A u \in {x, y} : Max({x, y}) >= u
  BY <1>1 DEF Max
<1>3. QED  BY <1>2

(* The encoder starts at the next number, or after it.                     *)
LEMMA StartsLate ==
  ASSUME NEW lits \in LitSet, IsFiniteSet(DOMAIN lits), NEW next \in Nat \ {0},
         NEW aux \in Starts(lits, next)
  PROVE  aux \in Nat \ {0} /\ next <= aux
<1> DEFINE S == DOMAIN lits \cup {next - 1}
<1>1. DOMAIN lits \subseteq Nat \ {0}
  BY DEF LitSet
<1>2. S \in SUBSET Int /\ IsFiniteSet(S) /\ S # {}
  BY <1>1, FS_AddElement
<1>3. aux = next \/ aux = Max(S) + 1
  BY DEF Starts
<1>4. next - 1 \in S
  OBVIOUS
<1> HIDE DEF S
<1>5. \E x \in S : \A y \in S : x >= y
  BY <1>2, GreatestElement
<1>6. Max(S) \in S /\ \A y \in S : Max(S) >= y
  BY <1>5 DEF Max
<1>7. Max(S) \in Int /\ Max(S) >= next - 1
  BY <1>2, <1>4, <1>6
<1>8. QED  BY <1>3, <1>7

(* An encoding, and the number add_encoding returns with it.               *)
EncodingOf(e, rel, lits, bound) ==
  /\ e \in Encoding
  /\ e.rel = rel /\ e.lits = lits /\ e.bound = bound
  /\ e.of \in {0} \cup DOMAIN lits
  /\ ((e.aux = 0) <=> (e.of = 0))

LEMMA EncodingParts ==
  ASSUME NEW lits \in LitSet, IsFiniteSet(DOMAIN lits), NEW next \in Nat \ {0},
         NEW rel \in {"atleast", "atmost"}, NEW bound \in Int,
         NEW x \in Encodings(rel, lits, bound, next)
  PROVE  /\ x.next \in Nat \ {0}
         /\ \E e : /\ x.new = <<e>> /\ EncodingOf(e, rel, lits, bound)
                   /\ e.aux # 0 => next <= e.aux /\ e.aux < x.next
<1> DEFINE Made(y) == [rel |-> rel, lits |-> lits, bound |-> bound, of |-> y.of, aux |-> y.aux]
<1>1. PICK y \in Auxiliaries(lits, next) : \E nv \in LastNumbers(lits, y.aux) :
        x = [new |-> <<Made(y)>>, next |-> Advanced(nv, next)]
  BY Zenon DEF Encodings
<1>2. PICK nv \in LastNumbers(lits, y.aux) :
        x = [new |-> <<Made(y)>>, next |-> Advanced(nv, next)]
  BY <1>1
<1>3. DOMAIN lits \subseteq Nat \ {0}
  BY DEF LitSet
<1>4. \/ y.of = 0 /\ y.aux = 0
      \/ y.of \in DOMAIN lits /\ y.aux \in Starts(lits, next)
  BY DEF Auxiliaries
<1>5. \/ y.of = 0 /\ y.aux = 0
      \/ y.of \in DOMAIN lits /\ y.aux \in Nat \ {0} /\ next <= y.aux
  BY <1>4, StartsLate
<1>6. nv \in Nat \ {0} /\ nv >= y.aux
  BY <1>3, <1>5 DEF LastNumbers
<1>7. x.next = nv + 1 /\ x.new = <<Made(y)>>
  BY <1>2 DEF Advanced
<1>8. EncodingOf(Made(y), rel, lits, bound) /\ Made(y).aux = y.aux
  BY <1>3, <1>5 DEF EncodingOf, Encoding
<1> HIDE DEF Made
<1>9. y.aux # 0 => next <= y.aux /\ y.aux < x.next
  BY <1>5, <1>6, <1>7
<1>10. QED  BY <1>6, <1>7, <1>8, <1>9

(* The numbers of the auxiliaries ascend in h, and the next number is above*)
(* that of the last one, as long as no encoding without one came between.  *)
Unbroken(h, i, j) == \A k \in i..j : h[k].aux # 0
Ascending(h, next) ==
  /\ \A i, j \in DOMAIN h : i < j /\ Unbroken(h, i, j) => h[i].aux < h[j].aux
  /\ \A i \in DOMAIN h : Unbroken(h, i, Len(h)) => h[i].aux < next

LEMMA AscendingAbove ==
  ASSUME NEW h \in Seq(Encoding), NEW next \in Nat, NEW above \in Nat, next <= above,
         Ascending(h, next)
  PROVE  Ascending(h, above)
<1>1. \A i \in DOMAIN h : h[i] \in Encoding
  OBVIOUS
<1>2. \A i \in DOMAIN h : h[i].aux \in Nat
  BY <1>1 DEF Encoding
<1>3. \A i \in DOMAIN h : h[i].aux < next => h[i].aux < above
  BY <1>2
<1>4. QED  BY <1>3 DEF Ascending

LEMMA AppendAscends ==
  ASSUME NEW h \in Seq(Encoding), NEW e \in Encoding,
         NEW next \in Nat \ {0}, NEW above \in Nat \ {0}, Ascending(h, next),
         e.aux # 0 => next <= e.aux /\ e.aux < above
  PROVE  Ascending(Append(h, e), above)
<1> DEFINE g == Append(h, e)
           n == Len(h) + 1
<1>1. /\ DOMAIN g = DOMAIN h \cup {n} /\ g[n] = e /\ Len(g) = n /\ n \in Nat
      /\ DOMAIN h = 1..Len(h) /\ Len(h) \in Nat
      /\ \A i \in DOMAIN h : g[i] = h[i] /\ h[i] \in Encoding
  OBVIOUS
<1> HIDE DEF g, n
<1>2. ASSUME NEW i \in DOMAIN h, Unbroken(g, i, n)
      PROVE  h[i].aux < next /\ e.aux # 0
  <2>1. i \in Int /\ i <= Len(h) /\ n = Len(h) + 1
    BY <1>1 DEF n
  <2>2. e.aux # 0
    BY <1>1, <1>2, <2>1 DEF Unbroken
  <2>3. ASSUME NEW k \in i..Len(h) PROVE h[k].aux # 0
    <3>1. k \in DOMAIN h /\ k \in i..n
      BY <1>1, <2>1
    <3>2. QED  BY <1>1, <1>2, <3>1 DEF Unbroken
  <2>4. Unbroken(h, i, Len(h))
    BY <2>3 DEF Unbroken
  <2>5. QED  BY <2>2, <2>4 DEF Ascending
<1>3. ASSUME NEW i \in DOMAIN g, NEW j \in DOMAIN g, i < j, Unbroken(g, i, j)
      PROVE  g[i].aux < g[j].aux
  <2>1. i \in DOMAIN h
    BY <1>1, <1>3 DEF n
  <2>2. CASE j = n
    <3>1. h[i].aux < next /\ e.aux # 0
      BY <1>2, <1>3, <2>1, <2>2
    <3>2. h[i].aux \in Nat /\ e.aux \in Nat
      BY <1>1, <2>1 DEF Encoding
    <3>3. h[i].aux < e.aux
      BY <3>1, <3>2
    <3>4. QED  BY <1>1, <2>1, <2>2, <3>3
  <2>3. CASE j \in DOMAIN h
    <3>1. \A k \in i..j : k \in DOMAIN h
      BY <1>1, <2>1, <2>3
    <3>2. Unbroken(h, i, j)
      BY <1>1, <1>3, <3>1 DEF Unbroken
    <3>3. QED  BY <1>1, <1>3, <2>1, <2>3, <3>2 DEF Ascending
  <2>4. QED  BY <1>1, <2>2, <2>3
<1>4. ASSUME NEW i \in DOMAIN g, Unbroken(g, i, n)
      PROVE  g[i].aux < above
  <2>1. CASE i = n
    <3>1. e.aux # 0
      BY <1>1, <1>4, <2>1 DEF Unbroken
    <3>2. QED  BY <1>1, <2>1, <3>1
  <2>2. CASE i \in DOMAIN h
    <3>1. h[i].aux < next /\ e.aux # 0 /\ h[i].aux \in Nat /\ e.aux \in Nat
      BY <1>1, <1>2, <1>4, <2>2 DEF Encoding
    <3>2. h[i].aux < above
      BY <3>1
    <3>3. QED  BY <1>1, <2>2, <3>2
  <2>3. QED  BY <1>1, <2>1, <2>2
<1>5. QED  BY <1>1, <1>3, <1>4 DEF Ascending, g

-----------------------------------------------------------------------------
(* Types.                                                                  *)
Phases ==
  {"reading", "objective", "constraints", "solving", "o", "s", "v", "return", "ended", "failed"}
Statuses == {"UNSATISFIABLE", "UNKNOWN", "OPTIMUM FOUND", "SATISFIABLE"}

FileOK ==
  /\ objective \in Seq(Objective) /\ Len(objective) <= 1
  /\ constraints \in Seq(Constraint)
  /\ added \in Nat /\ added <= Len(constraints)

TypeOK ==
  /\ FileOK
  /\ phase \in Phases
  /\ DOMAIN name_to_id \subseteq Var /\ Injective(name_to_id)
  /\ next_var \in Nat \ {0}
  /\ hard \in Seq(Encoding)
  /\ conflict \in BOOLEAN
  /\ sLines \in Seq(Statuses)

(* What add_pb_constraint makes of a constraint.                           *)
Current == constraints[added + 1]
BoundOf(c) == Double(c.rhs) - TotalConstant(Parsed(c.expr))
LitsOf(c, f) == Lits(Coefs(c.expr), f)
Least(c, f) ==
  c.rel \in {">=", "="} /\ BoundOf(c) > 0 /\ BoundOf(c) <= Total(LitsOf(c, f))
Most(c, f) ==
  c.rel \in {"<=", "="} /\ BoundOf(c) >= 0 /\ BoundOf(c) < Total(LitsOf(c, f))
Impossible(c, f) ==
  \/ c.rel \in {">=", "="} /\ BoundOf(c) > Total(LitsOf(c, f))
  \/ c.rel \in {"<=", "="} /\ BoundOf(c) < 0

(* One of its two encodings: h becomes g and the next number nv becomes nw.*)
Encodes(needed, rel, c, f, h, nv, g, nw) ==
  \E x \in AddEncoding(needed, rel, LitsOf(c, f), BoundOf(c), nv) :
    g = h \o x.new /\ nw = x.next

Becomes(f, h, nv, nw) ==
  /\ Encodes(Least(Current, f), "atleast", Current, f, hard, next_var, h, nv)
  /\ Encodes(Most(Current, f), "atmost", Current, f, h, nv, hard', nw)
  /\ name_to_id' = f
  /\ conflict' = (conflict \/ Impossible(Current, f))
  /\ next_var' = Max({nw, Cardinality(DOMAIN f) + 1})

LEMMA ConstraintAdded ==
  ASSUME AddConstraint
  PROVE  \E f \in Numberings(DOMAIN Current.expr) : \E h, nv, nw : Becomes(f, h, nv, nw)
<1> DEFINE c == Current
<1>1. PICK f \in Numberings(DOMAIN c.expr) :
        \E one \in AddEncoding(Least(c, f), "atleast", LitsOf(c, f), BoundOf(c), next_var) :
          \E two \in AddEncoding(Most(c, f), "atmost", LitsOf(c, f), BoundOf(c), one.next) :
            /\ name_to_id' = f
            /\ hard' = hard \o one.new \o two.new
            /\ conflict' = (conflict \/ Impossible(c, f))
            /\ next_var' = Max({two.next, Cardinality(DOMAIN f) + 1})
  BY Zenon DEF AddConstraint, Current, BoundOf, LitsOf, Least, Most, Impossible, Coefs
<1>2. PICK one \in AddEncoding(Least(c, f), "atleast", LitsOf(c, f), BoundOf(c), next_var) :
          \E two \in AddEncoding(Most(c, f), "atmost", LitsOf(c, f), BoundOf(c), one.next) :
            /\ name_to_id' = f
            /\ hard' = hard \o one.new \o two.new
            /\ conflict' = (conflict \/ Impossible(c, f))
            /\ next_var' = Max({two.next, Cardinality(DOMAIN f) + 1})
  BY <1>1, Zenon
<1>3. PICK two \in AddEncoding(Most(c, f), "atmost", LitsOf(c, f), BoundOf(c), one.next) :
            /\ name_to_id' = f
            /\ hard' = hard \o one.new \o two.new
            /\ conflict' = (conflict \/ Impossible(c, f))
            /\ next_var' = Max({two.next, Cardinality(DOMAIN f) + 1})
  BY <1>2, Zenon
<1>4. /\ Encodes(Least(c, f), "atleast", c, f, hard, next_var, hard \o one.new, one.next)
      /\ Encodes(Most(c, f), "atmost", c, f, hard \o one.new, one.next, hard', two.next)
  BY <1>3, Zenon DEF Encodes
<1>5. Becomes(f, hard \o one.new, one.next, two.next)
  BY <1>3, <1>4, Zenon DEF Becomes
<1>6. QED  BY <1>5, Zenon

(* The auxiliary of an encoding stands for one of its literals, and the    *)
(* literals are those of names.                                            *)
Linked(h, f) ==
  \A i \in DOMAIN h :
    /\ h[i].of \in {0} \cup DOMAIN h[i].lits
    /\ ((h[i].aux = 0) <=> (h[i].of = 0))
    /\ DOMAIN h[i].lits \subseteq {f[v] : v \in DOMAIN f}

LEMMA NumberingsExtend ==
  ASSUME DOMAIN name_to_id \subseteq Var, NEW names \in SUBSET Var,
         NEW f \in Numberings(names)
  PROVE  /\ DOMAIN f = DOMAIN name_to_id \cup names /\ DOMAIN f \subseteq Var
         /\ IsFiniteSet(DOMAIN f) /\ Cardinality(DOMAIN f) \in Nat
         /\ Injective(f)
         /\ \A v \in DOMAIN f : f[v] \in 1..Cardinality(DOMAIN f)
         /\ \A v \in DOMAIN name_to_id : f[v] = name_to_id[v]
<1>1. DOMAIN f = DOMAIN name_to_id \cup names /\ DOMAIN f \subseteq Var
  BY DEF Numberings
<1>2. IsFiniteSet(DOMAIN f) /\ Cardinality(DOMAIN f) \in Nat
  BY <1>1, OpbAssumption, FS_Subset, FS_CardinalityType
<1>3. QED  BY <1>1, <1>2 DEF Numberings, Injective

LEMMA LitsType ==
  ASSUME NEW c \in Constraint, NEW f, Injective(f), DOMAIN c.expr \subseteq DOMAIN f,
         \A v \in DOMAIN f : f[v] \in Nat \ {0}
  PROVE  /\ LitsOf(c, f) \in LitSet /\ IsFiniteSet(DOMAIN LitsOf(c, f))
         /\ DOMAIN LitsOf(c, f) \subseteq {f[v] : v \in DOMAIN f}
         /\ BoundOf(c) \in Int
<1> DEFINE S == {f[v] : v \in DOMAIN c.expr}
           coef == Coefs(c.expr)
<1>1. c.expr \in Expression /\ Double(c.rhs) \in Int
  BY DoubleAssumption DEF Constraint
<1>2. DOMAIN coef = DOMAIN c.expr /\ \A v \in DOMAIN c.expr : coef[v] \in Int
  BY <1>1, CoefsType
<1>3. S \in SUBSET (Nat \ {0}) /\ S \subseteq {f[v] : v \in DOMAIN f} /\ IsFiniteSet(S)
  BY <1>1, ExpressionParts, ImageFinite
<1>4. LitsOf(c, f) \in [S -> [positive : BOOLEAN, weight : Int]]
  <2> SUFFICES ASSUME NEW id \in S PROVE coef[NameOf(f, id)] \in Int
    BY <1>2 DEF LitsOf, Lits
  <2>1. PICK v \in DOMAIN c.expr : id = f[v]
    OBVIOUS
  <2>2. NameOf(f, id) = v
    BY <2>1, NameOfNumber
  <2>3. QED  BY <1>2, <2>2
<1>5. BoundOf(c) \in Int
  <2>1. PICK a \in Assignment : TRUE
    <3>1. [v \in Var |-> 0] \in Assignment
      BY DEF Assignment
    <3>2. QED  BY <3>1
  <2>2. TotalConstant(Parsed(c.expr)) \in Int
    BY <1>1, PositiveForm
  <2>3. QED  BY <1>1, <2>2 DEF BoundOf
<1>6. QED  BY <1>3, <1>4, <1>5 DEF LitSet

(* The numbering f of names, with the names of the constraint c among them.*)
Numbers(f, c) ==
  /\ Injective(f) /\ DOMAIN c.expr \subseteq DOMAIN f
  /\ \A v \in DOMAIN f : f[v] \in Nat \ {0}

(* An encoding is added at the end, if one is needed.                      *)
AddsOne(rel, lits, bound, h, nv, g, nw) ==
  /\ nw \in Nat \ {0}
  /\ \E e : /\ g = Append(h, e)
            /\ EncodingOf(e, rel, lits, bound)
            /\ e.aux # 0 => nv <= e.aux /\ e.aux < nw

LEMMA EncodesOne ==
  ASSUME NEW c \in Constraint, NEW f, Numbers(f, c),
         NEW h \in Seq(Encoding), NEW nv \in Nat \ {0},
         NEW needed, NEW rel \in {"atleast", "atmost"}, NEW g, NEW nw,
         Encodes(needed, rel, c, f, h, nv, g, nw)
  PROVE  \/ ~ needed /\ g = h /\ nw = nv
         \/ needed /\ AddsOne(rel, LitsOf(c, f), BoundOf(c), h, nv, g, nw)
<1> DEFINE lits == LitsOf(c, f)
           bound == BoundOf(c)
<1>1. PICK x \in AddEncoding(needed, rel, lits, bound, nv) : g = h \o x.new /\ nw = x.next
  BY Zenon DEF Encodes
<1>2. lits \in LitSet /\ IsFiniteSet(DOMAIN lits) /\ bound \in Int
  BY LitsType DEF Numbers
<1> HIDE DEF lits, bound
<1>3. CASE ~ needed
  <2>1. x = [new |-> <<>>, next |-> nv]
    BY <1>3 DEF AddEncoding
  <2>2. h \o <<>> = h
    OBVIOUS
  <2>3. QED  BY <1>1, <1>3, <2>1, <2>2
<1>4. CASE needed
  <2>1. x \in Encodings(rel, lits, bound, nv)
    BY <1>4 DEF AddEncoding
  <2>2. /\ x.next \in Nat \ {0}
        /\ \E e : /\ x.new = <<e>> /\ EncodingOf(e, rel, lits, bound)
                  /\ e.aux # 0 => nv <= e.aux /\ e.aux < x.next
    BY <1>2, <2>1, EncodingParts
  <2>3. PICK e : /\ x.new = <<e>> /\ EncodingOf(e, rel, lits, bound)
                 /\ e.aux # 0 => nv <= e.aux /\ e.aux < x.next
    BY <2>2
  <2>4. e \in Encoding
    BY <2>3 DEF EncodingOf
  <2>5. h \o <<e>> = Append(h, e)
    BY <2>4
  <2>6. g = Append(h, e) /\ nw = x.next
    BY <1>1, <2>3, <2>5
  <2>7. e.aux # 0 => nv <= e.aux /\ e.aux < nw
    BY <2>3, <2>6
  <2>8. QED  BY <1>1, <1>4, <2>2, <2>3, <2>6, <2>7 DEF AddsOne, lits, bound
<1>5. QED  BY <1>3, <1>4

LEMMA EncodesNumbers ==
  ASSUME NEW c \in Constraint, NEW f, Numbers(f, c),
         NEW h \in Seq(Encoding), NEW nv \in Nat \ {0}, Ascending(h, nv), Linked(h, f),
         NEW needed, NEW rel \in {"atleast", "atmost"}, NEW g, NEW nw,
         Encodes(needed, rel, c, f, h, nv, g, nw)
  PROVE  /\ g \in Seq(Encoding) /\ nw \in Nat \ {0}
         /\ Ascending(g, nw) /\ Linked(g, f)
<1>1. CASE ~ needed
  BY <1>1, EncodesOne
<1>2. CASE needed
  <2>1. AddsOne(rel, LitsOf(c, f), BoundOf(c), h, nv, g, nw)
    <3>1. \/ ~ needed /\ g = h /\ nw = nv
          \/ needed /\ AddsOne(rel, LitsOf(c, f), BoundOf(c), h, nv, g, nw)
      BY EncodesOne
    <3>2. QED  BY <1>2, <3>1
  <2>2. nw \in Nat \ {0} /\ \E e :
          /\ g = Append(h, e)
          /\ EncodingOf(e, rel, LitsOf(c, f), BoundOf(c))
          /\ e.aux # 0 => nv <= e.aux /\ e.aux < nw
    BY <2>1 DEF AddsOne
  <2>3. PICK e : /\ g = Append(h, e)
                 /\ EncodingOf(e, rel, LitsOf(c, f), BoundOf(c))
                 /\ e.aux # 0 => nv <= e.aux /\ e.aux < nw
    BY <2>2
  <2>4. DOMAIN LitsOf(c, f) \subseteq {f[v] : v \in DOMAIN f}
    BY LitsType DEF Numbers
  <2>5. /\ e \in Encoding
        /\ e.of \in {0} \cup DOMAIN e.lits /\ ((e.aux = 0) <=> (e.of = 0))
        /\ DOMAIN e.lits \subseteq {f[v] : v \in DOMAIN f}
    BY <2>3, <2>4 DEF EncodingOf
  <2>6. Ascending(g, nw)
    BY <2>2, <2>3, <2>5, AppendAscends
  <2>7. /\ g \in Seq(Encoding) /\ DOMAIN g = DOMAIN h \cup {Len(h) + 1}
        /\ g[Len(h) + 1] = e /\ \A i \in DOMAIN h : g[i] = h[i]
    BY <2>3, <2>5
  <2>8. Linked(g, f)
    BY <2>5, <2>7 DEF Linked
  <2>9. QED  BY <2>2, <2>6, <2>7, <2>8
<1>3. QED  BY <1>1, <1>2

-----------------------------------------------------------------------------
(* The numbers: those of names are distinct and below next_var, and the    *)
(* literals of an encoding are those of names.  Nothing is encoded before  *)
(* the objective has been read.                                            *)
NumberingInv ==
  /\ \A v \in DOMAIN name_to_id : name_to_id[v] \in 1..(next_var - 1)
  /\ \A i \in 1..added : DOMAIN constraints[i].expr \subseteq DOMAIN name_to_id
  /\ Ascending(hard, next_var) /\ Linked(hard, name_to_id)
  /\ phase \in {"reading", "objective"} =>
       added = 0 /\ hard = <<>> /\ conflict = FALSE
  /\ phase = "objective" => objective # <<>>

LEMMA TypeInit == Init => TypeOK /\ NumberingInv
<1> SUFFICES ASSUME Init PROVE TypeOK /\ NumberingInv
  OBVIOUS
<1>1. FileOK
  BY DEF Init, FileOK
<1>2. /\ DOMAIN name_to_id = {} /\ hard = <<>> /\ DOMAIN hard = {} /\ added = 0
      /\ next_var = 1 /\ hard \in Seq(Encoding) /\ 1..added = {}
      /\ sLines \in Seq(Statuses) /\ phase \in Phases /\ conflict = FALSE
  BY DEF Init, Phases
<1>3. TypeOK
  <2>1. Injective(name_to_id)
    BY <1>2 DEF Injective
  <2>2. DOMAIN name_to_id \subseteq Var /\ next_var \in Nat \ {0}
    BY <1>2
  <2>3. hard \in Seq(Encoding) /\ sLines \in Seq(Statuses) /\ phase \in Phases
    BY <1>2
  <2>4. conflict \in BOOLEAN
    BY <1>2, Zenon
  <2>5. QED  BY <1>1, <2>1, <2>2, <2>3, <2>4 DEF TypeOK
<1>4. NumberingInv
  BY <1>2 DEF Init, NumberingInv, Ascending, Linked
<1>5. QED  BY <1>3, <1>4

LEMMA CurrentType ==
  ASSUME TypeOK, added < Len(constraints)
  PROVE  /\ Current \in Constraint /\ Current.expr \in Expression
         /\ DOMAIN Current.expr \subseteq Var
         /\ added + 1 \in DOMAIN constraints
<1>1. added + 1 \in DOMAIN constraints /\ Current \in Constraint
  BY DEF TypeOK, FileOK, Current
<1>2. Current.expr \in Expression
  BY <1>1 DEF Constraint
<1>3. QED  BY <1>1, <1>2, ExpressionParts

LEMMA AddConstraintNumbers ==
  ASSUME TypeOK, NumberingInv, AddConstraint
  PROVE  TypeOK' /\ NumberingInv'
<1> DEFINE c == Current
<1>1. PICK f \in Numberings(DOMAIN c.expr) : \E h, nv, nw : Becomes(f, h, nv, nw)
  BY ConstraintAdded
<1>2. PICK h, nv, nw :
        /\ Encodes(Least(c, f), "atleast", c, f, hard, next_var, h, nv)
        /\ Encodes(Most(c, f), "atmost", c, f, h, nv, hard', nw)
        /\ name_to_id' = f
        /\ conflict' = (conflict \/ Impossible(c, f))
        /\ next_var' = Max({nw, Cardinality(DOMAIN f) + 1})
  BY <1>1, Zenon DEF Becomes
<1>3. /\ phase = "constraints" /\ added < Len(constraints) /\ added' = added + 1
      /\ UNCHANGED <<fileVars, phase, soft, model, outVars>>
  BY Zenon DEF AddConstraint
<1>4. c \in Constraint /\ DOMAIN c.expr \subseteq Var /\ added + 1 \in DOMAIN constraints
  BY <1>3, CurrentType
<1>5. /\ DOMAIN f = DOMAIN name_to_id \cup DOMAIN c.expr /\ DOMAIN f \subseteq Var
      /\ Cardinality(DOMAIN f) \in Nat /\ Injective(f)
      /\ \A v \in DOMAIN f : f[v] \in 1..Cardinality(DOMAIN f)
      /\ \A v \in DOMAIN name_to_id : f[v] = name_to_id[v]
  BY <1>4, NumberingsExtend DEF TypeOK
<1>6. Linked(hard, f)
  BY <1>5 DEF NumberingInv, Linked
<1>7. hard \in Seq(Encoding) /\ next_var \in Nat \ {0} /\ Ascending(hard, next_var)
  BY DEF TypeOK, NumberingInv
<1>8. Numbers(f, c)
  <2>1. \A v \in DOMAIN f : f[v] \in Nat \ {0}
    BY <1>5
  <2>2. DOMAIN c.expr \subseteq DOMAIN f
    BY <1>5
  <2>3. QED  BY <1>5, <2>1, <2>2 DEF Numbers
<1> HIDE DEF c
<1>9. h \in Seq(Encoding) /\ nv \in Nat \ {0} /\ Ascending(h, nv) /\ Linked(h, f)
  BY <1>2, <1>4, <1>6, <1>7, <1>8, EncodesNumbers
<1>10. /\ hard' \in Seq(Encoding) /\ nw \in Nat \ {0}
       /\ Ascending(hard', nw) /\ Linked(hard', f)
  BY <1>2, <1>4, <1>8, <1>9, EncodesNumbers
<1>11. /\ next_var' \in Nat \ {0} /\ nw <= next_var' /\ Cardinality(DOMAIN f) + 1 <= next_var'
  <2>1. nw \in Int /\ Cardinality(DOMAIN f) + 1 \in Int
    BY <1>5, <1>10
  <2>2. Max({nw, Cardinality(DOMAIN f) + 1}) \in {nw, Cardinality(DOMAIN f) + 1}
        /\ Max({nw, Cardinality(DOMAIN f) + 1}) >= nw
        /\ Max({nw, Cardinality(DOMAIN f) + 1}) >= Cardinality(DOMAIN f) + 1
    BY <2>1, MaxOfTwo
  <2>3. QED  BY <1>2, <1>5, <1>10, <2>2
<1>12. Ascending(hard', next_var')
  BY <1>10, <1>11, AscendingAbove
<1>13. \A v \in DOMAIN f : f[v] \in 1..(next_var' - 1)
  BY <1>5, <1>11
<1>14. \A i \in 1..added' : DOMAIN constraints'[i].expr \subseteq DOMAIN f
  <2> SUFFICES ASSUME NEW i \in 1..(added + 1)
               PROVE  DOMAIN constraints[i].expr \subseteq DOMAIN f
    BY <1>3 DEF fileVars
  <2>1. CASE i = added + 1
    BY <1>5, <2>1 DEF c, Current
  <2>2. CASE i \in 1..added
    BY <1>5, <2>2 DEF NumberingInv
  <2>3. QED  BY <2>1, <2>2 DEF TypeOK, FileOK
<1>15. conflict' \in BOOLEAN
  BY <1>2, Zenon DEF TypeOK
<1>16. TypeOK'
  <2>1. FileOK'
    BY <1>3 DEF TypeOK, FileOK, fileVars
  <2>2. QED  BY <1>2, <1>3, <1>5, <1>10, <1>11, <1>15, <2>1 DEF TypeOK, outVars
<1>17. QED
  BY <1>2, <1>3, <1>10, <1>12, <1>13, <1>14, <1>16 DEF NumberingInv, fileVars

LEMMA AddObjectiveNumbers ==
  ASSUME TypeOK, NumberingInv, AddObjective
  PROVE  TypeOK' /\ NumberingInv'
<1> DEFINE expr == objective[1].expr
<1>1. /\ phase = "objective" /\ objective # <<>> /\ phase' = "constraints"
      /\ UNCHANGED <<fileVars, added, hard, conflict, model, outVars>>
  BY DEF AddObjective, NumberingInv
<1>2. expr \in Expression /\ DOMAIN expr \subseteq Var
  <2>1. objective[1] \in Objective
    BY <1>1 DEF TypeOK, FileOK
  <2>2. QED  BY <2>1, ExpressionParts DEF Objective
<1>3. PICK f \in Numberings(DOMAIN expr) :
        name_to_id' = f /\ next_var' = Cardinality(DOMAIN f) + 1
  BY <1>2, CoefsType DEF AddObjective, Coefs
<1>4. /\ DOMAIN f \subseteq Var /\ Cardinality(DOMAIN f) \in Nat /\ Injective(f)
      /\ \A v \in DOMAIN f : f[v] \in 1..Cardinality(DOMAIN f)
  BY <1>2, NumberingsExtend DEF TypeOK
<1>5. added = 0 /\ hard = <<>> /\ conflict = FALSE
  BY <1>1 DEF NumberingInv
<1>6. TypeOK'
  <2>1. FileOK'
    BY <1>1 DEF TypeOK, FileOK, fileVars
  <2>2. QED  BY <1>1, <1>3, <1>4, <2>1 DEF TypeOK, outVars, Phases
<1>7. QED
  BY <1>1, <1>3, <1>4, <1>5, <1>6 DEF NumberingInv, Ascending, Linked

LEMMA TypeStep == TypeOK /\ NumberingInv /\ [Next]_vars => TypeOK' /\ NumberingInv'
<1> SUFFICES ASSUME TypeOK, NumberingInv, [Next]_vars PROVE TypeOK' /\ NumberingInv'
  OBVIOUS
<1>1. CASE ReadStatement
  <2>1. /\ phase = "reading" /\ Len(objective') <= 1
        /\ UNCHANGED <<phase, formulaVars, model, outVars>>
    BY <1>1 DEF ReadStatement
  <2>2. added = 0 /\ added' = 0
    BY <2>1 DEF NumberingInv, formulaVars
  <2>3. FileOK'
    <3>1. objective \in Seq(Objective) /\ constraints \in Seq(Constraint)
      BY DEF TypeOK, FileOK
    <3>2. objective' \in Seq(Objective) /\ constraints' \in Seq(Constraint)
      <4>1. ASSUME NEW o \in Objective,
                   objective' = Append(objective, o), constraints' = constraints
            PROVE  objective' \in Seq(Objective) /\ constraints' \in Seq(Constraint)
        BY <3>1, <4>1
      <4>2. ASSUME NEW c \in Constraint,
                   objective' = objective, constraints' = Append(constraints, c)
            PROVE  objective' \in Seq(Objective) /\ constraints' \in Seq(Constraint)
        BY <3>1, <4>2
      <4>3. QED  BY <1>1, <4>1, <4>2 DEF ReadStatement
    <3>3. QED  BY <2>1, <2>2, <3>2 DEF FileOK
  <2>4. QED  BY <2>1, <2>2, <2>3 DEF TypeOK, NumberingInv, formulaVars, outVars
<1>2. CASE AddObjective
  BY <1>2, AddObjectiveNumbers
<1>3. CASE AddConstraint
  BY <1>3, AddConstraintNumbers
<1>4. CASE UNCHANGED <<fileVars, formulaVars>> /\ (phase' = phase \/ phase' # "reading")
            /\ (phase' = "objective" => phase \in {"reading", "objective"} /\ objective # <<>>)
            /\ phase' \in Phases
            /\ sLines' \in Seq(Statuses)
  <2>1. FileOK'
    BY <1>4 DEF TypeOK, FileOK, fileVars, formulaVars
  <2>2. QED  BY <1>4, <2>1 DEF TypeOK, NumberingInv, fileVars, formulaVars
<1>5. CASE ReadFails \/ FileRead \/ ObjectiveRefused \/ AllAdded \/ SolveModel \/ PrintObjective
            \/ PrintModel \/ Return
  <2>1. sLines' = sLines /\ UNCHANGED <<fileVars, formulaVars>>
    BY <1>5 DEF ReadFails, FileRead, ObjectiveRefused, AllAdded, SolveModel, PrintObjective,
       PrintModel, Return, outVars
  <2>2. /\ phase' = "objective" => phase = "reading" /\ objective # <<>>
        /\ phase' \in Phases \ {"reading"}
    BY <1>5 DEF Phases, ReadFails, FileRead, ObjectiveRefused, AllAdded, SolveModel, PrintObjective,
       PrintModel, Return
  <2>3. QED  BY <1>4, <2>1, <2>2 DEF TypeOK
<1>6. CASE SolveNone \/ PrintStatus \/ TimeLimit
  <2>1. /\ UNCHANGED <<fileVars, formulaVars>>
        /\ phase' \in Phases \ {"reading", "objective"}
        /\ \E s \in Statuses : sLines' = Append(sLines, s)
    BY <1>6 DEF SolveNone, PrintStatus, TimeLimit, Phases, Statuses
  <2>2. sLines' \in Seq(Statuses)
    BY <2>1 DEF TypeOK
  <2>3. QED  BY <1>4, <2>1, <2>2
<1>7. CASE Ended \/ UNCHANGED vars
  BY <1>4, <1>7 DEF Ended, vars, outVars, TypeOK, NumberingInv
<1>8. QED  BY <1>1, <1>2, <1>3, <1>5, <1>6, <1>7 DEF Next

(* The types of the driver's state, and the numbers: those of names are    *)
(* distinct and below next_var, and an auxiliary stands for a literal of   *)
(* its encoding (var_id, add_encoding).                                    *)
THEOREM TypeCorrect == Spec => [](TypeOK /\ NumberingInv)
<1>1. QED  BY TypeInit, TypeStep, PTL DEF Spec

(* As long as no encoding without an auxiliary comes between them, the     *)
(* numbers of the auxiliaries ascend in the order of the encodings: nothing*)
(* but such an encoding sets next_var back (add_encoding returns nv + 1).  *)
THEOREM AuxiliariesDoAscend == Spec => []AuxiliariesAscend
<1>1. TypeOK /\ NumberingInv => AuxiliariesAscend
  BY DEF NumberingInv, Ascending, Unbroken, AuxiliariesAscend
<1>2. QED  BY <1>1, TypeCorrect, PTL

-----------------------------------------------------------------------------
(* What the hard clauses mean.  The values a model gives the names do not  *)
(* depend on the auxiliaries; the rest of a clause group does not either.  *)
ValuesOf(f, m) == [v \in Var |-> IF v \in DOMAIN f /\ f[v] \in m THEN 1 ELSE 0]
WeightHolds(e, m) ==
  IF e.rel = "atleast" THEN Weight(e.lits, m) >= e.bound ELSE Weight(e.lits, m) <= e.bound
HardHolds(h, m) == \A i \in DOMAIN h : WeightHolds(h[i], m)

LEMMA ValuesAgree ==
  ASSUME NEW f, NEW m, NEW expr, DOMAIN expr \subseteq DOMAIN f, DOMAIN expr \subseteq Var
  PROVE  ValuesOf(f, m) \in Assignment /\ Agree(f, expr, m, ValuesOf(f, m))
BY DEF ValuesOf, Assignment, Agree

(* A constraint is equivalent to its positive form: to the weights of the  *)
(* encodings, where they are needed, and to FALSE where it is impossible.  *)
LEMMA PositiveFormDecides ==
  ASSUME NEW c \in Constraint, NEW f, Injective(f), DOMAIN c.expr \subseteq DOMAIN f,
         NEW m, NEW a \in Assignment, Agree(f, c.expr, m, a)
  PROVE  ReadSatisfies(a, c) <=>
           /\ ~ Impossible(c, f)
           /\ Least(c, f) => Weight(LitsOf(c, f), m) >= BoundOf(c)
           /\ Most(c, f) => Weight(LitsOf(c, f), m) <= BoundOf(c)
<1> DEFINE W == Weight(LitsOf(c, f), m)
           T == Total(LitsOf(c, f))
           k == TotalConstant(Parsed(c.expr))
           x == ReadValue(c.expr, a)
           r == Double(c.rhs)
<1>1. c.expr \in Expression /\ r \in Int /\ c.rel \in {">=", "<=", "="}
  BY DoubleAssumption DEF Constraint
<1>2. W \in Int /\ T \in Int /\ 0 <= W /\ W <= T
  BY <1>1, WeightIsPositiveForm DEF LitsOf
<1>3. k \in Int /\ x \in Int /\ x = k + W
  BY <1>1, PositiveForm, WeightIsPositiveForm DEF LitsOf
<1>4. /\ ReadSatisfies(a, c) <=> Holds(x, c.rel, r)
      /\ BoundOf(c) = r - k
  BY DEF ReadSatisfies, BoundOf
<1>5. /\ Least(c, f) <=> c.rel \in {">=", "="} /\ BoundOf(c) > 0 /\ BoundOf(c) <= T
      /\ Most(c, f) <=> c.rel \in {"<=", "="} /\ BoundOf(c) >= 0 /\ BoundOf(c) < T
      /\ Impossible(c, f) <=> \/ c.rel \in {">=", "="} /\ BoundOf(c) > T
                              \/ c.rel \in {"<=", "="} /\ BoundOf(c) < 0
  BY DEF Least, Most, Impossible
<1> HIDE DEF W, T, k, x, r
<1>6. CASE c.rel = ">="
  BY <1>1, <1>2, <1>3, <1>4, <1>5, <1>6 DEF Holds, W
<1>7. CASE c.rel = "<="
  BY <1>1, <1>2, <1>3, <1>4, <1>5, <1>7 DEF Holds, W
<1>8. CASE c.rel = "="
  BY <1>1, <1>2, <1>3, <1>4, <1>5, <1>8 DEF Holds, W
<1>9. QED  BY <1>1, <1>6, <1>7, <1>8

LEMMA EncodesMeans ==
  ASSUME NEW c \in Constraint, NEW f, Numbers(f, c),
         NEW h \in Seq(Encoding), NEW nv \in Nat \ {0},
         NEW needed, NEW rel \in {"atleast", "atmost"}, NEW g, NEW nw,
         Encodes(needed, rel, c, f, h, nv, g, nw),
         NEW m
  PROVE  HardHolds(g, m) <=>
           /\ HardHolds(h, m)
           /\ needed => IF rel = "atleast" THEN Weight(LitsOf(c, f), m) >= BoundOf(c)
                        ELSE Weight(LitsOf(c, f), m) <= BoundOf(c)
<1>1. CASE ~ needed
  BY <1>1, EncodesOne
<1>2. CASE needed
  <2>1. AddsOne(rel, LitsOf(c, f), BoundOf(c), h, nv, g, nw)
    <3>1. \/ ~ needed /\ g = h /\ nw = nv
          \/ needed /\ AddsOne(rel, LitsOf(c, f), BoundOf(c), h, nv, g, nw)
      BY EncodesOne
    <3>2. QED  BY <1>2, <3>1
  <2>2. PICK e : g = Append(h, e) /\ EncodingOf(e, rel, LitsOf(c, f), BoundOf(c))
    BY <2>1 DEF AddsOne
  <2>3. e \in Encoding /\ e.lits = LitsOf(c, f) /\ e.rel = rel /\ e.bound = BoundOf(c)
    BY <2>2 DEF EncodingOf
  <2>4. /\ DOMAIN g = DOMAIN h \cup {Len(h) + 1}
        /\ g[Len(h) + 1] = e /\ \A i \in DOMAIN h : g[i] = h[i]
    BY <2>2, <2>3
  <2>5. HardHolds(g, m) <=> HardHolds(h, m) /\ WeightHolds(e, m)
    BY <2>4 DEF HardHolds
  <2>6. QED  BY <1>2, <2>3, <2>5, Zenon DEF WeightHolds
<1>3. QED  BY <1>1, <1>2

-----------------------------------------------------------------------------
(* The hard clauses hold for the assignments of the file that satisfy the  *)
(* constraints encoded so far, as they were read.                          *)
HardMeansFile ==
  \A m \in SUBSET Nat :
    (~ conflict /\ HardHolds(hard, m))
      <=> \A k \in 1..added : ReadSatisfies(ValuesOf(name_to_id, m), constraints[k])

LEMMA AddConstraintMeans ==
  ASSUME TypeOK, NumberingInv, HardMeansFile, AddConstraint
  PROVE  HardMeansFile'
<1> DEFINE c == Current
<1>1. PICK f \in Numberings(DOMAIN c.expr) : \E h, nv, nw : Becomes(f, h, nv, nw)
  BY ConstraintAdded
<1>2. PICK h, nv, nw :
        /\ Encodes(Least(c, f), "atleast", c, f, hard, next_var, h, nv)
        /\ Encodes(Most(c, f), "atmost", c, f, h, nv, hard', nw)
        /\ name_to_id' = f
        /\ conflict' = (conflict \/ Impossible(c, f))
        /\ next_var' = Max({nw, Cardinality(DOMAIN f) + 1})
  BY <1>1, Zenon DEF Becomes
<1>3. added < Len(constraints) /\ added' = added + 1 /\ constraints' = constraints
  BY Zenon DEF AddConstraint, fileVars
<1>4. /\ c \in Constraint /\ DOMAIN c.expr \subseteq Var /\ added + 1 \in DOMAIN constraints
      /\ constraints[added + 1] = c /\ added \in Nat
      /\ \A k \in 1..added : constraints[k] \in Constraint
  BY <1>3, CurrentType DEF TypeOK, FileOK, Current
<1>5. /\ DOMAIN f = DOMAIN name_to_id \cup DOMAIN c.expr /\ DOMAIN f \subseteq Var
      /\ Injective(f)
      /\ \A v \in DOMAIN f : f[v] \in Nat \ {0}
      /\ \A v \in DOMAIN name_to_id : f[v] = name_to_id[v]
      /\ DOMAIN c.expr \subseteq DOMAIN f
  <2>1. /\ DOMAIN f = DOMAIN name_to_id \cup DOMAIN c.expr /\ DOMAIN f \subseteq Var
        /\ Cardinality(DOMAIN f) \in Nat /\ Injective(f)
        /\ \A v \in DOMAIN f : f[v] \in 1..Cardinality(DOMAIN f)
        /\ \A v \in DOMAIN name_to_id : f[v] = name_to_id[v]
    BY <1>4, NumberingsExtend DEF TypeOK
  <2>2. \A v \in DOMAIN f : f[v] \in Nat \ {0}
    BY <2>1
  <2>3. QED  BY <2>1, <2>2
<1>6. Linked(hard, f)
  BY <1>5 DEF NumberingInv, Linked
<1>7. hard \in Seq(Encoding) /\ next_var \in Nat \ {0} /\ Ascending(hard, next_var)
  BY DEF TypeOK, NumberingInv
<1> HIDE DEF c
<1>8. h \in Seq(Encoding) /\ nv \in Nat \ {0} /\ Numbers(f, c)
  <2>1. Numbers(f, c)
    BY <1>5 DEF Numbers
  <2>2. QED  BY <1>2, <1>4, <1>6, <1>7, <2>1, EncodesNumbers
<1>9. ASSUME NEW m \in SUBSET Nat
      PROVE  (~ conflict' /\ HardHolds(hard', m))
               <=> \A k \in 1..(added + 1) : ReadSatisfies(ValuesOf(f, m), constraints[k])
  <2> DEFINE W == Weight(LitsOf(c, f), m)
             a == ValuesOf(f, m)
             b == ValuesOf(name_to_id, m)
  <2>1. HardHolds(h, m) <=> HardHolds(hard, m) /\ (Least(c, f) => W >= BoundOf(c))
    BY <1>2, <1>4, <1>7, <1>8, EncodesMeans
  <2>2. HardHolds(hard', m) <=> HardHolds(h, m) /\ (Most(c, f) => W <= BoundOf(c))
    BY <1>2, <1>4, <1>8, EncodesMeans
  <2>3. a \in Assignment /\ Agree(f, c.expr, m, a)
    BY <1>4, <1>5, ValuesAgree
  <2>4. ReadSatisfies(a, c) <=> /\ ~ Impossible(c, f)
                                /\ Least(c, f) => W >= BoundOf(c)
                                /\ Most(c, f) => W <= BoundOf(c)
    BY <1>4, <1>5, <2>3, PositiveFormDecides
  <2>5. ASSUME NEW k \in 1..added
        PROVE  ReadSatisfies(a, constraints[k]) <=> ReadSatisfies(b, constraints[k])
    <3> DEFINE expr == constraints[k].expr
    <3>1. expr \in Expression /\ DOMAIN expr \subseteq DOMAIN name_to_id
      BY <1>4 DEF NumberingInv, Constraint
    <3>2. b \in Assignment
      BY DEF ValuesOf, Assignment
    <3>3. \A v \in DOMAIN expr : a[v] = b[v]
      BY <1>5, <3>1, ExpressionParts DEF ValuesOf
    <3> HIDE DEF expr, a, b
    <3>4. ReadValue(expr, a) = ReadValue(expr, b)
      BY <2>3, <3>1, <3>2, <3>3, ValueIsLocal
    <3>5. QED  BY <3>4 DEF ReadSatisfies, expr
  <2>6. (~ conflict /\ HardHolds(hard, m)) <=> \A k \in 1..added : ReadSatisfies(b, constraints[k])
    BY DEF HardMeansFile
  <2>7. conflict' <=> conflict \/ Impossible(c, f)
    BY <1>2
  <2> HIDE DEF a, b, W
  <2>8. (\A k \in 1..(added + 1) : ReadSatisfies(a, constraints[k]))
          <=> ReadSatisfies(a, c) /\ \A k \in 1..added : ReadSatisfies(a, constraints[k])
    <3>1. 1..(added + 1) = 1..added \cup {added + 1}
      BY <1>4
    <3>2. QED  BY <1>4, <3>1
  <2>9. (\A k \in 1..added : ReadSatisfies(a, constraints[k]))
          <=> \A k \in 1..added : ReadSatisfies(b, constraints[k])
    BY <2>5
  <2>10. QED  BY <2>1, <2>2, <2>4, <2>6, <2>7, <2>8, <2>9, Zenon DEF a
<1>10. QED  BY <1>2, <1>3, <1>9 DEF HardMeansFile

-----------------------------------------------------------------------------
(* What the soft clauses mean: their cost is the objective that was read,  *)
(* less its constant.                                                      *)
CostOf(s, m) ==
  SumFunction([id \in DOMAIN s |->
         IF s[id] >= 0 THEN (IF id \in m THEN s[id] ELSE 0)
         ELSE (IF id \in m THEN 0 ELSE - s[id])])

LEMMA CostOfNames ==
  ASSUME NEW expr \in Expression, NEW f, Injective(f), DOMAIN expr \subseteq DOMAIN f,
         NEW m, NEW a \in Assignment, Agree(f, expr, m, a),
         NEW s, s = [id \in {f[v] : v \in DOMAIN expr} |-> Coefs(expr)[NameOf(f, id)]]
  PROVE  CostOf(s, m) = ReadValue(expr, a) - TotalConstant(Parsed(expr))
<1> DEFINE D == DOMAIN expr
           c == Coefs(expr)
           h == PositiveTerms(expr, a)
           w == [id \in DOMAIN s |-> IF s[id] >= 0 THEN (IF id \in m THEN s[id] ELSE 0)
                                     ELSE (IF id \in m THEN 0 ELSE - s[id])]
<1>1. DOMAIN w = {f[v] : v \in D} /\ CostOf(s, m) = SumFunction(w)
  BY DEF CostOf
<1>2. ASSUME NEW v \in D
      PROVE  h[v] \in Int /\ w[f[v]] = h[v]
  <2>1. /\ c[v] \in Int /\ a[v] \in 0..1
        /\ a[v] = IF f[v] \in m THEN 1 ELSE 0
        /\ h[v] = Counts(c[v], a[v])
    BY CoefsType, ExpressionParts DEF Assignment, Agree, PositiveTerms
  <2>2. NameOf(f, f[v]) = v
    BY NameOfNumber
  <2>3. s[f[v]] = c[v] /\ f[v] \in DOMAIN s
    BY <2>2
  <2>4. w[f[v]] = IF c[v] >= 0 THEN (IF f[v] \in m THEN c[v] ELSE 0)
                  ELSE (IF f[v] \in m THEN 0 ELSE - c[v])
    BY <2>3
  <2> HIDE DEF c, h, w
  <2>5. CASE f[v] \in m
    BY <2>1, <2>4, <2>5 DEF Counts
  <2>6. CASE f[v] \notin m
    BY <2>1, <2>4, <2>6 DEF Counts
  <2>7. QED  BY <2>5, <2>6
<1> HIDE DEF w, h, c
<1>3. SumFunction(w) = SumFunctionOnSet(h, D)
  BY <1>1, <1>2, SumOverNumbers
<1>4. /\ TotalConstant(Parsed(expr)) \in Int
      /\ ReadValue(expr, a) = TotalConstant(Parsed(expr)) + SumFunctionOnSet(h, D)
  BY PositiveForm DEF h
<1>5. SumFunctionOnSet(h, D) \in Int
  BY <1>2, ExpressionParts, SumIsInt
<1>6. QED  BY <1>1, <1>3, <1>4, <1>5

ObjectiveKept == phase \in {"constraints", "solving", "o", "s", "v", "return"} \/ oLine # <<>>

ReadObjective(a) == ReadValue(objective[1].expr, a)

SoftMeansObjective ==
  ObjectiveKept /\ objective # <<>> =>
    /\ DOMAIN objective[1].expr \subseteq DOMAIN name_to_id
    /\ \A m \in SUBSET Nat :
         Cost(m) = ReadObjective(ValuesOf(name_to_id, m)) - TotalConstant(Parsed(objective[1].expr))

(* What has been decided and printed.                                      *)
Solved == phase \in {"o", "s", "v"} \/ oLine # <<>> \/ vLine # <<>>
Refuted == \E i \in DOMAIN sLines : sLines[i] = "UNSATISFIABLE"
Fixed == phase = "solving" \/ Solved \/ Refuted

AnswerInv ==
  /\ phase \in {"reading", "objective", "constraints", "solving"} =>
       oLine = <<>> /\ vLine = <<>> /\ ~ Refuted
  /\ Fixed => added = Len(constraints)
  /\ Solved => model \in Models /\ (objective # <<>> => \A n \in Models : Cost(model) <= Cost(n))
  /\ phase = "o" => objective # <<>>
  /\ oLine # <<>> => /\ objective # <<>>
                     /\ oLine = <<ParsedValue(Parsed(objective[1].expr), Values)>>
  /\ vLine # <<>> => vLine = <<Values>>
  /\ Refuted => Models = {}

LEMMA ObjectiveType ==
  ASSUME TypeOK, objective # <<>>
  PROVE  objective[1].expr \in Expression
<1>1. objective[1] \in Objective
  BY DEF TypeOK, FileOK
<1>2. QED  BY <1>1 DEF Objective

LEMMA AddObjectiveMeans ==
  ASSUME TypeOK, NumberingInv, AddObjective
  PROVE  SoftMeansObjective'
<1> DEFINE expr == objective[1].expr
<1>1. objective # <<>> /\ objective' = objective
  BY DEF AddObjective, NumberingInv, fileVars
<1>2. expr \in Expression /\ DOMAIN expr \subseteq Var
  BY <1>1, ObjectiveType, ExpressionParts
<1>3. PICK f \in Numberings(DOMAIN expr) :
        /\ name_to_id' = f
        /\ soft' = [id \in {f[v] : v \in DOMAIN expr} |-> Coefs(expr)[NameOf(f, id)]]
  BY <1>2, CoefsType DEF AddObjective, Coefs
<1>4. DOMAIN expr \subseteq DOMAIN f /\ Injective(f)
  <2>1. DOMAIN f = DOMAIN name_to_id \cup DOMAIN expr /\ Injective(f)
    BY <1>2, NumberingsExtend DEF TypeOK
  <2>2. QED  BY <2>1
<1> HIDE DEF expr
<1>5. ASSUME NEW m \in SUBSET Nat
      PROVE  CostOf(soft', m) = ReadValue(expr, ValuesOf(f, m)) - TotalConstant(Parsed(expr))
  <2>1. ValuesOf(f, m) \in Assignment /\ Agree(f, expr, m, ValuesOf(f, m))
    BY <1>2, <1>4, ValuesAgree
  <2>2. QED  BY <1>2, <1>3, <1>4, <2>1, CostOfNames
<1>6. \A m : Cost(m)' = CostOf(soft', m)
  BY DEF Cost, CostOf
<1>7. QED
  BY <1>1, <1>3, <1>4, <1>5, <1>6 DEF SoftMeansObjective, ReadObjective, expr

(* A later number leaves the values of the objective's names alone.        *)
LEMMA AddConstraintKeepsObjective ==
  ASSUME TypeOK, NumberingInv, SoftMeansObjective, AddConstraint
  PROVE  SoftMeansObjective'
<1> DEFINE expr == objective[1].expr
           k == TotalConstant(Parsed(expr))
<1>1. PICK f \in Numberings(DOMAIN Current.expr) : name_to_id' = f
  <2>1. PICK f \in Numberings(DOMAIN Current.expr) : \E h, nv, nw : Becomes(f, h, nv, nw)
    BY ConstraintAdded
  <2>2. name_to_id' = f
    BY <2>1, Zenon DEF Becomes
  <2>3. QED  BY <2>2
<1>2. phase = "constraints" /\ added < Len(constraints) /\ objective' = objective /\ soft' = soft
  BY Zenon DEF AddConstraint, fileVars
<1>3. /\ DOMAIN f = DOMAIN name_to_id \cup DOMAIN Current.expr
      /\ \A v \in DOMAIN name_to_id : f[v] = name_to_id[v]
  BY <1>2, CurrentType, NumberingsExtend DEF TypeOK
<1>4. \A m : Cost(m)' = Cost(m)
  BY <1>2 DEF Cost
<1>5. CASE objective # <<>>
  <2>1. expr \in Expression
    BY <1>5, ObjectiveType
  <2>2. /\ DOMAIN expr \subseteq DOMAIN name_to_id
        /\ \A m \in SUBSET Nat : Cost(m) = ReadValue(expr, ValuesOf(name_to_id, m)) - k
    BY <1>2, <1>5 DEF SoftMeansObjective, ObjectiveKept, ReadObjective
  <2> HIDE DEF expr, k
  <2>3. ASSUME NEW m \in SUBSET Nat
        PROVE  ReadValue(expr, ValuesOf(f, m)) = ReadValue(expr, ValuesOf(name_to_id, m))
    <3>1. \A v \in DOMAIN expr : ValuesOf(f, m)[v] = ValuesOf(name_to_id, m)[v]
      BY <1>3, <2>1, <2>2, ExpressionParts DEF ValuesOf
    <3>2. ValuesOf(f, m) \in Assignment /\ ValuesOf(name_to_id, m) \in Assignment
      BY DEF ValuesOf, Assignment
    <3>3. QED  BY <2>1, <3>1, <3>2, ValueIsLocal
  <2>4. DOMAIN expr \subseteq DOMAIN f
    BY <1>3, <2>2
  <2>5. \A m \in SUBSET Nat : Cost(m)' = ReadValue(expr, ValuesOf(f, m)) - k
    BY <1>4, <2>2, <2>3
  <2>6. QED  BY <1>1, <1>2, <2>4, <2>5 DEF SoftMeansObjective, ReadObjective, expr, k
<1>6. CASE objective = <<>>
  BY <1>2, <1>6 DEF SoftMeansObjective
<1>7. QED  BY <1>5, <1>6

-----------------------------------------------------------------------------
(* The steps that print, and the alarm.                                    *)
LEMMA RefutedAppend ==
  ASSUME TypeOK, NEW s \in Statuses, sLines' = Append(sLines, s)
  PROVE  Refuted' <=> Refuted \/ s = "UNSATISFIABLE"
<1>1. sLines \in Seq(Statuses)
  BY DEF TypeOK
<1>2. /\ DOMAIN sLines' = DOMAIN sLines \cup {Len(sLines) + 1}
      /\ sLines'[Len(sLines) + 1] = s
      /\ \A i \in DOMAIN sLines : sLines'[i] = sLines[i]
  BY <1>1
<1>3. QED  BY <1>2 DEF Refuted

LEMMA AnswerStep ==
  ASSUME TypeOK, NumberingInv, AnswerInv, [Next]_vars
  PROVE  AnswerInv'
<1> DEFINE Starting == {"reading", "objective", "constraints"}
<1>1. ASSUME phase \in Starting, UNCHANGED outVars, phase' \in Starting \cup {"failed"}
      PROVE  AnswerInv'
  <2>1. oLine' = <<>> /\ vLine' = <<>> /\ ~ Refuted'
    BY <1>1 DEF AnswerInv, outVars, Refuted
  <2>2. QED  BY <1>1, <2>1 DEF AnswerInv, Fixed, Solved
<1>2. CASE ReadStatement \/ ReadFails \/ FileRead \/ AddObjective \/ ObjectiveRefused
            \/ AddConstraint
  <2>1. phase \in Starting /\ UNCHANGED outVars /\ phase' \in Starting \cup {"failed"}
    BY <1>2, Zenon DEF ReadStatement, ReadFails, FileRead, AddObjective, ObjectiveRefused,
       AddConstraint
  <2>2. QED  BY <1>1, <2>1
<1>3. ASSUME UNCHANGED <<fileVars, formulaVars>>
      PROVE  /\ Models' = Models /\ \A n : Cost(n)' = Cost(n)
             /\ objective' = objective /\ Len(constraints)' = Len(constraints) /\ added' = added
             /\ model' = model => Values' = Values
  BY <1>3 DEF Models, Ids, ClausesHold, Cost, Values, fileVars, formulaVars
<1>4. CASE AllAdded
  BY <1>3, <1>4 DEF AllAdded, AnswerInv, Fixed, Solved, Refuted, outVars
<1>5. CASE SolveModel
  BY <1>3, <1>5 DEF SolveModel, AnswerInv, Fixed, Solved, Refuted, outVars
<1>6. CASE SolveNone
  BY <1>3, <1>6, RefutedAppend DEF SolveNone, AnswerInv, Fixed, Solved, Statuses
<1>7. CASE PrintObjective
  BY <1>3, <1>7 DEF PrintObjective, AnswerInv, Fixed, Solved, Refuted
<1>8. CASE PrintStatus
  BY <1>3, <1>8, RefutedAppend DEF PrintStatus, AnswerInv, Fixed, Solved, Statuses
<1>9. CASE PrintModel
  BY <1>3, <1>9 DEF PrintModel, AnswerInv, Fixed, Solved, Refuted
<1>10. CASE Return
  BY <1>3, <1>10 DEF Return, AnswerInv, Fixed, Solved, Refuted, outVars
<1>11. CASE TimeLimit
  BY <1>3, <1>11, RefutedAppend DEF TimeLimit, AnswerInv, Fixed, Solved, Statuses
<1>12. CASE Ended \/ UNCHANGED vars
  BY <1>3, <1>12 DEF Ended, vars, outVars, AnswerInv, Fixed, Solved, Refuted
<1>13. QED
  BY <1>2, <1>4, <1>5, <1>6, <1>7, <1>8, <1>9, <1>10, <1>11, <1>12 DEF Next

LEMMA SoftStep ==
  ASSUME TypeOK, NumberingInv, SoftMeansObjective, AnswerInv, [Next]_vars
  PROVE  SoftMeansObjective'
<1>1. ASSUME ~ ObjectiveKept'
      PROVE  SoftMeansObjective'
  BY <1>1 DEF SoftMeansObjective
<1>2. CASE AddObjective
  BY <1>2, AddObjectiveMeans
<1>3. CASE AddConstraint
  BY <1>3, AddConstraintKeepsObjective
<1>4. CASE ReadStatement \/ ReadFails \/ ObjectiveRefused
  <2>1. phase \in {"reading", "objective"} /\ phase' \in {"reading", "failed"} /\ oLine' = oLine
    BY <1>4, Zenon DEF ReadStatement, ReadFails, ObjectiveRefused, outVars
  <2>2. ~ ObjectiveKept'
    BY <2>1 DEF AnswerInv, ObjectiveKept
  <2>3. QED  BY <1>1, <2>2
<1>5. CASE FileRead
  <2>1. phase = "reading" /\ oLine' = oLine /\ objective' = objective
        /\ phase' = IF objective # <<>> THEN "objective" ELSE "constraints"
    BY <1>5 DEF FileRead, outVars, fileVars
  <2>2. QED  BY <2>1 DEF AnswerInv, ObjectiveKept, SoftMeansObjective
<1>6. ASSUME UNCHANGED <<fileVars, formulaVars>>, ObjectiveKept' => ObjectiveKept
      PROVE  SoftMeansObjective'
  <2>1. /\ objective' = objective /\ name_to_id' = name_to_id
        /\ \A m : Cost(m)' = Cost(m)
    BY <1>6 DEF Cost, fileVars, formulaVars
  <2>2. QED  BY <1>6, <2>1 DEF SoftMeansObjective, ReadObjective
<1>7. CASE AllAdded \/ SolveModel \/ SolveNone \/ PrintObjective \/ PrintStatus \/ PrintModel
            \/ Return \/ TimeLimit
  <2>1. ObjectiveKept' => ObjectiveKept
    BY <1>7 DEF AllAdded, SolveModel, SolveNone, PrintObjective, PrintStatus, PrintModel,
       Return, TimeLimit, ObjectiveKept, outVars
  <2>2. UNCHANGED <<fileVars, formulaVars>>
    BY <1>7 DEF AllAdded, SolveModel, SolveNone, PrintObjective, PrintStatus, PrintModel,
       Return, TimeLimit
  <2>3. QED  BY <1>6, <2>1, <2>2
<1>8. CASE Ended \/ UNCHANGED vars
  BY <1>6, <1>8 DEF Ended, vars, outVars, ObjectiveKept
<1>9. QED  BY <1>2, <1>3, <1>4, <1>5, <1>7, <1>8 DEF Next

LEMMA NothingAdded ==
  ASSUME added = 0, hard = <<>>, conflict = FALSE
  PROVE  HardMeansFile
<1>1. DOMAIN hard = {} /\ 1..added = {}
  OBVIOUS
<1>2. QED  BY <1>1 DEF HardMeansFile, HardHolds

LEMMA HardStep ==
  ASSUME TypeOK, NumberingInv, HardMeansFile, [Next]_vars
  PROVE  HardMeansFile'
<1>1. CASE AddConstraint
  BY <1>1, AddConstraintMeans
<1>2. CASE ReadStatement \/ AddObjective
  <2>1. added' = 0 /\ hard' = <<>> /\ conflict' = FALSE
    BY <1>2, Zenon DEF ReadStatement, AddObjective, NumberingInv, formulaVars
  <2>2. DOMAIN hard' = {} /\ 1..added' = {}
    BY <2>1
  <2>3. QED  BY <2>1, <2>2 DEF HardMeansFile, HardHolds
<1>3. CASE UNCHANGED <<fileVars, formulaVars>>
  BY <1>3 DEF HardMeansFile, HardHolds, fileVars, formulaVars
<1>4. CASE ReadFails \/ FileRead \/ ObjectiveRefused \/ AllAdded \/ SolveModel \/ SolveNone
            \/ PrintObjective \/ PrintStatus \/ PrintModel \/ Return \/ TimeLimit
  BY <1>3, <1>4 DEF ReadFails, FileRead, ObjectiveRefused, AllAdded, SolveModel, SolveNone,
     PrintObjective, PrintStatus, PrintModel, Return, TimeLimit
<1>5. CASE Ended \/ UNCHANGED vars
  BY <1>3, <1>5 DEF Ended, vars
<1>6. QED  BY <1>1, <1>2, <1>4, <1>5 DEF Next

(* The inductive invariant.                                                *)
DriverInv == TypeOK /\ NumberingInv /\ HardMeansFile /\ SoftMeansObjective /\ AnswerInv

LEMMA DriverInvHolds == Spec => []DriverInv
<1>1. Init => DriverInv
  <2> SUFFICES ASSUME Init PROVE DriverInv
    OBVIOUS
  <2>1. TypeOK /\ NumberingInv
    BY TypeInit
  <2>2. HardMeansFile
    BY NothingAdded DEF Init
  <2>3. SoftMeansObjective
    BY DEF Init, SoftMeansObjective
  <2>4. ~ Refuted
    BY DEF Init, Refuted
  <2>5. AnswerInv
    BY <2>4 DEF Init, AnswerInv, Fixed, Solved
  <2>6. QED  BY <2>1, <2>2, <2>3, <2>5 DEF DriverInv
<1>2. DriverInv /\ [Next]_vars => DriverInv'
  BY TypeStep, HardStep, SoftStep, AnswerStep DEF DriverInv
<1>3. QED  BY <1>1, <1>2, PTL DEF Spec

-----------------------------------------------------------------------------
(* The assignments that satisfy the file that was read.                    *)
ReadFeasible ==
  {a \in Assignment : \A i \in DOMAIN constraints : ReadSatisfies(a, constraints[i])}

LEMMA IdsType ==
  ASSUME TypeOK, NumberingInv
  PROVE  Ids \subseteq Nat
<1>1. \A v \in DOMAIN name_to_id : name_to_id[v] \in Nat
  BY DEF NumberingInv
<1>2. \A i \in DOMAIN hard : hard[i].aux \in Nat
  <2>1. \A i \in DOMAIN hard : hard[i] \in Encoding
    BY DEF TypeOK
  <2>2. QED  BY <2>1 DEF Encoding
<1>3. QED  BY <1>1, <1>2 DEF Ids

(* Soundness of the encoding: a model gives the names values that satisfy  *)
(* the file.                                                               *)
LEMMA ModelsAreFeasible ==
  ASSUME TypeOK, NumberingInv, HardMeansFile, added = Len(constraints), NEW m \in Models
  PROVE  ValuesOf(name_to_id, m) \in ReadFeasible
<1>1. /\ ~ conflict /\ m \in SUBSET Ids
      /\ \A i \in DOMAIN hard : ClausesHold(hard[i], m)
  BY DEF Models
<1>2. m \in SUBSET Nat
  BY <1>1, IdsType
<1>3. HardHolds(hard, m)
  BY <1>1 DEF HardHolds, WeightHolds, ClausesHold
<1>4. \A k \in 1..added : ReadSatisfies(ValuesOf(name_to_id, m), constraints[k])
  BY <1>1, <1>2, <1>3 DEF HardMeansFile
<1>5. DOMAIN constraints = 1..added
  BY DEF TypeOK, FileOK
<1>6. ValuesOf(name_to_id, m) \in Assignment
  BY DEF ValuesOf, Assignment
<1>7. QED  BY <1>4, <1>5, <1>6 DEF ReadFeasible

(* Completeness: an assignment that satisfies the file is that of a model, *)
(* in which every auxiliary has the value of its literal; this is where    *)
(* no number may be used twice.                                            *)
TrueNumbers(a) == {name_to_id[v] : v \in {u \in DOMAIN name_to_id : a[u] = 1}}
LiteralTrue(e, N) == e.of # 0 /\ (e.of \in N) = e.lits[e.of].positive
ModelOf(a) ==
  TrueNumbers(a)
    \cup {hard[i].aux : i \in {j \in DOMAIN hard : LiteralTrue(hard[j], TrueNumbers(a))}}

LEMMA FeasibleHasModel ==
  ASSUME TypeOK, NumberingInv, HardMeansFile, added = Len(constraints), ~ IdReused,
         NEW a \in ReadFeasible
  PROVE  /\ ModelOf(a) \in Models
         /\ \A v \in DOMAIN name_to_id : ValuesOf(name_to_id, ModelOf(a))[v] = a[v]
<1> DEFINE N == TrueNumbers(a)
           m == ModelOf(a)
           b == ValuesOf(name_to_id, m)
<1>1. /\ a \in Assignment /\ \A i \in DOMAIN constraints : ReadSatisfies(a, constraints[i])
      /\ DOMAIN constraints = 1..added
      /\ \A i \in 1..added : constraints[i] \in Constraint
  BY DEF ReadFeasible, TypeOK, FileOK
<1>2. \A v \in DOMAIN name_to_id : (name_to_id[v] \in N) <=> a[v] = 1
  BY DEF TypeOK, Injective, TrueNumbers
<1>3. \A v \in DOMAIN name_to_id : (name_to_id[v] \in m) <=> a[v] = 1
  <2>1. \A i \in DOMAIN hard : LiteralTrue(hard[i], N) => hard[i].aux # 0
    BY DEF LiteralTrue, NumberingInv, Linked
  <2>2. QED  BY <1>2, <2>1 DEF ModelOf, IdReused
<1>4. \A v \in DOMAIN name_to_id : b[v] = a[v]
  BY <1>1, <1>3 DEF ValuesOf, TypeOK, Assignment
<1>5. m \in SUBSET Ids
  <2>1. N \subseteq Ids
    BY DEF TrueNumbers, Ids
  <2>2. ASSUME NEW i \in DOMAIN hard, hard[i].of # 0
        PROVE  hard[i].aux \in Ids
    BY <2>2 DEF NumberingInv, Linked, Ids
  <2>3. QED  BY <2>1, <2>2 DEF ModelOf, LiteralTrue
<1>6. m \in SUBSET Nat
  BY <1>5, IdsType
<1>7. ASSUME NEW k \in 1..added
      PROVE  ReadSatisfies(b, constraints[k])
  <2> DEFINE expr == constraints[k].expr
  <2>1. expr \in Expression /\ DOMAIN expr \subseteq DOMAIN name_to_id
    BY <1>1 DEF NumberingInv, Constraint
  <2>2. b \in Assignment
    BY DEF ValuesOf, Assignment
  <2> HIDE DEF expr, b
  <2>3. ReadValue(expr, b) = ReadValue(expr, a)
    BY <1>1, <1>4, <2>1, <2>2, ValueIsLocal
  <2>4. QED  BY <1>1, <2>3 DEF ReadSatisfies, expr
<1>8. ~ conflict /\ HardHolds(hard, m)
  BY <1>6, <1>7 DEF HardMeansFile
<1>9. ASSUME NEW i \in DOMAIN hard, hard[i].of # 0
      PROVE  (hard[i].aux \in m) = ((hard[i].of \in m) = hard[i].lits[hard[i].of].positive)
  <2>1. hard[i].aux # 0 /\ hard[i].of \in DOMAIN hard[i].lits
    BY <1>9 DEF NumberingInv, Linked
  <2>2. PICK v \in DOMAIN name_to_id : hard[i].of = name_to_id[v]
    BY <2>1 DEF NumberingInv, Linked
  <2>3. (hard[i].of \in m) <=> (hard[i].of \in N)
    BY <1>2, <1>3, <2>2
  <2>4. hard[i].aux \notin N
    BY <2>1 DEF IdReused, TrueNumbers
  <2>5. \A j \in DOMAIN hard : hard[j].aux = hard[i].aux => j = i
    BY <2>1 DEF IdReused
  <2>6. (hard[i].aux \in m) <=> LiteralTrue(hard[i], N)
    BY <2>4, <2>5 DEF ModelOf
  <2>7. (hard[i].aux \in m) <=> ((hard[i].of \in N) = hard[i].lits[hard[i].of].positive)
    BY <1>9, <2>6 DEF LiteralTrue
  <2> DEFINE p == hard[i].lits[hard[i].of].positive
             inM == hard[i].of \in m
             inN == hard[i].of \in N
             holds == hard[i].aux \in m
  <2>8. (inM <=> inN) /\ (holds <=> (inN = p))
    BY <2>3, <2>7
  <2>9. holds \in BOOLEAN /\ inM \in BOOLEAN /\ inN \in BOOLEAN
    OBVIOUS
  <2> HIDE DEF inM, inN, holds, p
  <2>10. holds = (inM = p)
    BY <2>8, <2>9
  <2>11. QED  BY <2>10 DEF inM, holds, p
<1>10. \A i \in DOMAIN hard : ClausesHold(hard[i], m)
  BY <1>8, <1>9 DEF HardHolds, WeightHolds, ClausesHold
<1>11. m \in Models
  BY <1>5, <1>8, <1>10 DEF Models
<1>12. QED  BY <1>4, <1>11

LEMMA NothingRounded ==
  ASSUME TypeOK, ~ Rounded
  PROVE  /\ ReadFeasible = Feasible
         /\ objective # <<>> => \A a : ReadObjective(a) = ObjectiveOf(a)
<1>1. ASSUME NEW i \in DOMAIN constraints, NEW a
      PROVE  ReadSatisfies(a, constraints[i]) <=> Satisfies(a, constraints[i])
  <2>1. Double(constraints[i].rhs) = constraints[i].rhs /\ AsWritten(constraints[i].expr)
    BY DEF Rounded, AsWritten
  <2>2. ReadValue(constraints[i].expr, a) = Value(constraints[i].expr, a)
    BY <2>1, WrittenValue
  <2>3. QED  BY <2>1, <2>2 DEF ReadSatisfies, Satisfies
<1>2. ASSUME objective # <<>>, NEW a
      PROVE  ReadObjective(a) = ObjectiveOf(a)
  <2>1. 1 \in DOMAIN objective
    BY <1>2 DEF TypeOK, FileOK
  <2>2. AsWritten(objective[1].expr)
    BY <2>1 DEF Rounded, AsWritten
  <2>3. QED  BY <2>2, WrittenValue DEF ReadObjective, ObjectiveOf
<1>3. QED  BY <1>1, <1>2 DEF ReadFeasible, Feasible

LEMMA AnswerIsTrue ==
  ASSUME DriverInv, ~ IdReused, ~ Rounded
  PROVE  AnswerTrue
<1> USE DEF DriverInv
<1> DEFINE expr == objective[1].expr
           k == TotalConstant(Parsed(expr))
<1>1. Values = ValuesOf(name_to_id, model)
  BY DEF Values, ValuesOf
<1>2. ASSUME Solved
      PROVE  Values \in ReadFeasible /\ model \in Models
  BY <1>1, <1>2, ModelsAreFeasible DEF AnswerInv, Fixed
<1>3. ASSUME oLine # <<>>
      PROVE  /\ oLine = <<ReadObjective(Values)>>
             /\ \A a \in ReadFeasible : ReadObjective(Values) <= ReadObjective(a)
  <2>1. objective # <<>> /\ oLine = <<ParsedValue(Parsed(expr), Values)>> /\ Solved
    BY <1>3 DEF AnswerInv, Solved
  <2>2. expr \in Expression
    BY <2>1, ObjectiveType
  <2>3. Values \in Assignment
    BY DEF Values, Assignment
  <2>4. ParsedValue(Parsed(expr), Values) = ReadValue(expr, Values) /\ ReadValue(expr, Values) \in Int
        /\ k \in Int
    BY <2>2, <2>3, PositiveForm
  <2>5. /\ \A n \in Models : Cost(model) <= Cost(n)
        /\ model \in Models /\ added = Len(constraints)
    BY <2>1 DEF AnswerInv, Fixed
  <2>6. /\ DOMAIN expr \subseteq DOMAIN name_to_id
        /\ \A m \in SUBSET Nat : Cost(m) = ReadValue(expr, ValuesOf(name_to_id, m)) - k
    BY <1>3, <2>1 DEF SoftMeansObjective, ObjectiveKept, ReadObjective
  <2>7. \A m \in Models : m \in SUBSET Nat
    BY IdsType DEF Models
  <2> HIDE DEF expr, k
  <2>8. ASSUME NEW a \in ReadFeasible
        PROVE  ReadValue(expr, Values) <= ReadValue(expr, a)
    <3> DEFINE m == ModelOf(a)
               b == ValuesOf(name_to_id, m)
    <3>1. m \in Models /\ \A v \in DOMAIN name_to_id : b[v] = a[v]
      BY <2>5, FeasibleHasModel
    <3>2. a \in Assignment /\ b \in Assignment
      BY DEF ReadFeasible, ValuesOf, Assignment
    <3> HIDE DEF m
    <3>3. Cost(model) <= Cost(m) /\ m \in SUBSET Nat /\ model \in SUBSET Nat
      BY <2>5, <2>7, <3>1
    <3>4. Cost(m) = ReadValue(expr, b) - k /\ Cost(model) = ReadValue(expr, Values) - k
      BY <1>1, <2>6, <3>3
    <3> HIDE DEF b
    <3>5. ReadValue(expr, b) = ReadValue(expr, a)
      BY <2>2, <2>6, <3>1, <3>2, ValueIsLocal
    <3>6. ReadValue(expr, a) \in Int
      BY <2>2, <3>2, PositiveForm
    <3>7. QED  BY <2>4, <3>3, <3>4, <3>5, <3>6
  <2>9. QED  BY <2>1, <2>4, <2>8 DEF ReadObjective, expr
(* Nothing was rounded, so what was read is the file.                      *)
<1>10. /\ ReadFeasible = Feasible
       /\ objective # <<>> => \A a : ReadObjective(a) = ObjectiveOf(a)
  BY NothingRounded
<1>4. \A i \in DOMAIN vLine : vLine[i] \in Feasible
  <2> SUFFICES ASSUME NEW i \in DOMAIN vLine PROVE vLine[i] \in Feasible
    OBVIOUS
  <2>1. vLine # <<>>
    OBVIOUS
  <2>2. vLine = <<Values>> /\ Solved
    BY <2>1 DEF AnswerInv, Solved
  <2>3. QED  BY <1>2, <1>10, <2>2
<1>5. \A i \in DOMAIN oLine :
        /\ oLine[i] \in {ObjectiveOf(a) : a \in Feasible}
        /\ \A a \in Feasible : oLine[i] <= ObjectiveOf(a)
  <2> SUFFICES ASSUME NEW i \in DOMAIN oLine
               PROVE  /\ oLine[i] \in {ObjectiveOf(a) : a \in Feasible}
                      /\ \A a \in Feasible : oLine[i] <= ObjectiveOf(a)
    OBVIOUS
  <2>1. oLine # <<>>
    OBVIOUS
  <2>2. Values \in Feasible
    BY <1>2, <1>10, <2>1 DEF Solved
  <2>3. /\ oLine = <<ObjectiveOf(Values)>>
        /\ \A a \in Feasible : ObjectiveOf(Values) <= ObjectiveOf(a)
    BY <1>3, <1>10, <2>1 DEF AnswerInv
  <2>4. oLine[i] = ObjectiveOf(Values)
    BY <2>3
  <2>5. QED  BY <2>2, <2>3, <2>4
<1>6. oLine # <<>> /\ vLine # <<>> => oLine[1] = ObjectiveOf(vLine[1])
  <2> SUFFICES ASSUME oLine # <<>>, vLine # <<>> PROVE oLine[1] = ObjectiveOf(vLine[1])
    OBVIOUS
  <2>1. oLine = <<ObjectiveOf(Values)>> /\ vLine = <<Values>>
    BY <1>3, <1>10 DEF AnswerInv
  <2>2. QED  BY <2>1
<1>7. Refuted => Feasible = {}
  <2> SUFFICES ASSUME Refuted, NEW a \in Feasible PROVE FALSE
    OBVIOUS
  <2>1. Models = {} /\ added = Len(constraints)
    BY DEF AnswerInv, Fixed
  <2>2. QED  BY <1>10, <2>1, FeasibleHasModel
<1>8. QED  BY <1>4, <1>5, <1>6, <1>7 DEF AnswerTrue, Refuted

(* What pb_rc2.py prints is true of the file it read: the values satisfy   *)
(* it, the objective is theirs and least, and UNSATISFIABLE is printed of  *)
(* no satisfiable file; unless the number of an auxiliary is also that of a*)
(* name or of another auxiliary, or a number of the file was rounded.      *)
THEOREM AnswersAreTrue == Spec => []AnswerTrueUnlessReusedOrRounded
<1>1. DriverInv => AnswerTrueUnlessReusedOrRounded
  BY AnswerIsTrue DEF AnswerTrueUnlessReusedOrRounded
<1>2. QED  BY <1>1, DriverInvHolds, PTL

-----------------------------------------------------------------------------
(* One answer.  What has been printed in each phase.                       *)
PrintedInv ==
  /\ phase \notin {"v", "return", "ended"} => sLines = <<>>
  /\ phase \notin {"return", "ended"} => vLine = <<>>
  /\ phase \in {"v", "return"} => sLines # <<>> /\ Len(sLines) = 1 /\ sLines[1] # "UNKNOWN"
  /\ phase = "v" => sLines[1] \in {"OPTIMUM FOUND", "SATISFIABLE"}
  /\ phase \notin {"s", "v", "return", "ended"} => oLine = <<>>
  /\ OneAnswer

LEMMA FirstLine ==
  ASSUME sLines = <<>>, NEW x \in Statuses, sLines' = Append(sLines, x)
  PROVE  /\ sLines' # <<>> /\ Len(sLines') = 1 /\ sLines'[1] = x
         /\ \A i \in DOMAIN sLines' : ~ (i > 1)
OBVIOUS

LEMMA PrintedStep ==
  ASSUME TypeOK, AnswerInv, PrintedInv, [Next]_vars
  PROVE  PrintedInv'
<1>1. CASE ReadStatement \/ ReadFails \/ FileRead \/ AddObjective \/ ObjectiveRefused
            \/ AddConstraint \/ AllAdded \/ SolveModel
  <2>1. /\ phase \in {"reading", "objective", "constraints", "solving"} /\ UNCHANGED outVars
        /\ phase' \notin {"v", "return", "ended"}
    BY <1>1, Zenon DEF ReadStatement, ReadFails, FileRead, AddObjective, ObjectiveRefused,
       AddConstraint, AllAdded, SolveModel
  <2>2. QED  BY <2>1 DEF PrintedInv, OneAnswer, outVars
<1>2. CASE SolveNone
  <2>1. sLines = <<>> /\ vLine = <<>> /\ oLine = <<>>
    BY <1>2 DEF SolveNone, PrintedInv
  <2>2. /\ sLines' = Append(sLines, "UNSATISFIABLE") /\ vLine' = <<>> /\ oLine' = <<>>
        /\ phase' = "return"
    BY <1>2, <2>1 DEF SolveNone
  <2>3. QED  BY <2>1, <2>2, FirstLine DEF PrintedInv, OneAnswer, Statuses
<1>3. CASE PrintObjective
  <2>1. sLines' = <<>> /\ vLine' = <<>> /\ phase' = "s"
    BY <1>3 DEF PrintObjective, PrintedInv
  <2>2. DOMAIN sLines' = {}
    BY <2>1
  <2>3. QED  BY <2>1, <2>2 DEF PrintedInv, OneAnswer
<1>4. CASE PrintStatus
  <2>1. sLines = <<>> /\ vLine' = <<>> /\ phase' = "v" /\ oLine' = oLine
    BY <1>4 DEF PrintStatus, PrintedInv
  <2>2. oLine # <<>> => objective # <<>>
    BY DEF AnswerInv
  <2>3. PICK x \in {"OPTIMUM FOUND", "SATISFIABLE"} :
          sLines' = Append(sLines, x) /\ (objective # <<>> => x = "OPTIMUM FOUND")
    BY <1>4 DEF PrintStatus
  <2>4. /\ Len(sLines') = 1 /\ sLines'[1] = x /\ sLines' # <<>>
        /\ \A i \in DOMAIN sLines' : ~ (i > 1)
    BY <2>1, <2>3, FirstLine DEF Statuses
  <2>5. OneAnswer'
    BY <2>1, <2>2, <2>3, <2>4 DEF OneAnswer
  <2>6. sLines'[1] # "UNKNOWN" /\ sLines'[1] \in {"OPTIMUM FOUND", "SATISFIABLE"}
    BY <2>3, <2>4
  <2>7. QED  BY <2>1, <2>4, <2>5, <2>6 DEF PrintedInv
<1>5. CASE PrintModel
  <2>1. /\ phase' = "return" /\ sLines' = sLines /\ oLine' = oLine
        /\ sLines # <<>> /\ Len(sLines) = 1 /\ sLines[1] \in {"OPTIMUM FOUND", "SATISFIABLE"}
    BY <1>5 DEF PrintModel, PrintedInv
  <2>2. sLines[1] # "UNKNOWN"
    BY <2>1
  <2>3. QED  BY <2>1, <2>2 DEF PrintedInv, OneAnswer
<1>6. CASE Return
  BY <1>6 DEF Return, PrintedInv, OneAnswer, outVars
<1>7. CASE TimeLimit
  <2>1. /\ sLines' = Append(sLines, "UNKNOWN") /\ phase' = "ended"
        /\ vLine' = vLine /\ oLine' = oLine /\ phase # "ended"
    BY <1>7 DEF TimeLimit
  <2>2. CASE sLines = <<>>
    <3>1. vLine = <<>>
      BY <2>2 DEF PrintedInv, OneAnswer
    <3>2. QED  BY <2>1, <2>2, <3>1, FirstLine DEF PrintedInv, OneAnswer, Statuses
  <2>3. CASE sLines # <<>>
    <3>1. Len(sLines) = 1 /\ sLines[1] # "UNKNOWN" /\ sLines \in Seq(Statuses)
      BY <2>1, <2>3 DEF PrintedInv, TypeOK
    <3>2. /\ Len(sLines') = 2 /\ sLines' # <<>> /\ sLines' \in Seq(Statuses)
          /\ sLines'[1] = sLines[1] /\ sLines'[2] = "UNKNOWN"
      <4>1. "UNKNOWN" \in Statuses
        BY DEF Statuses
      <4>2. QED  BY <2>1, <3>1, <4>1
    <3>3. \A i \in DOMAIN sLines' : i > 1 => i = 2 /\ i - 1 = 1
      BY <3>2
    <3>4. ASSUME NEW i \in DOMAIN sLines', i > 1
          PROVE  sLines'[i] = "UNKNOWN" /\ sLines'[i - 1] # "UNKNOWN"
      BY <3>1, <3>2, <3>3, <3>4
    <3>5. vLine # <<>> => sLines[1] \in {"OPTIMUM FOUND", "SATISFIABLE"}
      BY DEF PrintedInv, OneAnswer
    <3>6. oLine # <<>> => sLines[1] \in {"OPTIMUM FOUND", "UNKNOWN"}
      BY <2>3 DEF PrintedInv, OneAnswer
    <3>7. OneAnswer'
      BY <2>1, <3>2, <3>4, <3>5, <3>6 DEF OneAnswer
    <3>8. QED  BY <2>1, <3>7 DEF PrintedInv
  <2>4. QED  BY <2>2, <2>3
<1>8. CASE Ended \/ UNCHANGED vars
  BY <1>8 DEF Ended, vars, outVars, PrintedInv, OneAnswer
<1>9. QED  BY <1>1, <1>2, <1>3, <1>4, <1>5, <1>6, <1>7, <1>8 DEF Next

(* Wherever the alarm strikes, the first s line pb_rc2.py prints is its    *)
(* answer and only an UNKNOWN may follow it; a v line belongs to an answer *)
(* that has a model (main, the handler of the time limit).                 *)
THEOREM AnswersOnce == Spec => []OneAnswer
<1>1. Init => PrintedInv
  BY DEF Init, PrintedInv, OneAnswer
<1>2. DriverInv /\ PrintedInv /\ [Next]_vars => PrintedInv'
  BY PrintedStep DEF DriverInv
<1>3. PrintedInv => OneAnswer
  BY DEF PrintedInv
<1>4. QED  BY <1>1, <1>2, <1>3, DriverInvHolds, PTL DEF Spec

=============================================================================
