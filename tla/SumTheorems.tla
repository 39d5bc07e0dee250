----------------------------- MODULE SumTheorems -----------------------------
(***************************************************************************)
(* What the sum of a function over a finite set is: SumFunctionOnSet of    *)
(* the community modules, which CpuTime uses for the times of processes    *)
(* and Opb for the terms of an expression.                                 *)
(*                                                                         *)
(* The sum is a recursive function on the subsets of the set, so its laws  *)
(* need induction.  The induction principles of the library take an        *)
(* operator, which no prover here can instantiate; the one below takes the *)
(* set of the subsets that have the property.                              *)
(***************************************************************************)
EXTENDS Integers, Functions, FiniteSets, FiniteSetTheorems,
        WellFoundedInduction, TLAPS

(* Every nonempty set of natural numbers has a least element.              *)
LEMMA LeastNatural ==
  ASSUME NEW T \in SUBSET Nat, T # {}
  PROVE  \E m \in T : \A n \in T : m <= n
<1> DEFINE R == {ss \in Nat \X Nat : ss[1] < ss[2]}
<1>1. IsWellFoundedOn(R, Nat)
  BY NatLessThanWellFounded, Zenon DEF OpToRel
<1>2. PICK m \in T : \A n \in T : ~ (<<n, m>> \in R)
  BY <1>1, WFMin, Zenon
<1>3. \A n \in T : n < m => <<n, m>> \in R
  OBVIOUS
<1> HIDE DEF R
<1>4. \A n \in T : ~ (n < m)
  BY <1>2, <1>3, Zenon
<1>5. QED  BY <1>4

(* Induction over the subsets of a finite set: S is in Good if every       *)
(* subset of S is whose own proper subsets are.                            *)
LEMMA SubsetInduction ==
  ASSUME NEW S, IsFiniteSet(S), NEW Good,
         \A s \in SUBSET S : (\A t \in SUBSET s : t # s => t \in Good) => s \in Good
  PROVE  S \in Good
<1> SUFFICES ASSUME S \notin Good PROVE FALSE
  OBVIOUS
<1> DEFINE T == {Cardinality(s) : s \in {t \in SUBSET S : t \notin Good}}
<1>1. \A s \in SUBSET S : IsFiniteSet(s) /\ Cardinality(s) \in Nat
  BY FS_Subset, FS_CardinalityType
<1>2. T \in SUBSET Nat /\ Cardinality(S) \in T
  BY <1>1
<1>3. PICK m \in T : \A n \in T : m <= n
  BY <1>2, LeastNatural
<1>4. PICK s \in SUBSET S : s \notin Good /\ m = Cardinality(s)
  BY <1>3
<1>5. \A t \in SUBSET s : t # s => t \in Good
  <2> SUFFICES ASSUME NEW t \in SUBSET s, t # s, t \notin Good PROVE FALSE
    OBVIOUS
  <2>1. Cardinality(t) \in T
    BY <1>4
  <2>2. Cardinality(t) <= Cardinality(s) /\ Cardinality(t) # Cardinality(s)
    BY <1>1, FS_Subset
  <2>3. Cardinality(s) <= Cardinality(t)
    BY <1>3, <1>4, <2>1
  <2>4. t \in SUBSET S
    OBVIOUS
  <2>5. Cardinality(s) \in Nat /\ Cardinality(t) \in Nat
    BY <1>1, <2>4
  <2>6. QED  BY <2>2, <2>3, <2>5
<1>6. QED  BY <1>4, <1>5

(* Induction that adds one element at a time.                              *)
LEMMA ElementInduction ==
  ASSUME NEW S, IsFiniteSet(S), NEW Good, {} \in Good,
         \A s \in SUBSET S : \A x \in S \ s : s \in Good => s \cup {x} \in Good
  PROVE  S \in Good
<1>1. ASSUME NEW s \in SUBSET S, \A t \in SUBSET s : t # s => t \in Good
      PROVE  s \in Good
  <2>1. CASE s = {}
    BY <2>1
  <2>2. CASE s # {}
    <3>1. PICK x \in s : TRUE
      BY <2>2
    <3>2. s \ {x} \in Good /\ s = (s \ {x}) \cup {x}
      BY <1>1
    <3>3. s \ {x} \in SUBSET S /\ x \in S \ (s \ {x})
      OBVIOUS
    <3>4. QED  BY <3>2, <3>3
  <2>3. QED  BY <2>1, <2>2
<1>2. QED  BY <1>1, SubsetInduction

-----------------------------------------------------------------------------
(* The recursion that defines the sum.                                     *)
Some(s) == CHOOSE x \in s : TRUE

SumOfRest(f, s, g) == IF s = {} THEN 0 ELSE f[Some(s)] + g[s \ {Some(s)}]

SumsOn(f, S, g) == g = [s \in SUBSET S |-> SumOfRest(f, s, g)]

LEMMA SumIsChosen ==
  ASSUME NEW f, NEW S
  PROVE  SumFunctionOnSet(f, S) = (CHOOSE g : SumsOn(f, S, g))[S]
BY Zenon DEF SumFunctionOnSet, FoldFunctionOnSet, MapThenFoldSet, SumsOn, SumOfRest, Some

LEMMA SumsAgree ==
  ASSUME NEW f, NEW S, IsFiniteSet(S), NEW R \in SUBSET S,
         NEW g, SumsOn(f, S, g), NEW h, SumsOn(f, R, h)
  PROVE  \A s \in SUBSET R : g[s] = h[s]
<1> DEFINE Good == {s \in SUBSET R : g[s] = h[s]}
<1> SUFFICES ASSUME NEW r \in SUBSET R PROVE r \in Good
  OBVIOUS
<1>1. ASSUME NEW s \in SUBSET r, \A t \in SUBSET s : t # s => t \in Good
      PROVE  s \in Good
  <2>1. g[s] = SumOfRest(f, s, g) /\ h[s] = SumOfRest(f, s, h)
    BY DEF SumsOn
  <2>2. CASE s = {}
    BY <2>1, <2>2 DEF SumOfRest
  <2>3. CASE s # {}
    <3>1. Some(s) \in s
      BY <2>3 DEF Some
    <3>2. s \ {Some(s)} \in Good
      BY <1>1, <3>1
    <3>3. QED  BY <2>1, <3>2 DEF SumOfRest
  <2>4. QED  BY <2>2, <2>3
<1>2. IsFiniteSet(r)
  BY FS_Subset
<1> HIDE DEF Good
<1>3. QED  BY <1>1, <1>2, SubsetInduction

LEMMA SumsExist ==
  ASSUME NEW f, NEW S, IsFiniteSet(S)
  PROVE  \E g : SumsOn(f, S, g)
<1> DEFINE Good == {s \in SUBSET S : \E g : SumsOn(f, s, g)}
<1>1. ASSUME NEW s \in SUBSET S, \A t \in SUBSET s : t # s => t \in Good
      PROVE  s \in Good
  <2> DEFINE Of(t) == CHOOSE g : SumsOn(f, t, g)
             h == [t \in SUBSET s |->
                     IF t = {} THEN 0
                     ELSE f[Some(t)] + Of(t \ {Some(t)})[t \ {Some(t)}]]
  <2>1. \A t \in SUBSET s : t # s => SumsOn(f, t, Of(t))
    BY <1>1
  <2>2. IsFiniteSet(s)
    BY FS_Subset
  <2>3. ASSUME NEW t \in SUBSET s, t # s PROVE h[t] = Of(t)[t]
    <3>1. Of(t)[t] = SumOfRest(f, t, Of(t))
      BY <2>1, <2>3 DEF SumsOn
    <3>2. CASE t = {}
      BY <3>1, <3>2 DEF SumOfRest
    <3>3. CASE t # {}
      <4> DEFINE u == t \ {Some(t)}
      <4>1. Some(t) \in t
        BY <3>3 DEF Some
      <4>2. u \in SUBSET t /\ u \in SUBSET s /\ u # s
        BY <4>1
      <4>3. SumsOn(f, t, Of(t)) /\ SumsOn(f, u, Of(u)) /\ IsFiniteSet(t)
        BY <2>1, <2>2, <2>3, <4>2, FS_Subset
      <4> HIDE DEF Of, u
      <4>4. Of(t)[u] = Of(u)[u]
        BY <4>2, <4>3, SumsAgree
      <4> USE DEF u
      <4>5. QED  BY <3>1, <3>3, <4>4 DEF SumOfRest
    <3>4. QED  BY <3>2, <3>3
  <2>4. \A t \in SUBSET s : h[t] = SumOfRest(f, t, h)
    <3> SUFFICES ASSUME NEW t \in SUBSET s PROVE h[t] = SumOfRest(f, t, h)
      OBVIOUS
    <3>1. CASE t = {}
      BY <3>1 DEF SumOfRest
    <3>2. CASE t # {}
      <4> DEFINE u == t \ {Some(t)}
      <4>1. Some(t) \in t
        BY <3>2 DEF Some
      <4>2. u \in SUBSET s /\ u # s
        BY <4>1
      <4>3. h[u] = Of(u)[u]
        BY <2>3, <4>2
      <4>4. h[t] = f[Some(t)] + Of(u)[u]
        BY <3>2
      <4> HIDE DEF h, Of
      <4>5. QED  BY <3>2, <4>3, <4>4 DEF SumOfRest
    <3>3. QED  BY <3>1, <3>2
  <2>5. SumsOn(f, s, h)
    <3>1. h = [t \in SUBSET s |-> h[t]]
      OBVIOUS
    <3> HIDE DEF h
    <3>2. QED  BY <3>1, <2>4 DEF SumsOn
  <2>6. QED  BY <2>5
<1> HIDE DEF Good
<1>2. S \in Good
  BY <1>1, SubsetInduction
<1> USE DEF Good
<1>3. QED  BY <1>2

(* The sum of a nonempty set is that of a chosen element and of the rest.  *)
LEMMA SumUnfolds ==
  ASSUME NEW f, NEW S, IsFiniteSet(S)
  PROVE  SumFunctionOnSet(f, S) =
           IF S = {} THEN 0 ELSE f[Some(S)] + SumFunctionOnSet(f, S \ {Some(S)})
<1> DEFINE g == CHOOSE g : SumsOn(f, S, g)
           R == S \ {Some(S)}
           h == CHOOSE h : SumsOn(f, R, h)
<1>1. SumsOn(f, S, g) /\ IsFiniteSet(R)
  BY SumsExist, FS_Subset
<1>2. SumsOn(f, R, h)
  BY <1>1, SumsExist
<1>3. SumFunctionOnSet(f, S) = g[S] /\ SumFunctionOnSet(f, R) = h[R]
  BY SumIsChosen
<1>4. R \in SUBSET S /\ R \in SUBSET R
  OBVIOUS
<1> HIDE DEF g, h, R
<1>5. g[S] = SumOfRest(f, S, g)
  BY <1>1 DEF SumsOn
<1>6. g[R] = h[R]
  BY <1>1, <1>2, <1>4, SumsAgree
<1>7. QED  BY <1>3, <1>5, <1>6 DEF SumOfRest, R

-----------------------------------------------------------------------------
(* The sum of the empty set; the sum of integers is an integer, whatever   *)
(* element is taken out first.                                             *)
LEMMA SumEmpty == \A f : SumFunctionOnSet(f, {}) = 0
BY SumUnfolds, FS_EmptySet

LEMMA SumRemove ==
  ASSUME NEW f, NEW S, IsFiniteSet(S), \A x \in S : f[x] \in Int
  PROVE  /\ SumFunctionOnSet(f, S) \in Int
         /\ \A x \in S : SumFunctionOnSet(f, S) = f[x] + SumFunctionOnSet(f, S \ {x})
<1> DEFINE Total(s) == SumFunctionOnSet(f, s)
           Good == {s \in SUBSET S : /\ Total(s) \in Int
                                    /\ \A x \in s : Total(s) = f[x] + Total(s \ {x})}
<1> HIDE DEF Total
<1>1. ASSUME NEW s \in SUBSET S, \A t \in SUBSET s : t # s => t \in Good
      PROVE  s \in Good
  <2>1. Total(s) = IF s = {} THEN 0 ELSE f[Some(s)] + Total(s \ {Some(s)})
    BY SumUnfolds, FS_Subset DEF Total
  <2>2. CASE s = {}
    BY <2>1, <2>2
  <2>3. CASE s # {}
    <3> DEFINE y == Some(s)
    <3>1. y \in s /\ s \ {y} \in Good
      BY <1>1, <2>3 DEF Some
    <3> HIDE DEF y
    <3>2. Total(s) = f[y] + Total(s \ {y})
      BY <2>1, <2>3 DEF y
    <3>3. f[y] \in Int /\ Total(s \ {y}) \in Int
      BY <3>1
    <3>4. ASSUME NEW x \in s, x # y PROVE Total(s) = f[x] + Total(s \ {x})
      <4> DEFINE r == (s \ {x}) \ {y}
      <4>1. s \ {x} \in Good
        BY <1>1
      <4>2. Total(s \ {x}) = f[y] + Total(r)
        BY <3>1, <3>4, <4>1
      <4>3. Total(s \ {y}) = f[x] + Total((s \ {y}) \ {x})
        BY <3>1, <3>4
      <4>4. Total((s \ {y}) \ {x}) = Total(r)
        <5>1. (s \ {y}) \ {x} = r
          OBVIOUS
        <5>2. QED  BY <5>1, Zenon
      <4>5. r \in SUBSET s /\ r # s
        BY <3>1
      <4>6. f[x] \in Int /\ Total(r) \in Int
        BY <1>1, <4>5
      <4> HIDE DEF r
      <4>7. QED  BY <3>2, <3>3, <4>2, <4>3, <4>4, <4>6
    <3>5. QED  BY <3>2, <3>3, <3>4
  <2>4. QED  BY <2>2, <2>3
<1> HIDE DEF Good
<1>2. S \in Good
  BY <1>1, SubsetInduction
<1> USE DEF Good, Total
<1>3. QED  BY <1>2

LEMMA SumAdd ==
  ASSUME NEW f, NEW S, IsFiniteSet(S), \A y \in S : f[y] \in Int,
         NEW x, x \notin S, f[x] \in Int
  PROVE  SumFunctionOnSet(f, S \cup {x}) = f[x] + SumFunctionOnSet(f, S)
<1>1. IsFiniteSet(S \cup {x})
  BY FS_AddElement
<1>2. (S \cup {x}) \ {x} = S
  OBVIOUS
<1>3. QED  BY <1>1, <1>2, SumRemove

LEMMA SumIsInt ==
  ASSUME NEW f, NEW S, IsFiniteSet(S), \A x \in S : f[x] \in Int
  PROVE  SumFunctionOnSet(f, S) \in Int
BY SumRemove

-----------------------------------------------------------------------------
(* The laws of sums that the models need.  Functions that agree on the set *)
(* have the same sum; the sum of a pointwise sum; a sum is monotone.       *)
LEMMA SumPlus ==
  ASSUME NEW S, IsFiniteSet(S), NEW f, NEW g, NEW h,
         \A x \in S : f[x] \in Int /\ g[x] \in Int /\ h[x] = f[x] + g[x]
  PROVE  SumFunctionOnSet(h, S) = SumFunctionOnSet(f, S) + SumFunctionOnSet(g, S)
<1> DEFINE Total(k, s) == SumFunctionOnSet(k, s)
           Good == {s \in SUBSET S : Total(h, s) = Total(f, s) + Total(g, s)}
<1>1. {} \in Good
  BY SumEmpty
<1>2. ASSUME NEW s \in SUBSET S, NEW x \in S \ s, s \in Good
      PROVE  s \cup {x} \in Good
  <2>1. IsFiniteSet(s) /\ x \notin s
    BY FS_Subset
  <2>2. /\ Total(h, s \cup {x}) = h[x] + Total(h, s)
        /\ Total(f, s \cup {x}) = f[x] + Total(f, s)
        /\ Total(g, s \cup {x}) = g[x] + Total(g, s)
    BY <2>1, SumAdd
  <2>3. Total(f, s) \in Int /\ Total(g, s) \in Int
    BY <2>1, SumIsInt
  <2> HIDE DEF Total
  <2>4. Total(h, s \cup {x}) = Total(f, s \cup {x}) + Total(g, s \cup {x})
    BY <1>2, <2>2, <2>3
  <2>5. QED  BY <2>4
<1> HIDE DEF Good
<1>3. S \in Good
  BY <1>1, <1>2, ElementInduction
<1> USE DEF Good
<1>4. QED  BY <1>3

LEMMA SumMonotone ==
  ASSUME NEW S, IsFiniteSet(S), NEW f, NEW g,
         \A x \in S : f[x] \in Int /\ g[x] \in Int /\ f[x] <= g[x]
  PROVE  SumFunctionOnSet(f, S) <= SumFunctionOnSet(g, S)
<1> DEFINE Total(k, s) == SumFunctionOnSet(k, s)
           Good == {s \in SUBSET S : Total(f, s) <= Total(g, s)}
<1>1. {} \in Good
  BY SumEmpty
<1>2. ASSUME NEW s \in SUBSET S, NEW x \in S \ s, s \in Good
      PROVE  s \cup {x} \in Good
  <2>1. IsFiniteSet(s) /\ x \notin s
    BY FS_Subset
  <2>2. /\ Total(f, s \cup {x}) = f[x] + Total(f, s)
        /\ Total(g, s \cup {x}) = g[x] + Total(g, s)
    BY <2>1, SumAdd
  <2>3. Total(f, s) \in Int /\ Total(g, s) \in Int
    BY <2>1, SumIsInt
  <2> HIDE DEF Total
  <2>4. Total(f, s \cup {x}) <= Total(g, s \cup {x})
    BY <1>2, <2>2, <2>3
  <2>5. QED  BY <2>4
<1> HIDE DEF Good
<1>3. S \in Good
  BY <1>1, <1>2, ElementInduction
<1> USE DEF Good
<1>4. QED  BY <1>3

LEMMA SumSame ==
  ASSUME NEW S, IsFiniteSet(S), NEW f, NEW g,
         \A x \in S : f[x] \in Int /\ g[x] = f[x]
  PROVE  SumFunctionOnSet(g, S) = SumFunctionOnSet(f, S)
<1>1. /\ SumFunctionOnSet(f, S) <= SumFunctionOnSet(g, S)
      /\ SumFunctionOnSet(g, S) <= SumFunctionOnSet(f, S)
  BY SumMonotone
<1>2. SumFunctionOnSet(f, S) \in Int /\ SumFunctionOnSet(g, S) \in Int
  BY SumIsInt
<1>3. QED  BY <1>1, <1>2

LEMMA SumZero ==
  ASSUME NEW S, IsFiniteSet(S), NEW f, \A x \in S : f[x] = 0
  PROVE  SumFunctionOnSet(f, S) = 0
<1>1. SumFunctionOnSet(f, S) = SumFunctionOnSet(f, S) + SumFunctionOnSet(f, S)
  BY SumPlus
<1>2. SumFunctionOnSet(f, S) \in Int
  BY SumIsInt
<1>3. \A x \in Int : x = x + x => x = 0
  OBVIOUS
<1>4. QED  BY <1>1, <1>2, <1>3

(* What a change of one element does to the sum.                           *)
LEMMA SumChange ==
  ASSUME NEW S, IsFiniteSet(S), NEW f, NEW g, NEW x \in S,
         \A y \in S : f[y] \in Int, g[x] \in Int,
         \A y \in S \ {x} : g[y] = f[y]
  PROVE  SumFunctionOnSet(g, S) = SumFunctionOnSet(f, S) - f[x] + g[x]
<1> DEFINE R == S \ {x}
<1>1. IsFiniteSet(R)
  BY FS_Subset
<1>2. SumFunctionOnSet(g, R) = SumFunctionOnSet(f, R)
  BY <1>1, SumSame
<1>3. \A y \in S : g[y] \in Int
  OBVIOUS
<1>4. /\ SumFunctionOnSet(f, S) = f[x] + SumFunctionOnSet(f, R)
      /\ SumFunctionOnSet(g, S) = g[x] + SumFunctionOnSet(g, R)
  BY <1>3, SumRemove
<1>5. SumFunctionOnSet(f, R) \in Int
  BY <1>1, SumIsInt
<1>6. QED  BY <1>2, <1>4, <1>5

(* The sum over a part of the set, when nothing is negative.               *)
LEMMA SumOfPart ==
  ASSUME NEW S, IsFiniteSet(S), NEW f, \A x \in S : f[x] \in Nat,
         NEW T \in SUBSET S
  PROVE  SumFunctionOnSet(f, T) <= SumFunctionOnSet(f, S)
<1> DEFINE Total(s) == SumFunctionOnSet(f, s)
           Good == {s \in SUBSET S : Total(T \cap s) <= Total(s)}
<1>1. {} \in Good
  <2>1. T \cap {} = {}
    OBVIOUS
  <2>2. QED  BY <2>1, SumEmpty
<1>2. ASSUME NEW s \in SUBSET S, NEW x \in S \ s, s \in Good
      PROVE  s \cup {x} \in Good
  <2>1. /\ IsFiniteSet(s) /\ IsFiniteSet(T \cap s)
        /\ x \notin s /\ x \notin T \cap s
    BY FS_Subset
  <2>2. /\ Total(s \cup {x}) = f[x] + Total(s)
        /\ Total((T \cap s) \cup {x}) = f[x] + Total(T \cap s)
    BY <2>1, SumAdd
  <2>3. Total(s) \in Int /\ Total(T \cap s) \in Int /\ f[x] \in Nat
    BY <2>1, SumIsInt
  <2>4. \/ T \cap (s \cup {x}) = T \cap s
        \/ T \cap (s \cup {x}) = (T \cap s) \cup {x}
    OBVIOUS
  <2>5. \/ Total(T \cap (s \cup {x})) = Total(T \cap s)
        \/ Total(T \cap (s \cup {x})) = Total((T \cap s) \cup {x})
    BY <2>4, Zenon
  <2> HIDE DEF Total
  <2>6. Total(T \cap (s \cup {x})) <= Total(s \cup {x})
    BY <1>2, <2>2, <2>3, <2>5
  <2>7. QED  BY <2>6
<1> HIDE DEF Good
<1>3. S \in Good
  BY <1>1, <1>2, ElementInduction
<1> USE DEF Good
<1>4. T \cap S = T
  OBVIOUS
<1>5. QED  BY <1>3, <1>4

(* The same terms under other names.                                       *)
LEMMA ImageFinite ==
  ASSUME NEW S, IsFiniteSet(S), NEW p
  PROVE  IsFiniteSet({p[x] : x \in S})
<1> DEFINE Image(s) == {p[x] : x \in s}
           Good == {s \in SUBSET S : IsFiniteSet(Image(s))}
<1>1. {} \in Good
  <2>1. Image({}) = {}
    OBVIOUS
  <2>2. QED  BY <2>1, FS_EmptySet
<1>2. ASSUME NEW s \in SUBSET S, NEW x \in S \ s, s \in Good
      PROVE  s \cup {x} \in Good
  <2>1. Image(s \cup {x}) = Image(s) \cup {p[x]}
    OBVIOUS
  <2>2. IsFiniteSet(Image(s) \cup {p[x]})
    <3>1. IsFiniteSet(Image(s))
      BY <1>2
    <3> HIDE DEF Image
    <3>2. QED  BY <3>1, FS_AddElement
  <2>3. IsFiniteSet(Image(s \cup {x}))
    BY <2>1, <2>2
  <2>4. QED  BY <2>3
<1> HIDE DEF Good
<1>3. S \in Good
  BY <1>1, <1>2, ElementInduction
<1> USE DEF Good
<1>4. QED  BY <1>3

LEMMA SumRenamed ==
  ASSUME NEW S, IsFiniteSet(S), NEW f, NEW p, NEW g,
         \A x \in S : f[x] \in Int /\ g[p[x]] = f[x],
         \A x, y \in S : p[x] = p[y] => x = y
  PROVE  SumFunctionOnSet(g, {p[x] : x \in S}) = SumFunctionOnSet(f, S)
<1> DEFINE Image(s) == {p[x] : x \in s}
           Good == {s \in SUBSET S : SumFunctionOnSet(g, Image(s)) = SumFunctionOnSet(f, s)}
<1>1. {} \in Good
  <2>1. Image({}) = {}
    OBVIOUS
  <2>2. QED  BY <2>1, SumEmpty
<1>2. ASSUME NEW s \in SUBSET S, NEW x \in S \ s, s \in Good
      PROVE  s \cup {x} \in Good
  <2>1. IsFiniteSet(s) /\ x \notin s
    BY FS_Subset
  <2>2. IsFiniteSet(Image(s))
    BY <2>1, ImageFinite
  <2>3. Image(s \cup {x}) = Image(s) \cup {p[x]} /\ p[x] \notin Image(s)
    OBVIOUS
  <2>4. (\A y \in Image(s) : g[y] \in Int) /\ g[p[x]] \in Int
    OBVIOUS
  <2> HIDE DEF Image
  <2>5. SumFunctionOnSet(g, Image(s \cup {x})) = g[p[x]] + SumFunctionOnSet(g, Image(s))
    BY <2>2, <2>3, <2>4, SumAdd
  <2>6. SumFunctionOnSet(f, s \cup {x}) = f[x] + SumFunctionOnSet(f, s)
    BY <2>1, SumAdd
  <2>7. QED  BY <1>2, <2>5, <2>6
<1> HIDE DEF Good
<1>3. S \in Good
  BY <1>1, <1>2, ElementInduction
<1> USE DEF Good
<1>4. QED  BY <1>3

(* A finite set of integers has a greatest element.                        *)
LEMMA GreatestElement ==
  ASSUME NEW S \in SUBSET Int, IsFiniteSet(S), S # {}
  PROVE  \E x \in S : \A y \in S : x >= y
<1> DEFINE Good == {s \in SUBSET S : s # {} => \E x \in s : \A y \in s : x >= y}
<1>1. {} \in Good
  OBVIOUS
<1>2. ASSUME NEW s \in SUBSET S, NEW x \in S \ s, s \in Good
      PROVE  s \cup {x} \in Good
  <2>1. CASE s = {}
    BY <2>1
  <2>2. CASE s # {}
    <3>1. PICK z \in s : \A y \in s : z >= y
      BY <1>2, <2>2
    <3>2. CASE x >= z
      <4>1. \A y \in s \cup {x} : x >= y
        BY <3>1, <3>2
      <4>2. QED  BY <4>1
    <3>3. CASE ~ (x >= z)
      <4>1. \A y \in s \cup {x} : z >= y
        BY <3>1, <3>3
      <4>2. QED  BY <4>1
    <3>4. QED  BY <3>2, <3>3
  <2>3. QED  BY <2>1, <2>2
<1> HIDE DEF Good
<1>3. S \in Good
  BY <1>1, <1>2, ElementInduction
<1> USE DEF Good
<1>4. QED  BY <1>3
=============================================================================
