---------------------------- MODULE OutputProofs ----------------------------
(***************************************************************************)
(* Proofs about module OutputFilter, for every start and limit and however *)
(* the output is cut into chunks, and about module Output, which runs it   *)
(* inside runsolver, for every size of chunk, pipe and buffer, every       *)
(* output of the solver and every interleaving of the solver, the thread,  *)
(* the signals, the clock and the end of runsolver: the filter behaves     *)
(* like the filter of module OutputFilter alone, each line has its stamp,  *)
(* no stamp is too early, the EOF line is a line of its own, and the file  *)
(* ends up complete. And about module LineSplitter, which cuts the lines   *)
(* of that file, for every input, length of words and limit: no word of    *)
(* the answer is lost and the pieces fit.                                  *)
(***************************************************************************)
EXTENDS Output, LineSplitter, SumTheorems, SequenceTheorems, TLAPS

-----------------------------------------------------------------------------
(* Arithmetic of the circular buffer.                                      *)

LEMMA DivMod ==
  ASSUME NEW a \in Int, NEW b \in Nat \ {0}
  PROVE  /\ a % b \in 0..(b - 1) /\ a \div b \in Int
         /\ a = (a \div b) * b + (a % b)
BY SMT

LEMMA ModUnique ==
  ASSUME NEW b \in Nat \ {0}, NEW q \in Int, NEW r \in 0..(b - 1)
  PROVE  (q * b + r) % b = r
BY Z3

LEMMA ModShift ==
  ASSUME NEW b \in Nat \ {0}, NEW x \in Int, NEW k \in Int
  PROVE  (x + k * b) % b = x % b
<1>1. PICK q \in Int, r \in 0..(b - 1) : x = q * b + r
  BY DivMod
<1>2. (q + k) * b = q * b + k * b
  BY SMT
<1>3. x + k * b = (q + k) * b + r
  BY <1>1, <1>2, SMT
<1>4. q + k \in Int
  BY SMT
<1>5. ((q + k) * b + r) % b = r
  BY ModUnique, <1>4
<1>6. QED  BY <1>1, <1>3, <1>5, ModUnique

LEMMA ModAdd ==
  ASSUME NEW a \in Int, NEW b \in Nat \ {0}, NEW c \in Int
  PROVE  ((a % b) + c) % b = (a + c) % b
<1>1. PICK q \in Int, r \in 0..(b - 1) : a = q * b + r /\ a % b = r
  BY DivMod
<1>2. a + c = (r + c) + q * b /\ r + c \in Int
  BY <1>1, SMT
<1>3. ((r + c) + q * b) % b = (r + c) % b
  BY <1>2, ModShift
<1>4. QED  BY <1>1, <1>2, <1>3

(* Two numbers of the same place are at least one round apart.             *)
LEMMA ModFar ==
  ASSUME NEW a \in Int, NEW b \in Nat \ {0}, NEW c \in Int, a % b = c % b, a > c
  PROVE  a >= c + b
<1>1. PICK q \in Int, r \in 0..(b - 1) : a = q * b + r /\ a % b = r
  BY DivMod
<1>2. PICK p \in Int : c = p * b + r
  BY <1>1, DivMod
<1>3. q * b > p * b
  BY <1>1, <1>2, SMT
<1>4. q > p
  BY <1>3, SMT
<1>5. q * b >= (p + 1) * b
  BY <1>4, SMT
<1>6. (p + 1) * b = p * b + b
  BY SMT
<1>7. QED  BY <1>1, <1>2, <1>5, <1>6, SMT

LEMMA ModSmall ==
  ASSUME NEW b \in Nat \ {0}, NEW r \in 0..(b - 1)
  PROVE  r % b = r
BY SMT

-----------------------------------------------------------------------------
(* Sequences.                                                              *)

LEMMA BufferSize == bufferSize \in Nat \ {0} /\ activateSize \in Nat
BY FilterAssumption DEF bufferSize

(* What the bytes from i to j are as a sequence.                           *)
LEMMA BytesSeq ==
  ASSUME NEW i \in Nat \ {0}, NEW j \in Nat, j >= i - 1
  PROVE  /\ Bytes(i, j) \in Seq(Nat)
         /\ Len(Bytes(i, j)) = j - i + 1
         /\ \A k \in 1..(j - i + 1) : Bytes(i, j)[k] = i + k - 1
<1> DEFINE n == j - i + 1
<1>1. n \in Nat
  OBVIOUS
<1>2. Bytes(i, j) = [k \in 1..n |-> i + k - 1]
  BY DEF Bytes
<1>3. \A k \in 1..n : i + k - 1 \in Nat
  OBVIOUS
<1> HIDE DEF n
<1>4. /\ Bytes(i, j) \in Seq(Nat) /\ Len(Bytes(i, j)) = n
      /\ \A k \in 1..n : Bytes(i, j)[k] = i + k - 1
  BY <1>1, <1>2, <1>3
<1>5. QED  BY <1>4 DEF n

LEMMA BytesConcat ==
  ASSUME NEW i \in Nat \ {0}, NEW n \in Nat, NEW m \in Nat, n >= i - 1, m >= n
  PROVE  Bytes(i, n) \o Bytes(n + 1, m) = Bytes(i, m)
<1> DEFINE s == Bytes(i, n)
           t == Bytes(n + 1, m)
           u == Bytes(i, m)
<1>1. /\ s \in Seq(Nat) /\ Len(s) = n - i + 1
      /\ \A k \in 1..(n - i + 1) : s[k] = i + k - 1
  BY BytesSeq
<1>2. n + 1 \in Nat \ {0} /\ m >= (n + 1) - 1
  OBVIOUS
<1>3. /\ t \in Seq(Nat) /\ Len(t) = m - (n + 1) + 1
      /\ \A k \in 1..(m - (n + 1) + 1) : t[k] = (n + 1) + k - 1
  BY <1>2, BytesSeq
<1>4. /\ u \in Seq(Nat) /\ Len(u) = m - i + 1
      /\ \A k \in 1..(m - i + 1) : u[k] = i + k - 1
  <2>1. m >= i - 1
    OBVIOUS
  <2>2. QED  BY <2>1, BytesSeq
<1> HIDE DEF s, t, u
<1>5. /\ s \o t \in Seq(Nat) /\ Len(s \o t) = Len(s) + Len(t)
      /\ \A k \in 1..(Len(s) + Len(t)) :
           (s \o t)[k] = IF k <= Len(s) THEN s[k] ELSE t[k - Len(s)]
  BY <1>1, <1>3, ConcatProperties
<1>6. Len(s \o t) = Len(u)
  BY <1>1, <1>3, <1>4, <1>5
<1>7. ASSUME NEW k \in 1..Len(s \o t)
      PROVE  (s \o t)[k] = u[k]
  <2>1. k \in 1..(m - i + 1) /\ u[k] = i + k - 1
    BY <1>4, <1>6
  <2>2. CASE k <= n - i + 1
    BY <1>1, <1>3, <1>5, <2>1, <2>2
  <2>3. CASE ~ k <= n - i + 1
    <3>1. (s \o t)[k] = t[k - (n - i + 1)]
      BY <1>1, <1>3, <1>5, <2>1, <2>3
    <3>2. k - (n - i + 1) \in 1..(m - (n + 1) + 1)
      BY <2>1, <2>3
    <3>3. QED  BY <1>3, <2>1, <3>1, <3>2
  <2>4. QED  BY <2>2, <2>3
<1>8. s \o t = u
  BY <1>4, <1>5, <1>6, <1>7, SeqEqual
<1>9. QED  BY <1>8 DEF s, t, u

LEMMA NoBytes ==
  ASSUME NEW i \in Nat \ {0}
  PROVE  Bytes(i, i - 1) = <<>>
BY BytesSeq, EmptySeq

(* What one call of write(2) takes and leaves are the whole.               *)
LEMMA SplitSeq ==
  ASSUME NEW S, NEW p \in Seq(S), NEW n \in 1..Len(p)
  PROVE  /\ SubSeq(p, 1, n) \in Seq(S) /\ SubSeq(p, n + 1, Len(p)) \in Seq(S)
         /\ SubSeq(p, 1, n) \o SubSeq(p, n + 1, Len(p)) = p
<1>1. /\ 1 \in 1..(Len(p) + 1) /\ n \in (1 - 1)..Len(p) /\ Len(p) \in n..Len(p)
      /\ Len(p) \in Nat
  BY LenProperties
<1>2. SubSeq(p, 1, n) \o SubSeq(p, n + 1, Len(p)) = SubSeq(p, 1, Len(p))
  BY <1>1, ConcatAdjacentSubSeq
<1>3. SubSeq(p, 1, Len(p)) = p
  BY SubSeqFull
<1>4. (\A i \in 1..n : p[i] \in S) /\ (\A i \in (n + 1)..Len(p) : p[i] \in S)
  BY <1>1, ElementOfSeq
<1>5. SubSeq(p, 1, n) \in Seq(S) /\ SubSeq(p, n + 1, Len(p)) \in Seq(S)
  BY <1>1, <1>4, SubSeqProperties
<1>6. QED  BY <1>2, <1>3, <1>5

LEMMA Regroup ==
  ASSUME NEW S, NEW f, NEW s, NEW t, f \in Seq(S), s \in Seq(S), t \in Seq(S)
  PROVE  (f \o s) \o t = f \o (s \o t)
BY ConcatAssociative

LEMMA TakenFromSeq ==
  ASSUME NEW S, NEW f \in Seq(S), NEW p \in Seq(S), NEW n \in 1..Len(p)
  PROVE  (f \o SubSeq(p, 1, n)) \o SubSeq(p, n + 1, Len(p)) = f \o p
<1> DEFINE s == SubSeq(p, 1, n)
           t == SubSeq(p, n + 1, Len(p))
<1>1. s \in Seq(S) /\ t \in Seq(S)
  BY SplitSeq
<1>2. s \o t = p
  BY SplitSeq
<1> HIDE DEF s, t
<1>3. (f \o s) \o t = f \o (s \o t)
  BY <1>1, Regroup, SMTT(40)
<1>4. (f \o s) \o t = f \o p
  BY <1>2, <1>3
<1>5. QED  BY <1>4 DEF s, t

LEMMA PrefixOfConcat ==
  ASSUME NEW S, NEW s \in Seq(S), NEW t \in Seq(S)
  PROVE  IsPrefix(s, s \o t)
<1> DEFINE u == s \o t
<1>1. /\ u \in Seq(S) /\ Len(u) = Len(s) + Len(t)
      /\ \A k \in 1..(Len(s) + Len(t)) : u[k] = IF k <= Len(s) THEN s[k] ELSE t[k - Len(s)]
  BY ConcatProperties
<1>2. Len(s) \in Nat /\ Len(t) \in Nat
  BY LenProperties
<1> HIDE DEF u
<1>3. Len(s) <= Len(u)
  BY <1>1, <1>2
<1>4. SubSeq(s, 1, Len(s)) = s
  BY SubSeqFull
<1>5. \A k \in 1..Len(s) : u[k] = s[k] /\ u[k] \in S
  BY <1>1, <1>2, ElementOfSeq
<1>6. /\ SubSeq(u, 1, Len(s)) \in Seq(S)
      /\ Len(SubSeq(u, 1, Len(s))) = Len(s)
      /\ \A k \in 1..Len(s) : SubSeq(u, 1, Len(s))[k] = u[k]
  <2>1. /\ SubSeq(u, 1, Len(s)) \in Seq(S)
        /\ Len(SubSeq(u, 1, Len(s))) = IF 1 <= Len(s) THEN Len(s) - 1 + 1 ELSE 0
        /\ \A k \in 1..(Len(s) - 1 + 1) : SubSeq(u, 1, Len(s))[k] = u[1 + k - 1]
    BY <1>2, <1>5, SubSeqProperties
  <2>2. QED  BY <1>2, <2>1
<1>7. SubSeq(u, 1, Len(s)) = s
  BY <1>5, <1>6, SeqEqual
<1>8. IsPrefix(s, u)
  BY <1>3, <1>4, <1>7 DEF IsPrefix
<1>9. QED  BY <1>8 DEF u

LEMMA MaxIs ==
  ASSUME NEW S \in SUBSET Int, NEW k \in S, \A j \in S : j <= k
  PROVE  Max(S) = k
<1>1. \A y \in S : k >= y
  OBVIOUS
<1>2. \A x \in S : (\A y \in S : x >= y) => x = k
  OBVIOUS
<1>3. QED  BY <1>1, <1>2 DEF Max

-----------------------------------------------------------------------------
(* The inductive invariant: the buffer holds the last bytes, each at its   *)
(* own place, and what is in the file or on the way to it is what the file *)
(* is for at this stage.                                                   *)

First == IF total < activateSize THEN total ELSE activateSize

FilterTypes ==
  /\ total \in Nat /\ used \in BOOLEAN /\ failed \in BOOLEAN
  /\ file \in Seq(Nat) /\ pending \in Seq(Nat)
  /\ data = [x \in Slot |-> data[x]]
  /\ stage \in {"open", "flushing", "closed", "killed"}

Allocated == (total > activateSize => used) /\ (used => total >= activateSize)

Buffered ==
  /\ w = IF total < activateSize THEN 0 ELSE (total - activateSize) % bufferSize
  /\ \A n \in Nat : n > activateSize /\ n > total - bufferSize /\ n <= total =>
       data[(n - activateSize - 1) % bufferSize] = n

OnTheWay ==
  /\ stage \in {"closed", "killed"} => pending = <<>>
  /\ ~ failed =>
       /\ stage = "open" => file \o pending = Bytes(1, First)
       /\ stage \in {"flushing", "closed"} => file \o pending = Saved
       /\ stage = "killed" => IsPrefix(file, Saved)

FilterInv == FilterTypes /\ Allocated /\ Buffered /\ OnTheWay

LEMMA FilterInvInit == FilterInit => FilterInv
<1> SUFFICES ASSUME FilterInit PROVE FilterInv
  OBVIOUS
<1> USE DEF FilterInit
<1>1. FilterTypes
  <2>1. <<>> \in Seq(Nat)
    BY EmptySeq
  <2>2. data = [x \in Slot |-> data[x]]
    OBVIOUS
  <2>3. QED  BY <2>1, <2>2 DEF FilterTypes
<1>2. Allocated
  BY BufferSize DEF Allocated
<1>3. Buffered
  <2>1. 0 % bufferSize = 0
    BY BufferSize, ModSmall
  <2>2. 0 < activateSize \/ 0 - activateSize = 0
    BY BufferSize
  <2>3. \A n \in Nat : ~ (n > activateSize /\ n <= 0)
    BY BufferSize
  <2>4. QED  BY <2>1, <2>2, <2>3 DEF Buffered
<1>4. OnTheWay
  <2>1. First = 0
    BY BufferSize DEF First
  <2>2. Bytes(1, 0) = <<>>
    BY NoBytes
  <2>3. <<>> \o <<>> = <<>>
    BY EmptySeq, ConcatEmptySeq
  <2>4. QED  BY <2>1, <2>2, <2>3 DEF OnTheWay
<1>5. QED  BY <1>1, <1>2, <1>3, <1>4 DEF FilterInv

(* What the file has at each stage is a beginning of what it is for.       *)
LEMMA SavedBegins ==
  ASSUME FilterTypes
  PROVE  /\ Bytes(1, First) \in Seq(Nat) /\ Saved \in Seq(Nat)
         /\ \E r \in Seq(Nat) : Saved = Bytes(1, First) \o r
<1> USE BufferSize
<1>1. total \in Nat /\ First \in Nat /\ activateSize < maxSize /\ maxSize \in Nat
  BY FilterAssumption DEF FilterTypes, First
<1>0. 1 \in Nat \ {0} /\ First >= 1 - 1 /\ total >= 1 - 1
  BY <1>1
<1>2. Bytes(1, First) \in Seq(Nat)
  BY <1>0, <1>1, BytesSeq
<1>3. CASE total <= maxSize
  <2>1. First <= total
    BY <1>1 DEF First
  <2>2. Bytes(1, First) \o Bytes(First + 1, total) = Bytes(1, total)
    BY <1>0, <1>1, <2>1, BytesConcat
  <2>3. Bytes(First + 1, total) \in Seq(Nat) /\ Bytes(1, total) \in Seq(Nat)
    <3>1. First + 1 \in Nat \ {0} /\ total >= (First + 1) - 1
      BY <1>1, <2>1
    <3>2. QED  BY <1>0, <1>1, <3>1, BytesSeq
  <2>4. QED  BY <1>2, <1>3, <2>2, <2>3 DEF Saved
<1>4. CASE ~ total <= maxSize
  <2>1. First = activateSize
    BY <1>1, <1>4 DEF First
  <2> DEFINE last == Bytes(total - bufferSize + 1, total)
  <2>2. last \in Seq(Nat)
    <3>1. total - bufferSize + 1 \in Nat \ {0} /\ total >= (total - bufferSize + 1) - 1
      BY <1>1, <1>4 DEF bufferSize
    <3>2. QED  BY <1>1, <3>1, BytesSeq
  <2>3. Saved = (Bytes(1, First) \o <<Notice>>) \o last
    BY <1>4, <2>1 DEF Saved
  <2>4. <<Notice>> \in Seq(Nat)
    BY DEF Notice
  <2> HIDE DEF last
  <2>5. Saved = Bytes(1, First) \o (<<Notice>> \o last)
    BY <1>2, <2>2, <2>3, <2>4, ConcatAssociative
  <2>6. <<Notice>> \o last \in Seq(Nat)
    BY <2>2, <2>4, ConcatProperties
  <2>7. Saved \in Seq(Nat)
    BY <1>2, <2>5, <2>6, ConcatProperties
  <2>8. QED  BY <1>2, <2>5, <2>6, <2>7
<1>5. QED  BY <1>3, <1>4

(* The claim PrefixBefore makes of the file.                               *)
LEMMA PrefixFromInv == FilterInv => PrefixBefore
<1> SUFFICES ASSUME FilterInv, ~ failed PROVE
      /\ stage = "open" => file \o pending = Bytes(1, First)
      /\ IsPrefix(file, Saved)
  BY DEF PrefixBefore, First
<1>1. file \in Seq(Nat) /\ pending \in Seq(Nat)
  BY DEF FilterInv, FilterTypes
<1>2. CASE stage = "open"
  <2>1. file \o pending = Bytes(1, First)
    BY <1>2 DEF FilterInv, OnTheWay
  <2>2. PICK r \in Seq(Nat) : Saved = (file \o pending) \o r
    BY <2>1, SavedBegins DEF FilterInv
  <2>3. Saved = file \o (pending \o r) /\ pending \o r \in Seq(Nat)
    <3>1. (file \o pending) \o r = file \o (pending \o r)
      BY <1>1, Regroup, SMTT(40)
    <3>2. pending \o r \in Seq(Nat)
      BY <1>1, <2>2, ConcatProperties
    <3>3. QED  BY <2>2, <3>1, <3>2
  <2>4. QED  BY <1>1, <2>1, <2>3, PrefixOfConcat
<1>3. CASE stage \in {"flushing", "closed"}
  <2>1. Saved = file \o pending
    BY <1>3 DEF FilterInv, OnTheWay
  <2>2. QED  BY <1>1, <1>3, <2>1, PrefixOfConcat
<1>4. CASE stage = "killed"
  BY <1>4 DEF FilterInv, OnTheWay
<1>5. QED  BY <1>2, <1>3, <1>4 DEF FilterInv, FilterTypes

-----------------------------------------------------------------------------
(* Write.                                                                  *)

(* The first byte that goes to the buffer comes after the byte Base.       *)
LEMMA WriteBuffers ==
  ASSUME FilterTypes, Buffered, NEW size \in Nat \ {0}, Write(size)
  PROVE  Buffered'
<1> USE BufferSize
<1> DEFINE a == activateSize
           B == bufferSize
           direct == Direct(size)
           left == size - direct
           base == total + direct
<1>1. total \in Nat /\ data = [x \in Slot |-> data[x]]
  BY DEF FilterTypes
<1>2. /\ total' = total + size
      /\ data' = [x \in Slot |-> IF Stored(left, x) = {} THEN data[x]
                                 ELSE base + Max(Stored(left, x))]
      /\ w' = (w + left) % B
  BY DEF Write, Advanced
<1>3. direct \in Nat /\ left \in Nat /\ base + left = total'
  BY <1>1, <1>2 DEF Direct
<1>4. CASE total' < a
  <2>1. left = 0 /\ w = 0
    BY <1>1, <1>2, <1>4 DEF Direct, Buffered
  <2>2. w' = 0
    BY <1>2, <2>1, ModSmall
  <2>3. \A n \in Nat : ~ (n > a /\ n <= total')
    BY <1>1, <1>2, <1>4
  <2>4. QED  BY <1>4, <2>2, <2>3 DEF Buffered
<1>5. CASE ~ total' < a
  <2>1. base \in Nat /\ base >= a /\ base = IF total < a THEN a ELSE total
    BY <1>1, <1>2, <1>3, <1>5 DEF Direct
  <2>2. w = (base - a) % B /\ w \in Int
    <3>1. CASE total < a
      BY <2>1, <3>1, ModSmall DEF Buffered
    <3>2. CASE ~ total < a
      BY <1>1, <2>1, <3>2, DivMod DEF Buffered
    <3>3. QED  BY <3>1, <3>2
  <2> HIDE DEF direct, left, base
  <2>3. w' = (total' - a) % B
    <3>1. (((base - a) % B) + left) % B = ((base - a) + left) % B
      BY <1>3, <2>1, ModAdd
    <3>2. (base - a) + left = total' - a
      BY <1>1, <1>2, <1>3, <2>1
    <3>3. QED  BY <1>2, <2>2, <3>1, <3>2
  <2>4. \A k \in 1..left : (w + k - 1) % B = (base + k - a - 1) % B
    <3>1. TAKE k \in 1..left
    <3>0. base - a \in Int /\ k - 1 \in Int
      BY <1>3, <2>1
    <3>2. (((base - a) % B) + (k - 1)) % B = ((base - a) + (k - 1)) % B
      BY <3>0, ModAdd
    <3>3. (base - a) + (k - 1) = base + k - a - 1 /\ w + (k - 1) = w + k - 1
      BY <1>3, <2>1, <2>2
    <3>4. QED  BY <2>2, <3>2, <3>3
  <2>5. ASSUME NEW n \in Nat, n > a, n > total' - B, n <= total'
        PROVE  data'[(n - a - 1) % B] = n
    <3> DEFINE x == (n - a - 1) % B
    <3>1. x \in Slot
      BY DivMod DEF Slot
    <3>2. ASSUME NEW k \in 1..left, k \in Stored(left, x)
          PROVE  base + k <= n
      <4>1. (base + k - a - 1) % B = (n - a - 1) % B
        BY <2>4, <3>2 DEF Stored
      <4>2. SUFFICES ASSUME base + k > n PROVE FALSE
        BY <1>3, <2>1
      <4>3. base + k - a - 1 > n - a - 1 /\ base + k - a - 1 \in Int /\ n - a - 1 \in Int
        <5>1. base \in Int /\ k \in Int /\ n \in Int /\ a \in Int
          BY <1>3, <2>1
        <5>2. QED  BY <4>2, <5>1
      <4>4. base + k - a - 1 >= (n - a - 1) + B
        BY <4>1, <4>3, ModFar
      <4>5. QED  BY <1>1, <1>2, <1>3, <2>1, <2>5, <4>4
    <3>3. CASE n > base
      <4> DEFINE k == n - base
      <4>1. k \in 1..left /\ base + k = n
        BY <1>1, <1>2, <1>3, <2>1, <2>5, <3>3
      <4>2. k \in Stored(left, x)
        <5>1. (w + k - 1) % B = (base + k - a - 1) % B
          BY <2>4, <4>1
        <5>2. base + k - a - 1 = n - a - 1
          BY <2>1, <4>1
        <5>3. (w + k - 1) % B = x
          BY <5>1, <5>2
        <5>4. QED  BY <4>1, <5>3 DEF Stored
      <4>3. \A j \in Stored(left, x) : j <= k
        <5>1. TAKE j \in Stored(left, x)
        <5>2. j \in 1..left
          BY DEF Stored
        <5>3. base + j <= n
          BY <3>2, <5>2
        <5>4. QED  BY <1>3, <2>1, <5>2, <5>3
      <4>4. Stored(left, x) \in SUBSET Int
        BY <1>3 DEF Stored
      <4> HIDE DEF k, x
      <4>5. Max(Stored(left, x)) = k
        BY <4>2, <4>3, <4>4, MaxIs
      <4>6. data'[x] = base + k
        BY <1>2, <3>1, <4>2, <4>5
      <4>7. QED  BY <4>1, <4>6 DEF x
    <3>4. CASE ~ n > base
      <4>1. n <= total
        BY <1>1, <2>1, <2>5, <3>4
      <4>2. n > total - B
        BY <1>1, <1>2, <2>5
      <4>3. data[x] = n
        BY <1>1, <2>5, <4>1, <4>2 DEF Buffered
      <4>4. Stored(left, x) = {}
        <5>1. SUFFICES ASSUME NEW k \in Stored(left, x) PROVE FALSE
          OBVIOUS
        <5>2. k \in 1..left
          BY DEF Stored
        <5>3. base + k <= n
          BY <3>2, <5>2
        <5>4. QED  BY <1>3, <2>1, <3>4, <5>2, <5>3
      <4> HIDE DEF x
      <4>5. data'[x] = n
        BY <1>2, <3>1, <4>3, <4>4
      <4>6. QED  BY <4>5 DEF x
    <3>5. QED  BY <3>3, <3>4
  <2>6. QED  BY <1>5, <2>3, <2>5 DEF Buffered
<1>6. QED  BY <1>4, <1>5

LEMMA WriteTypes ==
  ASSUME FilterTypes, Allocated, NEW size \in Nat \ {0}, Write(size)
  PROVE  FilterTypes' /\ Allocated'
<1> USE BufferSize
<1>1. total \in Nat /\ used \in BOOLEAN
  BY DEF FilterTypes
<1>2. Direct(size) \in Nat
  BY <1>1 DEF Direct
<1>3. /\ total' = total + size /\ used' = (used \/ total + size >= activateSize)
      /\ pending' = Bytes(total + 1, total + Direct(size))
      /\ UNCHANGED <<file, failed, stage>>
  BY DEF Write
<1>4. data' = [x \in Slot |-> data'[x]]
  BY DEF Write
<1>5. pending' \in Seq(Nat)
  <2>1. /\ total + 1 \in Nat \ {0} /\ total + Direct(size) \in Nat
        /\ total + Direct(size) >= (total + 1) - 1
    BY <1>1, <1>2
  <2>2. QED  BY <1>3, <2>1, BytesSeq
<1>6. total' \in Nat /\ used' \in BOOLEAN
  BY <1>1, <1>3
<1>7. FilterTypes'
  BY <1>3, <1>4, <1>5, <1>6 DEF FilterTypes
<1>8. Allocated'
  <2>1. used => total' >= activateSize
    BY <1>1, <1>3 DEF Allocated
  <2>2. total + size >= activateSize <=> total' >= activateSize
    BY <1>3
  <2>3. total' > activateSize => total' >= activateSize
    BY <1>6
  <2>4. used' => total' >= activateSize
    BY <1>3, <2>1, <2>2
  <2>5. total' > activateSize => used'
    BY <1>3, <2>2, <2>3
  <2>6. QED  BY <2>4, <2>5 DEF Allocated
<1>9. QED  BY <1>7, <1>8

LEMMA WriteOnTheWay ==
  ASSUME FilterTypes, OnTheWay, NEW size \in Nat \ {0}, Write(size)
  PROVE  OnTheWay'
<1> USE BufferSize
<1>1. total \in Nat /\ file \in Seq(Nat)
  BY DEF FilterTypes
<1>2. /\ total' = total + size /\ file' = file /\ failed' = failed
      /\ stage = "open" /\ stage' = "open" /\ pending = <<>>
      /\ pending' = Bytes(total + 1, total + Direct(size))
  BY DEF Write
<1>3. SUFFICES ASSUME ~ failed PROVE file' \o pending' = Bytes(1, First')
  BY <1>2, <1>3 DEF OnTheWay
<1>4. file = Bytes(1, First)
  BY <1>1, <1>2, <1>3, ConcatEmptySeq DEF OnTheWay
<1>5. 1 \in Nat \ {0} /\ total >= 1 - 1 /\ activateSize >= 1 - 1
  BY <1>1
<1>6. CASE total' < activateSize
  <2>1. First = total /\ First' = total + size /\ Direct(size) = size
    BY <1>1, <1>2, <1>6 DEF First, Direct
  <2>2. Bytes(1, total) \o Bytes(total + 1, total + size) = Bytes(1, total + size)
    <3>1. total + size \in Nat /\ total + size >= total
      BY <1>1
    <3>2. QED  BY <1>1, <1>5, <3>1, BytesConcat
  <2>3. QED  BY <1>2, <1>4, <2>1, <2>2
<1>7. CASE ~ total' < activateSize /\ total < activateSize
  <2>1. First = total /\ First' = activateSize /\ total + Direct(size) = activateSize
    BY <1>1, <1>2, <1>7 DEF First, Direct
  <2>2. Bytes(1, total) \o Bytes(total + 1, activateSize) = Bytes(1, activateSize)
    <3>1. activateSize >= total
      BY <1>1, <1>7
    <3>2. QED  BY <1>1, <1>5, <3>1, BytesConcat
  <2>3. QED  BY <1>2, <1>4, <2>1, <2>2
<1>8. CASE ~ total < activateSize
  <2>1. First = activateSize /\ First' = activateSize /\ total + Direct(size) = (total + 1) - 1
    BY <1>1, <1>2, <1>8 DEF First, Direct
  <2>2. total + 1 \in Nat \ {0}
    BY <1>1
  <2>3. pending' = <<>>
    BY <1>2, <2>1, <2>2, NoBytes
  <2>4. QED  BY <1>1, <1>2, <1>4, <2>1, <2>3, ConcatEmptySeq
<1>9. QED  BY <1>6, <1>7, <1>8

-----------------------------------------------------------------------------
(* Flush: the buffer is unrolled in the order of the bytes.                *)
LEMMA FlushCompletes ==
  ASSUME FilterTypes, Allocated, Buffered, Flush
  PROVE  /\ pending' \in Seq(Nat)
         /\ Bytes(1, First) \o pending' = Saved
<1> USE BufferSize
<1> DEFINE a == activateSize
           B == bufferSize
<1>1. total \in Nat /\ used \in BOOLEAN /\ a < maxSize /\ maxSize \in Nat /\ B = maxSize - a
  BY FilterAssumption DEF FilterTypes, bufferSize
<1>2. 1 \in Nat \ {0} /\ total >= 1 - 1 /\ a >= 1 - 1
  BY <1>1
<1>3. CASE ~ used
  <2>1. pending' = <<>> /\ total <= a /\ First = total /\ Saved = Bytes(1, total)
    BY <1>1, <1>3 DEF Flush, Allocated, First, Saved
  <2>2. Bytes(1, total) \in Seq(Nat) /\ <<>> \in Seq(Nat)
    BY <1>1, <1>2, BytesSeq, EmptySeq
  <2>3. QED  BY <2>1, <2>2, ConcatEmptySeq
<1>4. CASE used /\ total <= maxSize
  <2>1. total >= a /\ First = a /\ Saved = Bytes(1, total)
    BY <1>1, <1>4 DEF Allocated, First, Saved
  <2>2. pending' = [i \in 1..(total - a) |-> data[i - 1]]
    BY <1>4 DEF Flush
  <2>3. \A i \in 1..(total - a) : data[i - 1] = a + 1 + i - 1
    <3>1. TAKE i \in 1..(total - a)
    <3>2. /\ a + i \in Nat /\ a + i > a /\ a + i > total - B /\ a + i <= total
          /\ (a + i) - a - 1 = i - 1 /\ i - 1 \in 0..(B - 1)
      BY <1>1, <1>4, <2>1
    <3>3. data[((a + i) - a - 1) % B] = a + i
      BY <3>2 DEF Buffered
    <3>4. (i - 1) % B = i - 1
      BY <3>2, ModSmall
    <3>5. QED  BY <3>2, <3>3, <3>4
  <2>4. pending' = Bytes(a + 1, total)
    <3>1. total - (a + 1) + 1 = total - a
      BY <1>1
    <3>2. QED  BY <2>2, <2>3, <3>1 DEF Bytes
  <2>5. Bytes(a + 1, total) \in Seq(Nat)
    <3>1. a + 1 \in Nat \ {0} /\ total >= (a + 1) - 1
      BY <1>1, <2>1
    <3>2. QED  BY <1>1, <3>1, BytesSeq
  <2>6. Bytes(1, a) \o Bytes(a + 1, total) = Bytes(1, total)
    BY <1>1, <1>2, <2>1, BytesConcat
  <2>7. QED  BY <2>1, <2>4, <2>5, <2>6
<1>5. CASE used /\ ~ total <= maxSize
  <2>1. First = a /\ w = (total - a) % B /\ ~ total < a
    BY <1>1, <1>5 DEF First, Buffered
  <2>2. pending' = <<Notice>> \o Unrolled
    BY <1>5 DEF Flush
  <2> DEFINE from == total - B + 1
  <2>3. from \in Nat \ {0} /\ total >= from - 1 /\ total - from + 1 = B
    BY <1>1, <1>5
  <2>4. \A i \in 1..B : data[(w + i - 1) % B] = from + i - 1
    <3>1. TAKE i \in 1..B
    <3> DEFINE n == total - B + i
    <3>2. n \in Nat /\ n > a /\ n > total - B /\ n <= total
      BY <1>1, <1>5
    <3>3. data[(n - a - 1) % B] = n
      BY <3>2 DEF Buffered
    <3>4. (w + (i - 1)) % B = ((total - a) + (i - 1)) % B
      <4>1. total - a \in Int /\ i - 1 \in Int
        BY <1>1
      <4>2. QED  BY <2>1, <4>1, ModAdd
    <3>5. ((n - a - 1) + 1 * B) % B = (n - a - 1) % B
      <4>1. n - a - 1 \in Int /\ 1 \in Int
        BY <3>2
      <4>2. QED  BY <4>1, ModShift
    <3>6. (n - a - 1) + 1 * B = (total - a) + (i - 1)
      BY <1>1
    <3>7. w \in Int
      <4>1. total - a \in Int
        BY <1>1
      <4>2. QED  BY <2>1, <4>1, DivMod
    <3>8. w + (i - 1) = w + i - 1
      BY <3>7
    <3>9. from + i - 1 = n
      BY <1>1
    <3>10. QED  BY <3>3, <3>4, <3>5, <3>6, <3>8, <3>9
  <2>5. Unrolled = Bytes(from, total)
    <3>1. Bytes(from, total) = [i \in 1..B |-> from + i - 1]
      BY <2>3 DEF Bytes
    <3>2. Unrolled = [i \in 1..B |-> data[(w + i - 1) % B]]
      BY DEF Unrolled
    <3>3. QED  BY <2>4, <3>1, <3>2
  <2>6. /\ Bytes(from, total) \in Seq(Nat) /\ <<Notice>> \in Seq(Nat)
        /\ Bytes(1, a) \in Seq(Nat)
    BY <1>1, <1>2, <2>3, BytesSeq DEF Notice
  <2>7. Saved = (Bytes(1, a) \o <<Notice>>) \o Bytes(from, total)
    BY <1>1, <1>5 DEF Saved
  <2>8. Saved = Bytes(1, a) \o (<<Notice>> \o Bytes(from, total))
    BY <2>6, <2>7, ConcatAssociative
  <2>9. <<Notice>> \o Bytes(from, total) \in Seq(Nat)
    BY <2>6, ConcatProperties
  <2>10. QED  BY <2>1, <2>2, <2>5, <2>8, <2>9
<1>6. QED  BY <1>1, <1>3, <1>4, <1>5

-----------------------------------------------------------------------------
(* Every step keeps the invariant.                                         *)
LEMMA FilterStep == FilterInv /\ [FilterNext]_filterVars => FilterInv'
<1> SUFFICES ASSUME FilterInv, [FilterNext]_filterVars PROVE FilterInv'
  OBVIOUS
<1>0. FilterTypes /\ Allocated /\ Buffered /\ OnTheWay
  BY DEF FilterInv
<1>1. ASSUME NEW size \in Nat \ {0}, Write(size)
      PROVE  FilterInv'
  BY <1>0, <1>1, WriteTypes, WriteBuffers, WriteOnTheWay DEF FilterInv
<1>2. ASSUME UNCHANGED <<total, data, used, w>>
      PROVE  Allocated' /\ Buffered' /\ First' = First /\ Saved' = Saved
  BY <1>0, <1>2 DEF Allocated, Buffered, First, Saved
<1>3. ASSUME NEW n \in 1..Len(pending), SystemWrite(n)
      PROVE  FilterInv'
  <2> DEFINE s == SubSeq(pending, 1, n)
             t == SubSeq(pending, n + 1, Len(pending))
  <2>1. /\ s \in Seq(Nat) /\ t \in Seq(Nat) /\ s \o t = pending
    BY <1>0, SplitSeq DEF FilterTypes
  <2>2. /\ file' = file \o s /\ pending' = t
        /\ UNCHANGED <<total, data, used, w>> /\ UNCHANGED <<failed, stage>>
    BY <1>3 DEF SystemWrite
  <2> HIDE DEF s, t
  <2>3. file \in Seq(Nat)
    BY <1>0 DEF FilterTypes
  <2>4. file' \in Seq(Nat) /\ pending' \in Seq(Nat)
    BY <2>1, <2>2, <2>3, ConcatProperties
  <2>5. file' \o pending' = file \o pending
    <3>1. (file \o s) \o t = file \o pending
      BY <1>0, <2>3, TakenFromSeq DEF FilterTypes, s, t
    <3>2. QED  BY <2>2, <3>1
  <2>6. FilterTypes'
    BY <1>0, <2>2, <2>4 DEF FilterTypes
  <2>7. stage \notin {"closed", "killed"}
    <3>1. CASE pending = <<>>
      BY <1>3, <3>1, EmptySeq
    <3>2. CASE pending # <<>>
      BY <1>0, <3>2 DEF OnTheWay
    <3>3. QED  BY <3>1, <3>2
  <2>8. First' = First /\ Saved' = Saved /\ Allocated' /\ Buffered'
    BY <1>2, <2>2
  <2>9. OnTheWay'
    BY <1>0, <2>2, <2>5, <2>7, <2>8 DEF OnTheWay
  <2>10. QED  BY <2>6, <2>8, <2>9 DEF FilterInv
<1>4. CASE WriteFails
  <2>1. UNCHANGED <<total, data, used, w>> /\ pending' = <<>> /\ failed' = TRUE
        /\ UNCHANGED <<file, stage>>
    BY <1>4 DEF WriteFails
  <2>2. FilterTypes'
    BY <1>0, <2>1, EmptySeq DEF FilterTypes
  <2>3. OnTheWay'
    BY <2>1 DEF OnTheWay
  <2>4. Allocated' /\ Buffered'
    BY <1>2, <2>1
  <2>5. QED  BY <2>2, <2>3, <2>4 DEF FilterInv
<1>5. CASE Flush
  <2>1. /\ pending' \in Seq(Nat) /\ Bytes(1, First) \o pending' = Saved
    BY <1>0, <1>5, FlushCompletes
  <2>2. UNCHANGED <<total, data, used, w>> /\ UNCHANGED <<file, failed>>
        /\ stage = "open" /\ stage' = "flushing" /\ pending = <<>>
    BY <1>5 DEF Flush
  <2>3. FilterTypes'
    BY <1>0, <2>1, <2>2 DEF FilterTypes
  <2>4. First' = First /\ Saved' = Saved /\ Allocated' /\ Buffered'
    BY <1>2, <2>2
  <2>5. ~ failed => file = Bytes(1, First)
    <3>1. file \o <<>> = file
      BY <1>0, ConcatEmptySeq DEF FilterTypes
    <3>2. QED  BY <1>0, <2>2, <3>1 DEF OnTheWay
  <2>6. OnTheWay'
    BY <2>1, <2>2, <2>4, <2>5 DEF OnTheWay
  <2>7. QED  BY <2>3, <2>4, <2>6 DEF FilterInv
<1>6. CASE Close
  <2>1. UNCHANGED <<total, data, used, w>> /\ UNCHANGED <<file, pending, failed>>
        /\ stage = "flushing" /\ stage' = "closed" /\ pending = <<>>
    BY <1>6 DEF Close
  <2>2. FilterTypes'
    BY <1>0, <2>1 DEF FilterTypes
  <2>3. First' = First /\ Saved' = Saved /\ Allocated' /\ Buffered'
    BY <1>2, <2>1
  <2>4. OnTheWay'
    BY <1>0, <2>1, <2>3 DEF OnTheWay
  <2>5. QED  BY <2>2, <2>3, <2>4 DEF FilterInv
<1>7. CASE Killed
  <2>1. UNCHANGED <<total, data, used, w>> /\ UNCHANGED <<file, failed>>
        /\ stage' = "killed" /\ pending' = <<>>
    BY <1>7 DEF Killed
  <2>2. FilterTypes'
    BY <1>0, <2>1, EmptySeq DEF FilterTypes
  <2>3. First' = First /\ Saved' = Saved /\ Allocated' /\ Buffered'
    BY <1>2, <2>1
  <2>4. ~ failed => IsPrefix(file, Saved)
    BY PrefixFromInv DEF PrefixBefore
  <2>5. OnTheWay'
    BY <2>1, <2>3, <2>4 DEF OnTheWay
  <2>6. QED  BY <2>2, <2>3, <2>5 DEF FilterInv
<1>8. CASE UNCHANGED filterVars
  <2>1. UNCHANGED <<total, data, used, w>> /\ UNCHANGED <<file, pending, failed, stage>>
    BY <1>8 DEF filterVars
  <2>2. FilterTypes'
    BY <1>0, <2>1 DEF FilterTypes
  <2>3. First' = First /\ Saved' = Saved /\ Allocated' /\ Buffered'
    BY <1>2, <2>1
  <2>4. OnTheWay'
    BY <1>0, <2>1, <2>3 DEF OnTheWay
  <2>5. QED  BY <2>2, <2>3, <2>4 DEF FilterInv
<1>9. QED  BY <1>1, <1>3, <1>4, <1>5, <1>6, <1>7, <1>8 DEF FilterNext

THEOREM FilterInvariant == FilterSpec => []FilterInv
<1>1. QED  BY FilterInvInit, FilterStep, PTL DEF FilterSpec

(* The file ends up with the whole output, or its first activateSize bytes,*)
(* the notice and its last bytes, however the output was cut into chunks   *)
(* and however much of them each write(2) took.                            *)
THEOREM FileEndsComplete == FilterSpec => []FirstAndLastBytes
<1>1. FilterInv => FirstAndLastBytes
  <2> SUFFICES ASSUME FilterInv, stage = "closed", ~ failed PROVE file = Saved
    BY DEF FirstAndLastBytes
  <2>1. file \o pending = Saved /\ pending = <<>> /\ file \in Seq(Nat)
    BY DEF FilterInv, FilterTypes, OnTheWay
  <2>2. QED  BY <2>1, ConcatEmptySeq
<1>2. QED  BY <1>1, FilterInvariant, PTL

(* As long as runsolver runs, and wherever it is killed, the file is a     *)
(* beginning of what it is for.                                            *)
THEOREM FileIsPrefix == FilterSpec => []PrefixBefore
BY PrefixFromInv, FilterInvariant, PTL

-----------------------------------------------------------------------------
(* The thread: its output is a sequence of tokens.                         *)
Kinds == {"byte", "stamp", "newline", "EOF"}
Token == [kind : Kinds, val : Nat]
Record == [eol : BOOLEAN, at : Nat]

(* What StampsLate and EofAlone need to know of a sequence s of tokens: of *)
(* the bytes written, tk is the last, and no stamp is later than st.       *)
Numbered(s, k, tk) == \A i \in 1..k : s[i].kind = "byte" => s[i].val \in 1..tk
Bounded(s, k, st) == \A i \in 1..k : s[i].kind = "stamp" => s[i].val <= st
NotEarly(s, k) ==
  \A i \in 1..(k - 1) :
    s[i].kind = "stamp" /\ s[i + 1].kind = "byte" => s[i].val >= sent[s[i + 1].val].at
Sorted(s, k) ==
  \A i, j \in 1..k :
    j < i /\ s[i].kind = "stamp" /\ s[j].kind = "stamp" => s[j].val <= s[i].val

LateUpTo(s, k, tk, st) ==
  Numbered(s, k, tk) /\ Bounded(s, k, st) /\ NotEarly(s, k) /\ Sorted(s, k)
Late(s, tk, st) == LateUpTo(s, Len(s), tk, st)

(* Two such sequences can be put together if the stamps of the second are  *)
(* not earlier than those of the first and a stamp at the seam is not      *)
(* earlier than its line.                                                  *)
LEMMA LateConcat ==
  ASSUME NEW s \in Seq(Token), NEW t \in Seq(Token), NEW tk \in Nat,
         NEW st \in Nat, NEW st2 \in Nat, st <= st2,
         Late(s, tk, st), Late(t, tk, st2),
         \A i \in 1..Len(t) : t[i].kind = "stamp" => st <= t[i].val,
         Len(s) > 0 /\ Len(t) > 0 /\ s[Len(s)].kind = "stamp" /\ t[1].kind = "byte" =>
           s[Len(s)].val >= sent[t[1].val].at
  PROVE  s \o t \in Seq(Token) /\ Late(s \o t, tk, st2)
<1> DEFINE u == s \o t
           n == Len(s)
           m == Len(t)
<1>1. n \in Nat /\ m \in Nat
  BY LenProperties
<1>2. /\ u \in Seq(Token) /\ Len(u) = n + m
      /\ \A i \in 1..(n + m) : u[i] = IF i <= n THEN s[i] ELSE t[i - n]
  BY ConcatProperties
<1>3. (\A i \in 1..n : s[i] \in Token) /\ (\A i \in 1..m : t[i] \in Token)
  BY <1>1, ElementOfSeq
<1> HIDE DEF u
<1>4. /\ \A i \in 1..n : u[i] = s[i]
      /\ \A i \in 1..(n + m) : i > n => u[i] = t[i - n] /\ i - n \in 1..m
  BY <1>1, <1>2
<1> HIDE DEF n, m
<1>5. /\ \A i \in 1..n : s[i].kind = "byte" => s[i].val \in 1..tk
      /\ \A i \in 1..n : s[i].kind = "stamp" => s[i].val <= st
      /\ \A i \in 1..(n - 1) :
           s[i].kind = "stamp" /\ s[i + 1].kind = "byte" => s[i].val >= sent[s[i + 1].val].at
      /\ \A i, j \in 1..n :
           j < i /\ s[i].kind = "stamp" /\ s[j].kind = "stamp" => s[j].val <= s[i].val
  BY DEF Late, LateUpTo, Numbered, Bounded, NotEarly, Sorted, n
<1>6. /\ \A i \in 1..m : t[i].kind = "byte" => t[i].val \in 1..tk
      /\ \A i \in 1..m : t[i].kind = "stamp" => t[i].val <= st2 /\ st <= t[i].val
      /\ \A i \in 1..(m - 1) :
           t[i].kind = "stamp" /\ t[i + 1].kind = "byte" => t[i].val >= sent[t[i + 1].val].at
      /\ \A i, j \in 1..m :
           j < i /\ t[i].kind = "stamp" /\ t[j].kind = "stamp" => t[j].val <= t[i].val
  BY DEF Late, LateUpTo, Numbered, Bounded, NotEarly, Sorted, m
<1>7. n > 0 /\ m > 0 /\ s[n].kind = "stamp" /\ t[1].kind = "byte" =>
        s[n].val >= sent[t[1].val].at
  BY DEF n, m
<1>8. ASSUME NEW i \in 1..(n + m), u[i].kind = "byte" PROVE u[i].val \in 1..tk
  <2>1. CASE i <= n
    BY <1>1, <1>4, <1>5, <1>8, <2>1
  <2>2. CASE i > n
    BY <1>1, <1>4, <1>6, <1>8, <2>2
  <2>3. QED  BY <1>1, <2>1, <2>2
<1>9. ASSUME NEW i \in 1..(n + m), u[i].kind = "stamp"
      PROVE  u[i].val <= st2 /\ u[i].val \in Nat /\ (i <= n => u[i].val <= st) /\ (i > n => st <= u[i].val)
  <2>1. CASE i <= n
    <3>1. i \in 1..n /\ u[i] = s[i]
      BY <1>1, <1>4, <2>1
    <3>2. s[i].val <= st /\ s[i].val \in Nat
      BY <1>3, <1>5, <1>9, <3>1 DEF Token
    <3>3. QED  BY <1>1, <2>1, <3>1, <3>2
  <2>2. CASE i > n
    <3>1. i - n \in 1..m /\ u[i] = t[i - n]
      BY <1>4, <2>2
    <3>2. t[i - n].val <= st2 /\ st <= t[i - n].val /\ t[i - n].val \in Nat
      BY <1>3, <1>6, <1>9, <3>1 DEF Token
    <3>3. QED  BY <1>1, <2>2, <3>1, <3>2
  <2>3. QED  BY <1>1, <2>1, <2>2
<1>10. ASSUME NEW i \in 1..((n + m) - 1), u[i].kind = "stamp", u[i + 1].kind = "byte"
       PROVE  u[i].val >= sent[u[i + 1].val].at
  <2>1. CASE i < n
    BY <1>1, <1>4, <1>5, <1>10, <2>1
  <2>2. CASE i = n
    <3>1. n > 0 /\ m > 0 /\ i \in 1..n /\ i + 1 \in 1..(n + m) /\ i + 1 > n /\ (i + 1) - n = 1
      BY <1>1, <2>2
    <3>2. u[i] = s[n]
      BY <1>4, <2>2, <3>1
    <3>3. u[i + 1] = t[(i + 1) - n]
      BY <1>4, <3>1
    <3>4. u[i + 1] = t[1]
      BY <3>1, <3>3
    <3>5. QED  BY <1>7, <1>10, <3>1, <3>2, <3>4
  <2>3. CASE i > n
    <3>1. /\ i - n \in 1..(m - 1) /\ i \in 1..(n + m) /\ i + 1 \in 1..(n + m)
          /\ i + 1 > n /\ (i + 1) - n = (i - n) + 1
      BY <1>1, <2>3
    <3>2. u[i] = t[i - n] /\ u[i + 1] = t[(i + 1) - n]
      BY <1>4, <2>3, <3>1
    <3>3. u[i + 1] = t[(i - n) + 1]
      BY <3>1, <3>2
    <3>4. QED  BY <1>6, <1>10, <3>1, <3>2, <3>3
  <2>4. QED  BY <1>1, <2>1, <2>2, <2>3
<1>11. ASSUME NEW i \in 1..(n + m), NEW j \in 1..(n + m), j < i,
              u[i].kind = "stamp", u[j].kind = "stamp"
       PROVE  u[j].val <= u[i].val
  <2>1. CASE i <= n
    BY <1>1, <1>4, <1>5, <1>11, <2>1
  <2>2. CASE i > n /\ j <= n
    BY <1>9, <1>11, <2>2
  <2>3. CASE j > n
    <3>1. /\ i - n \in 1..m /\ j - n \in 1..m /\ j - n < i - n
          /\ u[i] = t[i - n] /\ u[j] = t[j - n]
      BY <1>1, <1>4, <1>11, <2>3
    <3>2. QED  BY <1>6, <1>11, <3>1
  <2>4. QED  BY <1>1, <2>1, <2>2, <2>3
<1>12. Late(u, tk, st2)
  <2>1. Numbered(u, n + m, tk) /\ Bounded(u, n + m, st2)
    BY <1>8, <1>9 DEF Numbered, Bounded
  <2>2. NotEarly(u, n + m)
    BY <1>10 DEF NotEarly
  <2>3. Sorted(u, n + m)
    BY <1>11 DEF Sorted
  <2>4. Len(u) = n + m
    BY <1>2
  <2>5. LateUpTo(u, n + m, tk, st2)
    BY <2>1, <2>2, <2>3 DEF LateUpTo
  <2>6. QED  BY <2>4, <2>5 DEF Late
<1>13. QED  BY <1>2, <1>12 DEF u

(* What is added to the output: bytes, one token, the two last tokens.     *)
LEMMA LateBytes ==
  ASSUME taken \in Nat, rest \in 0..taken, NEW n \in (taken - rest)..taken, NEW st \in Nat
  PROVE  /\ BytesUpTo(n) \in Seq(Token)
         /\ Len(BytesUpTo(n)) = n - (taken - rest)
         /\ \A i \in 1..(n - (taken - rest)) : BytesUpTo(n)[i] = Byte(taken - rest + i)
         /\ Late(BytesUpTo(n), taken, st)
<1> DEFINE m == n - (taken - rest)
           b == BytesUpTo(n)
<1>1. m \in Nat /\ \A i \in 1..m : taken - rest + i \in 1..taken
  OBVIOUS
<1>2. b = [i \in 1..m |-> Byte(taken - rest + i)]
  BY DEF BytesUpTo
<1> HIDE DEF m, b
<1>3. \A i \in 1..m : Byte(taken - rest + i) \in Token
  BY <1>1 DEF Byte, Token, Kinds
<1>4. b \in Seq(Token) /\ Len(b) = m /\ \A i \in 1..m : b[i] = Byte(taken - rest + i)
  BY <1>1, <1>2, <1>3
<1>5. \A i \in 1..m : b[i].kind = "byte" /\ b[i].val \in 1..taken
  <2>1. \A x : Byte(x).kind = "byte" /\ Byte(x).val = x
    BY DEF Byte
  <2>2. QED  BY <1>1, <1>4, <2>1
<1>6. Numbered(b, m, taken) /\ Bounded(b, m, st) /\ NotEarly(b, m) /\ Sorted(b, m)
  BY <1>1, <1>5 DEF Numbered, Bounded, NotEarly, Sorted
<1>7. Late(b, taken, st)
  BY <1>4, <1>6 DEF Late, LateUpTo
<1>8. QED  BY <1>4, <1>7 DEF b, m

LEMMA LateOne ==
  ASSUME NEW e \in Token, e.kind # "byte", NEW tk \in Nat, NEW st \in Nat,
         e.kind = "stamp" => e.val <= st
  PROVE  /\ <<e>> \in Seq(Token) /\ Len(<<e>>) = 1 /\ <<e>>[1] = e
         /\ Late(<<e>>, tk, st)
<1> DEFINE s == <<e>>
<1>1. s \in Seq(Token) /\ Len(s) = 1 /\ s[1] = e
  OBVIOUS
<1> HIDE DEF s
<1>2. \A i \in 1..1 : i = 1
  OBVIOUS
<1>3. Numbered(s, 1, tk) /\ Bounded(s, 1, st)
  BY <1>1, <1>2 DEF Numbered, Bounded
<1>4. NotEarly(s, 1) /\ Sorted(s, 1)
  BY <1>2 DEF NotEarly, Sorted
<1>5. Late(s, tk, st)
  BY <1>1, <1>3, <1>4 DEF Late, LateUpTo
<1>6. QED  BY <1>1, <1>5 DEF s

LEMMA LateNone ==
  ASSUME NEW tk \in Nat, NEW st \in Nat
  PROVE  <<>> \in Seq(Token) /\ Len(<<>>) = 0 /\ Late(<<>>, tk, st)
<1>1. <<>> \in Seq(Token) /\ Len(<<>>) = 0
  BY EmptySeq
<1>2. Numbered(<<>>, 0, tk) /\ Bounded(<<>>, 0, st) /\ NotEarly(<<>>, 0) /\ Sorted(<<>>, 0)
  BY DEF Numbered, Bounded, NotEarly, Sorted
<1>3. QED  BY <1>1, <1>2 DEF Late, LateUpTo

(* More bytes and a later time keep the claim.                             *)
LEMMA LateGrows ==
  ASSUME NEW s \in Seq(Token), NEW tk \in Nat, NEW tk2 \in Nat, NEW st \in Nat, NEW st2 \in Nat,
         tk <= tk2, st <= st2, Late(s, tk, st)
  PROVE  Late(s, tk2, st2)
<1>1. \A i \in 1..Len(s) : s[i].val \in Nat
  <2>1. \A i \in 1..Len(s) : s[i] \in Token
    BY ElementOfSeq
  <2>2. QED  BY <2>1 DEF Token
<1>2. Numbered(s, Len(s), tk) /\ Bounded(s, Len(s), st) /\ NotEarly(s, Len(s)) /\ Sorted(s, Len(s))
  BY DEF Late, LateUpTo
<1>3. Numbered(s, Len(s), tk2)
  BY <1>2 DEF Numbered
<1>4. Bounded(s, Len(s), st2)
  BY <1>1, <1>2 DEF Bounded
<1>5. QED  BY <1>2, <1>3, <1>4 DEF Late, LateUpTo

-----------------------------------------------------------------------------
(* The inductive invariant of the thread.                                  *)
StamperTypes ==
  /\ now \in Nat
  /\ sent \in Seq(Record) /\ closed \in BOOLEAN
  /\ taken \in Nat /\ taken <= Len(sent) /\ rest \in 0..taken
  /\ stamp \in Nat /\ stamp <= now
  /\ eolBefore \in BOOLEAN /\ incompleteLineSent \in BOOLEAN
  /\ thread \in {"select", "lines", "finish", "done"}
  /\ out \in Seq(Token)

Clocks ==
  /\ \A k \in 1..Len(sent) : sent[k].at <= now
  /\ \A k \in 1..taken : sent[k].at <= stamp

EndsLine ==
  Len(out) = 0 \/ (out[Len(out)].kind = "byte" /\ sent[out[Len(out)].val].eol)

AtEnd ==
  /\ thread = "select" => rest = 0
  /\ thread \in {"select", "finish"} =>
       /\ Len(out) = 0 \/ out[Len(out)].kind = "byte"
       /\ incompleteLineSent \/ EndsLine
  /\ thread = "lines" =>
       /\ rest = 0 => EndsLine
       /\ Len(out) > 0 /\ out[Len(out)].kind = "stamp" => out[Len(out)].val = stamp

StamperInv == StamperTypes /\ Clocks /\ Late(out, taken, stamp) /\ AtEnd /\ EofAlone

LEMMA StamperInvInit == StamperInit => StamperInv
<1> SUFFICES ASSUME StamperInit PROVE StamperInv
  OBVIOUS
<1>1. /\ sent \in Seq(Record) /\ Len(sent) = 0
      /\ out = <<>> /\ out \in Seq(Token) /\ Len(out) = 0
  BY EmptySeq DEF StamperInit
<1>2. StamperTypes
  <2>1. now = 0 /\ stamp = 0 /\ taken = 0 /\ rest = 0
    BY DEF StamperInit
  <2>2. /\ closed \in BOOLEAN /\ eolBefore \in BOOLEAN /\ incompleteLineSent \in BOOLEAN
        /\ thread \in {"select", "lines", "finish", "done"}
    BY DEF StamperInit
  <2>3. QED  BY <1>1, <2>1, <2>2 DEF StamperTypes
<1>3. Clocks
  BY <1>1 DEF Clocks, StamperInit
<1>4. Late(out, taken, stamp)
  BY <1>1, LateNone DEF StamperInit
<1>5. AtEnd /\ EofAlone
  BY <1>1 DEF AtEnd, EndsLine, EofAlone, StamperInit
<1>6. QED  BY <1>2, <1>3, <1>4, <1>5 DEF StamperInv

LEMMA StampsFromInv == StamperInv => StampsLate
<1> SUFFICES ASSUME StamperInv PROVE StampsLate
  OBVIOUS
<1>1. DOMAIN out = 1..Len(out) /\ Len(out) \in Nat
  BY LenProperties DEF StamperInv, StamperTypes
<1>2. NotEarly(out, Len(out)) /\ Sorted(out, Len(out))
  BY DEF StamperInv, Late, LateUpTo
<1>3. ASSUME NEW i \in DOMAIN out, out[i].kind = "stamp", i < Len(out), out[i + 1].kind = "byte"
      PROVE  out[i].val >= sent[out[i + 1].val].at
  BY <1>1, <1>2, <1>3 DEF NotEarly
<1>4. ASSUME NEW i \in DOMAIN out, out[i].kind = "stamp",
             NEW j \in 1..(i - 1), out[j].kind = "stamp"
      PROVE  out[j].val <= out[i].val
  BY <1>1, <1>2, <1>4 DEF Sorted
<1>5. QED  BY <1>3, <1>4 DEF StampsLate

-----------------------------------------------------------------------------
(* The steps of the solver, the clock and the signals.                     *)
LEMMA SolverWritesStep ==
  ASSUME StamperInv, NEW eol \in BOOLEAN, SolverWrites(eol)
  PROVE  StamperInv'
<1> DEFINE e == [eol |-> eol, at |-> now]
<1>0. StamperTypes /\ Clocks /\ Late(out, taken, stamp) /\ AtEnd /\ EofAlone
  BY DEF StamperInv
<1>1. /\ sent' = Append(sent, e)
      /\ UNCHANGED <<now, closed, taken, rest, stamp, eolBefore, incompleteLineSent, thread, out>>
  BY DEF SolverWrites, threadVars
<1>2. /\ now \in Nat /\ sent \in Seq(Record) /\ taken \in Nat /\ taken <= Len(sent)
      /\ out \in Seq(Token) /\ Len(out) \in Nat /\ Len(sent) \in Nat
  BY <1>0, LenProperties DEF StamperTypes
<1>3. e \in Record
  BY <1>2 DEF Record
<1>4. /\ sent' \in Seq(Record) /\ Len(sent') = Len(sent) + 1
      /\ \A k \in 1..Len(sent) : sent'[k] = sent[k]
      /\ sent'[Len(sent) + 1] = e
  BY <1>1, <1>2, <1>3, AppendProperties
<1>5. \A k \in 1..taken : sent'[k] = sent[k]
  BY <1>2, <1>4
<1>6. StamperTypes'
  BY <1>0, <1>1, <1>2, <1>4 DEF StamperTypes
<1>7. Clocks'
  <2>1. \A k \in 1..Len(sent') : sent'[k].at <= now
    <3>1. TAKE k \in 1..Len(sent')
    <3>2. CASE k <= Len(sent)
      BY <1>0, <1>2, <1>4, <3>2 DEF Clocks
    <3>3. CASE k = Len(sent) + 1
      BY <1>2, <1>4, <3>3
    <3>4. QED  BY <1>2, <1>4, <3>2, <3>3
  <2>2. \A k \in 1..taken : sent'[k].at <= stamp
    BY <1>0, <1>5 DEF Clocks
  <2>3. QED  BY <1>1, <2>1, <2>2 DEF Clocks
<1>8. Numbered(out, Len(out), taken) /\ Bounded(out, Len(out), stamp)
      /\ NotEarly(out, Len(out)) /\ Sorted(out, Len(out))
  BY <1>0 DEF Late, LateUpTo
<1>9. \A i \in 1..Len(out) : out[i].kind = "byte" => sent'[out[i].val] = sent[out[i].val]
  BY <1>5, <1>8 DEF Numbered
<1>10. Late(out, taken, stamp)'
  <2>1. NotEarly(out, Len(out))'
    <3>1. \A i \in 1..(Len(out) - 1) : i + 1 \in 1..Len(out)
      BY <1>2
    <3>2. QED  BY <1>1, <1>8, <1>9, <3>1 DEF NotEarly
  <2>2. (Numbered(out, Len(out), taken) /\ Bounded(out, Len(out), stamp) /\ Sorted(out, Len(out)))'
    BY <1>1, <1>8 DEF Numbered, Bounded, Sorted
  <2>3. QED  BY <2>1, <2>2 DEF Late, LateUpTo
<1>11. AtEnd'
  <2>1. EndsLine => EndsLine'
    <3>1. Len(out) # 0 => Len(out) \in 1..Len(out)
      BY <1>2
    <3>2. Len(out) # 0 /\ out[Len(out)].kind = "byte" =>
            sent'[out[Len(out)].val] = sent[out[Len(out)].val]
      BY <1>9, <3>1
    <3>3. QED  BY <1>1, <3>2 DEF EndsLine
  <2>2. QED  BY <1>0, <1>1, <2>1 DEF AtEnd
<1>12. EofAlone'
  <2>1. Len(out) > 2 => Len(out) - 2 \in 1..Len(out)
    BY <1>2
  <2>2. QED  BY <1>0, <1>1, <1>9, <2>1 DEF EofAlone
<1>13. QED  BY <1>6, <1>7, <1>10, <1>11, <1>12 DEF StamperInv

(* Steps that touch neither the output of the solver nor what is written.  *)
LEMMA QuietStep ==
  ASSUME StamperInv, UNCHANGED <<sent, taken, rest, stamp, eolBefore, incompleteLineSent, out>>,
         closed' \in BOOLEAN, now' \in Nat, now' >= now,
         thread' = thread \/ (thread = "select" /\ thread' = "finish")
  PROVE  StamperInv'
<1>0. StamperTypes /\ Clocks /\ Late(out, taken, stamp) /\ AtEnd /\ EofAlone
  BY DEF StamperInv
<1>1. StamperTypes'
  BY <1>0 DEF StamperTypes
<1>2. Clocks'
  <2>1. /\ \A k \in 1..Len(sent) : sent[k].at \in Nat
        /\ now \in Nat
    <3>1. \A k \in 1..Len(sent) : sent[k] \in Record
      BY <1>0, ElementOfSeq DEF StamperTypes
    <3>2. QED  BY <1>0, <3>1 DEF Record, StamperTypes
  <2>2. \A k \in 1..Len(sent) : sent[k].at <= now'
    BY <1>0, <2>1 DEF Clocks
  <2>3. QED  BY <1>0, <2>2 DEF Clocks
<1>3. Late(out, taken, stamp)'
  BY <1>0 DEF Late, LateUpTo, Numbered, Bounded, NotEarly, Sorted
<1>4. AtEnd'
  BY <1>0 DEF AtEnd, EndsLine
<1>5. EofAlone'
  BY <1>0 DEF EofAlone
<1>6. QED  BY <1>1, <1>2, <1>3, <1>4, <1>5 DEF StamperInv

-----------------------------------------------------------------------------
(* The steps of the thread.                                                *)
LEMMA ReadChunkStep ==
  ASSUME StamperInv, NEW n \in 1..ChunkSize, ReadChunk(n)
  PROVE  StamperInv'
<1>0. StamperTypes /\ Clocks /\ Late(out, taken, stamp) /\ AtEnd
  BY DEF StamperInv
<1>1. /\ now \in Nat /\ sent \in Seq(Record) /\ taken \in Nat /\ stamp \in Nat /\ stamp <= now
      /\ out \in Seq(Token) /\ Len(out) \in Nat /\ Len(sent) \in Nat
  BY <1>0, LenProperties DEF StamperTypes
<1>2. /\ thread = "select" /\ n \in Nat /\ n > 0 /\ n <= Len(sent) - taken
      /\ taken' = taken + n /\ rest' = n /\ stamp' = now
      /\ out' = IF eolBefore THEN Append(out, Stamp(now)) ELSE out
      /\ eolBefore' = FALSE /\ thread' = "lines"
      /\ UNCHANGED <<now, sent, closed, incompleteLineSent>>
  BY StamperAssumption DEF ReadChunk, Pipe, CurrentStamp, solverVars
<1>3. Late(out, taken + n, now)
  <2>1. taken + n \in Nat /\ taken <= taken + n
    BY <1>1, <1>2
  <2>2. QED  BY <1>0, <1>1, <2>1, LateGrows
<1>4. out' \in Seq(Token) /\ Late(out', taken + n, now)
  <2>1. CASE eolBefore
    <3> DEFINE e == Stamp(now)
    <3>1. e \in Token /\ e.kind = "stamp" /\ e.val = now
      BY <1>1 DEF Stamp, Token, Kinds
    <3>2. out' = out \o <<e>>
      BY <1>1, <1>2, <2>1, <3>1, AppendIsConcat
    <3> HIDE DEF e
    <3>3. <<e>> \in Seq(Token) /\ Len(<<e>>) = 1 /\ <<e>>[1] = e /\ Late(<<e>>, taken + n, now)
      <4>1. taken + n \in Nat /\ e.kind # "byte" /\ e.val <= now
        BY <1>1, <1>2, <3>1
      <4>2. QED  BY <1>1, <3>1, <4>1, LateOne
    <3>4. \A i \in 1..Len(<<e>>) : <<e>>[i].kind = "stamp" => stamp <= <<e>>[i].val
      <4>1. \A i \in 1..1 : i = 1
        OBVIOUS
      <4>2. QED  BY <1>1, <3>1, <3>3, <4>1
    <3>5. <<e>>[1].kind # "byte"
      BY <3>1, <3>3
    <3>6. Late(out, taken + n, stamp)
      <4>1. taken + n \in Nat /\ taken <= taken + n /\ stamp <= stamp
        BY <1>1, <1>2
      <4>2. QED  BY <1>0, <1>1, <4>1, LateGrows
    <3>7. taken + n \in Nat
      BY <1>1, <1>2
    <3>8. out \o <<e>> \in Seq(Token) /\ Late(out \o <<e>>, taken + n, now)
      BY <1>1, <3>3, <3>4, <3>5, <3>6, <3>7, LateConcat
    <3>9. QED  BY <3>2, <3>8
  <2>2. CASE ~ eolBefore
    BY <1>1, <1>2, <1>3, <2>2
  <2>3. QED  BY <1>0, <2>1, <2>2 DEF StamperTypes
<1>5. StamperTypes'
  <2>1. taken' \in Nat /\ taken' <= Len(sent') /\ rest' \in 0..taken' /\ stamp' \in Nat /\ stamp' <= now'
    BY <1>1, <1>2
  <2>2. QED  BY <1>0, <1>2, <1>4, <2>1 DEF StamperTypes
<1>6. Clocks'
  <2>1. \A k \in 1..(taken + n) : k \in 1..Len(sent)
    BY <1>1, <1>2
  <2>2. QED  BY <1>0, <1>2, <2>1 DEF Clocks
<1>7. Late(out, taken, stamp)'
  BY <1>2, <1>4 DEF Late, LateUpTo, Numbered, Bounded, NotEarly, Sorted
<1>8. AtEnd'
  <2>1. rest' # 0
    BY <1>2
  <2>2. Len(out') > 0 /\ out'[Len(out')].kind = "stamp" => out'[Len(out')].val = now
    <3>1. CASE eolBefore
      <4>1. Stamp(now) \in Token /\ Stamp(now).val = now
        BY <1>1 DEF Stamp, Token, Kinds
      <4>2. Len(out') = Len(out) + 1 /\ out'[Len(out) + 1] = Stamp(now)
        BY <1>1, <1>2, <3>1, <4>1, AppendProperties
      <4>3. QED  BY <4>1, <4>2
    <3>2. CASE ~ eolBefore
      BY <1>0, <1>1, <1>2, <3>2 DEF AtEnd
    <3>3. QED  BY <1>0, <3>1, <3>2 DEF StamperTypes
  <2>3. QED  BY <1>2, <2>1, <2>2 DEF AtEnd
<1>9. EofAlone'
  BY <1>2 DEF EofAlone
<1>10. QED  BY <1>5, <1>6, <1>7, <1>8, <1>9 DEF StamperInv

(* The bytes up to n, in a state where the last token, if it is a stamp,   *)
(* is the stamp of the chunk.                                              *)
LEMMA WriteBytes ==
  ASSUME StamperInv, thread = "lines", NEW n \in (taken - rest)..taken
  PROVE  LET u == out \o BytesUpTo(n)
         IN /\ u \in Seq(Token) /\ Late(u, taken, stamp)
            /\ Len(u) = Len(out) + (n - (taken - rest))
            /\ n > taken - rest => u[Len(u)] = Byte(n)
            /\ n = taken - rest => u = out
<1> DEFINE b == BytesUpTo(n)
           m == n - (taken - rest)
           u == out \o b
<1>0. StamperTypes /\ Clocks /\ Late(out, taken, stamp) /\ AtEnd
  BY DEF StamperInv
<1>1. /\ taken \in Nat /\ rest \in 0..taken /\ stamp \in Nat
      /\ out \in Seq(Token) /\ Len(out) \in Nat
  BY <1>0, LenProperties DEF StamperTypes
<1>2. /\ b \in Seq(Token) /\ Len(b) = m
      /\ \A i \in 1..m : b[i] = Byte(taken - rest + i)
      /\ Late(b, taken, stamp)
  BY <1>1, LateBytes
<1>3. m \in Nat
  BY <1>1
<1>4. \A x : Byte(x).kind = "byte" /\ Byte(x).val = x
  BY DEF Byte
<1>5. \A i \in 1..Len(b) : b[i].kind = "stamp" => stamp <= b[i].val
  BY <1>2, <1>4
<1>6. Len(out) > 0 /\ Len(b) > 0 /\ out[Len(out)].kind = "stamp" /\ b[1].kind = "byte" =>
        out[Len(out)].val >= sent[b[1].val].at
  <2>1. SUFFICES ASSUME Len(out) > 0, Len(b) > 0, out[Len(out)].kind = "stamp"
                 PROVE  out[Len(out)].val >= sent[b[1].val].at
    OBVIOUS
  <2>2. out[Len(out)].val = stamp
    BY <1>0, <2>1 DEF AtEnd
  <2>3. 1 \in 1..m /\ taken - rest + 1 \in 1..taken
    <3>1. m > 0
      BY <1>2, <2>1
    <3>2. n > taken - rest /\ n \in Int /\ n <= taken
      BY <1>1, <3>1
    <3>3. QED  BY <1>1, <1>3, <3>1, <3>2
  <2>4. b[1].val \in 1..taken
    BY <1>2, <1>4, <2>3
  <2>5. sent[b[1].val].at <= stamp
    BY <1>0, <2>4 DEF Clocks
  <2>6. sent[b[1].val].at \in Nat
    <3>1. b[1].val \in 1..Len(sent) /\ sent \in Seq(Record)
      <4>1. Len(sent) \in Nat /\ taken <= Len(sent) /\ sent \in Seq(Record)
        BY <1>0, LenProperties DEF StamperTypes
      <4>2. QED  BY <1>1, <2>4, <4>1
    <3>2. sent[b[1].val] \in Record
      BY <3>1, ElementOfSeq
    <3>3. QED  BY <3>2 DEF Record
  <2>7. QED  BY <1>1, <2>2, <2>5, <2>6
<1> HIDE DEF b, m
<1>7. u \in Seq(Token) /\ Late(u, taken, stamp)
  <2>1. stamp <= stamp
    BY <1>1
  <2>2. QED  BY <1>0, <1>1, <1>2, <1>5, <1>6, <2>1, LateConcat
<1>8. Len(u) = Len(out) + m
      /\ \A i \in 1..(Len(out) + m) : u[i] = IF i <= Len(out) THEN out[i] ELSE b[i - Len(out)]
  BY <1>1, <1>2, ConcatProperties
<1>9. m > 0 => u[Len(out) + m] = b[m]
  BY <1>1, <1>3, <1>8
<1>10. n > taken - rest => u[Len(u)] = Byte(n)
  <2>1. n > taken - rest => m > 0 /\ taken - rest + m = n /\ m \in 1..m
    BY <1>1, <1>3 DEF m
  <2>2. QED  BY <1>2, <1>8, <1>9, <2>1
<1>11. n = taken - rest => u = out
  <2>1. SUFFICES ASSUME n = taken - rest PROVE u = out
    OBVIOUS
  <2>2. Len(b) = 0
    BY <1>1, <1>2, <2>1 DEF m
  <2>3. b = <<>>
    BY <1>2, <2>2, EmptySeq
  <2>4. QED  BY <1>1, <2>3, ConcatEmptySeq
<1>12. QED  BY <1>7, <1>8, <1>10, <1>11 DEF b, m

LEMMA WriteLineStep ==
  ASSUME StamperInv, WriteLine
  PROVE  StamperInv'
<1>0. StamperTypes /\ Clocks /\ Late(out, taken, stamp) /\ AtEnd
  BY DEF StamperInv
<1>1. PICK n \in LineEnds :
        /\ rest' = taken - n
        /\ out' = out \o BytesUpTo(n) \o StampIfMore(taken - n)
        /\ eolBefore' = (IF n = taken THEN TRUE ELSE eolBefore)
  BY DEF WriteLine
<1>2. thread = "lines" /\ UNCHANGED <<now, sent, closed, taken, stamp, incompleteLineSent, thread>>
  BY DEF WriteLine, solverVars
<1>3. taken \in Nat /\ rest \in 0..taken /\ stamp \in Nat /\ stamp <= now /\ now \in Nat
  BY <1>0 DEF StamperTypes
<1>4. n \in (taken - rest + 1)..taken /\ sent[n].eol
  BY DEF LineEnds
<1> DEFINE u == out \o BytesUpTo(n)
<1>5. /\ u \in Seq(Token) /\ Late(u, taken, stamp) /\ Len(u) > 0
      /\ u[Len(u)] = Byte(n)
  <2>1. n \in (taken - rest)..taken /\ n > taken - rest
    BY <1>3, <1>4
  <2>2. Len(out) \in Nat
    BY <1>0, LenProperties DEF StamperTypes
  <2>3. /\ u \in Seq(Token) /\ Late(u, taken, stamp)
        /\ Len(u) = Len(out) + (n - (taken - rest)) /\ u[Len(u)] = Byte(n)
    BY <1>2, <2>1, WriteBytes
  <2>4. QED  BY <1>3, <2>1, <2>2, <2>3
<1>6. out' = u \o StampIfMore(taken - n)
  BY <1>1
<1> HIDE DEF u
<1>7. /\ out' \in Seq(Token) /\ Late(out', taken, stamp)
      /\ taken = n => out' = u
      /\ taken # n => Len(out') > 0 /\ out'[Len(out')] = Stamp(stamp)
  <2>1. CASE taken = n
    <3>1. StampIfMore(taken - n) = <<>>
      BY <1>3, <2>1 DEF StampIfMore
    <3>2. QED  BY <1>5, <1>6, <2>1, <3>1, ConcatEmptySeq
  <2>2. CASE taken # n
    <3> DEFINE e == Stamp(stamp)
    <3>1. StampIfMore(taken - n) = <<e>>
      BY <1>3, <1>4, <2>2 DEF StampIfMore
    <3>2. e \in Token /\ e.kind = "stamp" /\ e.val = stamp
      BY <1>3 DEF Stamp, Token, Kinds
    <3> HIDE DEF e
    <3>3. <<e>> \in Seq(Token) /\ Len(<<e>>) = 1 /\ <<e>>[1] = e /\ Late(<<e>>, taken, stamp)
      <4>1. e.kind # "byte" /\ e.val <= stamp
        BY <1>3, <3>2
      <4>2. QED  BY <1>3, <3>2, <4>1, LateOne
    <3>4. \A i \in 1..Len(<<e>>) : <<e>>[i].kind = "stamp" => stamp <= <<e>>[i].val
      <4>1. \A i \in 1..1 : i = 1
        OBVIOUS
      <4>2. QED  BY <1>3, <3>2, <3>3, <4>1
    <3>5. <<e>>[1].kind # "byte" /\ stamp <= stamp
      BY <1>3, <3>2, <3>3
    <3>6. u \o <<e>> \in Seq(Token) /\ Late(u \o <<e>>, taken, stamp)
      BY <1>3, <1>5, <3>3, <3>4, <3>5, LateConcat
    <3>7. u \o <<e>> = Append(u, e)
      BY <1>5, <3>2, AppendIsConcat
    <3>8. /\ Len(Append(u, e)) = Len(u) + 1 /\ Append(u, e)[Len(u) + 1] = e
          /\ Len(u) \in Nat
      BY <1>5, <3>2, AppendProperties, LenProperties
    <3>9. out' = u \o <<e>>
      BY <1>6, <3>1
    <3>10. Len(out') > 0 /\ out'[Len(out')] = e
      BY <3>7, <3>8, <3>9
    <3>11. QED  BY <2>2, <3>6, <3>9, <3>10 DEF e
  <2>3. QED  BY <2>1, <2>2
<1>8. StamperTypes'
  <2>1. rest' \in 0..taken
    BY <1>1, <1>3, <1>4
  <2>2. eolBefore' \in BOOLEAN
    BY <1>0, <1>1, Zenon DEF StamperTypes
  <2>3. QED  BY <1>0, <1>2, <1>7, <2>1, <2>2 DEF StamperTypes
<1>9. Clocks'
  BY <1>0, <1>2 DEF Clocks
<1>10. Late(out, taken, stamp)'
  BY <1>2, <1>7 DEF Late, LateUpTo, Numbered, Bounded, NotEarly, Sorted
<1>11. AtEnd'
  <2>1. Byte(n).kind = "byte" /\ Byte(n).val = n /\ Stamp(stamp).val = stamp
    BY DEF Byte, Stamp
  <2>2. rest' = 0 => EndsLine'
    <3>1. rest' = 0 => taken = n
      BY <1>1, <1>3, <1>4
    <3>2. QED  BY <1>2, <1>4, <1>5, <1>7, <2>1, <3>1 DEF EndsLine
  <2>3. Len(out') > 0 /\ out'[Len(out')].kind = "stamp" => out'[Len(out')].val = stamp'
    BY <1>2, <1>5, <1>7, <2>1
  <2>4. thread' = "lines"
    BY <1>2
  <2>5. QED  BY <2>2, <2>3, <2>4 DEF AtEnd
<1>12. EofAlone'
  BY <1>2 DEF EofAlone
<1>13. QED  BY <1>8, <1>9, <1>10, <1>11, <1>12 DEF StamperInv

LEMMA WriteRestStep ==
  ASSUME StamperInv, WriteRest
  PROVE  StamperInv'
<1>0. StamperTypes /\ Clocks /\ Late(out, taken, stamp) /\ AtEnd
  BY DEF StamperInv
<1>1. /\ thread = "lines" /\ thread' = "select" /\ rest' = 0
      /\ out' = out \o BytesUpTo(taken) /\ incompleteLineSent' = (rest > 0)
      /\ UNCHANGED <<now, sent, closed, taken, stamp, eolBefore>>
  BY DEF WriteRest, Incomplete, AfterLines, solverVars
<1>2. taken \in Nat /\ rest \in 0..taken /\ Len(out) \in Nat
  BY <1>0, LenProperties DEF StamperTypes
<1>3. /\ out' \in Seq(Token) /\ Late(out', taken, stamp)
      /\ rest > 0 => out'[Len(out')] = Byte(taken)
      /\ rest = 0 => out' = out
  <2>1. taken \in (taken - rest)..taken
    BY <1>2
  <2>2. /\ out' \in Seq(Token) /\ Late(out', taken, stamp)
        /\ taken > taken - rest => out'[Len(out')] = Byte(taken)
        /\ taken = taken - rest => out' = out
    BY <1>1, <2>1, WriteBytes
  <2>3. (rest > 0 => taken > taken - rest) /\ (rest = 0 => taken = taken - rest)
    BY <1>2
  <2>4. QED  BY <2>2, <2>3
<1>4. StamperTypes'
  <2>1. 0 \in 0..taken
    BY <1>2
  <2>2. QED  BY <1>0, <1>1, <1>3, <2>1 DEF StamperTypes
<1>5. Clocks'
  BY <1>0, <1>1 DEF Clocks
<1>6. Late(out, taken, stamp)'
  BY <1>1, <1>3 DEF Late, LateUpTo, Numbered, Bounded, NotEarly, Sorted
<1>7. AtEnd'
  <2>1. Byte(taken).kind = "byte"
    BY DEF Byte
  <2>2. CASE rest > 0
    BY <1>1, <1>3, <2>1, <2>2 DEF AtEnd
  <2>3. CASE rest = 0
    <3>1. EndsLine
      BY <1>0, <1>1, <2>3 DEF AtEnd
    <3>2. EndsLine' /\ (Len(out') = 0 \/ out'[Len(out')].kind = "byte")
      BY <1>1, <1>3, <2>3, <3>1 DEF EndsLine
    <3>3. QED  BY <1>1, <3>2 DEF AtEnd
  <2>4. QED  BY <1>2, <2>2, <2>3
<1>8. EofAlone'
  BY <1>1 DEF EofAlone
<1>9. QED  BY <1>4, <1>5, <1>6, <1>7, <1>8 DEF StamperInv

LEMMA LatePair ==
  ASSUME NEW tk \in Nat, NEW t \in Nat
  PROVE  /\ <<Stamp(t), EOF>> \in Seq(Token) /\ Len(<<Stamp(t), EOF>>) = 2
         /\ Late(<<Stamp(t), EOF>>, tk, t)
<1> DEFINE s == <<Stamp(t), EOF>>
<1>1. Stamp(t) \in Token /\ EOF \in Token
  BY DEF Stamp, EOF, Token, Kinds
<1>2. s \in Seq(Token) /\ Len(s) = 2 /\ s[1] = Stamp(t) /\ s[2] = EOF
  BY <1>1
<1>3. Stamp(t).kind = "stamp" /\ Stamp(t).val = t /\ EOF.kind = "EOF"
  BY DEF Stamp, EOF
<1> HIDE DEF s
<1>4. \A i \in 1..2 : i = 1 \/ i = 2
  OBVIOUS
<1>5. Numbered(s, 2, tk) /\ Bounded(s, 2, t)
  BY <1>2, <1>3, <1>4 DEF Numbered, Bounded
<1>6. NotEarly(s, 2)
  <2>1. \A i \in 1..(2 - 1) : i = 1
    OBVIOUS
  <2>2. QED  BY <1>2, <1>3, <2>1 DEF NotEarly
<1>7. Sorted(s, 2)
  BY <1>2, <1>3, <1>4 DEF Sorted
<1>8. Late(s, tk, t)
  BY <1>2, <1>5, <1>6, <1>7 DEF Late, LateUpTo
<1>9. QED  BY <1>2, <1>8 DEF s

LEMMA FinishStep ==
  ASSUME StamperInv, Finish
  PROVE  StamperInv'
<1>0. StamperTypes /\ Clocks /\ Late(out, taken, stamp) /\ AtEnd
  BY DEF StamperInv
<1>1. /\ thread = "finish" /\ thread' = "done"
      /\ UNCHANGED <<now, sent, closed, taken, rest, eolBefore, incompleteLineSent>>
  BY DEF Finish, solverVars
<1>2. /\ taken \in Nat /\ stamp \in Nat /\ now \in Nat /\ stamp <= now
      /\ out \in Seq(Token) /\ Len(out) \in Nat /\ sent \in Seq(Record) /\ Len(sent) \in Nat
      /\ taken <= Len(sent)
  BY <1>0, LenProperties DEF StamperTypes
<1>3. AtEnd'
  BY <1>1 DEF AtEnd
<1>4. CASE ~ AddEOF
  <2>1. out' = out /\ stamp' = stamp
    BY <1>4 DEF Finish
  <2>2. StamperTypes' /\ Clocks'
    BY <1>0, <1>1, <2>1 DEF StamperTypes, Clocks
  <2>3. Late(out, taken, stamp)'
    BY <1>0, <1>1, <2>1 DEF Late, LateUpTo, Numbered, Bounded, NotEarly, Sorted
  <2>4. EofAlone'
    BY <1>4 DEF EofAlone
  <2>5. QED  BY <1>3, <2>2, <2>3, <2>4 DEF StamperInv
<1>5. CASE AddEOF
  <2> DEFINE nl == IF incompleteLineSent THEN <<Newline>> ELSE <<>>
             pair == <<Stamp(now), EOF>>
             u == out \o nl
  <2>1. out' = u \o pair /\ stamp' = now
    BY <1>5 DEF Finish
  <2>2. /\ pair \in Seq(Token) /\ Len(pair) = 2 /\ pair[1] = Stamp(now) /\ pair[2] = EOF
        /\ Late(pair, taken, now)
    BY <1>2, LatePair
  <2>3. Stamp(now).kind = "stamp" /\ Stamp(now).val = now /\ EOF.kind = "EOF"
        /\ Newline.kind = "newline" /\ Newline \in Token
    BY DEF Stamp, EOF, Newline, Token, Kinds
  <2>4. /\ nl \in Seq(Token) /\ Len(nl) \in {0, 1} /\ Late(nl, taken, stamp)
        /\ Len(nl) = 1 => nl[1] = Newline
        /\ Len(nl) = 1 <=> incompleteLineSent
        /\ Len(nl) = 0 => nl = <<>>
    <3>1. CASE incompleteLineSent
      BY <1>2, <2>3, <3>1, LateOne
    <3>2. CASE ~ incompleteLineSent
      BY <1>2, <3>2, LateNone
    <3>3. QED  BY <3>1, <3>2
  <2> HIDE DEF nl, pair
  <2>5. /\ u \in Seq(Token) /\ Late(u, taken, stamp) /\ Len(u) = Len(out) + Len(nl)
        /\ Len(nl) = 1 => u[Len(u)] = Newline
        /\ Len(nl) = 0 => u = out
    <3>1. \A i \in 1..Len(nl) : nl[i].kind # "stamp" /\ nl[i].kind # "byte"
      <4>1. \A i \in 1..1 : i = 1
        OBVIOUS
      <4>2. QED  BY <2>3, <2>4, <4>1
    <3>2. \A i \in 1..Len(nl) : nl[i].kind = "stamp" => stamp <= nl[i].val
      BY <3>1
    <3>3. Len(nl) > 0 => nl[1].kind # "byte"
      BY <2>3, <2>4
    <3>4. stamp <= stamp
      BY <1>2
    <3>5. u \in Seq(Token) /\ Late(u, taken, stamp)
      BY <1>0, <1>2, <2>4, <3>2, <3>3, <3>4, LateConcat
    <3>6. Len(u) = Len(out) + Len(nl)
          /\ \A i \in 1..(Len(out) + Len(nl)) :
               u[i] = IF i <= Len(out) THEN out[i] ELSE nl[i - Len(out)]
      BY <1>2, <2>4, ConcatProperties
    <3>7. Len(nl) = 1 => u[Len(u)] = nl[1]
      BY <1>2, <3>6
    <3>8. Len(nl) = 0 => u = out
      BY <1>2, <2>4, ConcatEmptySeq
    <3>9. QED  BY <2>4, <3>5, <3>6, <3>7, <3>8
  <2>6. Len(u) > 0 => u[Len(u)].kind = "byte" \/ u[Len(u)] = Newline
    <3>1. CASE Len(nl) = 1
      BY <2>5, <3>1
    <3>2. CASE Len(nl) = 0
      BY <1>0, <1>1, <2>5, <3>2 DEF AtEnd
    <3>3. QED  BY <2>4, <3>1, <3>2
  <2> HIDE DEF u
  <2>7. /\ out' \in Seq(Token) /\ Late(out', taken, now)
        /\ Len(out') = Len(u) + 2 /\ Len(u) \in Nat
        /\ out'[Len(u) + 1] = Stamp(now) /\ out'[Len(u) + 2] = EOF
        /\ Len(u) > 0 => out'[Len(u)] = u[Len(u)]
    <3>1. \A i \in 1..Len(pair) : pair[i].kind = "stamp" => stamp <= pair[i].val
      <4>1. \A i \in 1..2 : i = 1 \/ i = 2
        OBVIOUS
      <4>2. QED  BY <1>2, <2>2, <2>3, <4>1
    <3>2. pair[1].kind # "byte"
      BY <2>2, <2>3
    <3>3. out' \in Seq(Token) /\ Late(out', taken, now)
      <4>1. u \o pair \in Seq(Token) /\ Late(u \o pair, taken, now)
        BY <1>2, <2>2, <2>5, <3>1, <3>2, LateConcat
      <4>2. QED  BY <2>1, <4>1
    <3>4. Len(u \o pair) = Len(u) + Len(pair)
          /\ \A i \in 1..(Len(u) + Len(pair)) :
               (u \o pair)[i] = IF i <= Len(u) THEN u[i] ELSE pair[i - Len(u)]
      <4>1. u \in Seq(Token) /\ pair \in Seq(Token)
        BY <2>2, <2>5
      <4>2. QED  BY <4>1, ConcatProperties
    <3>5. Len(u) \in Nat
      BY <2>5, LenProperties
    <3>6. Len(out') = Len(u) + 2
      BY <2>1, <2>2, <3>4
    <3>7. /\ (u \o pair)[Len(u) + 1] = pair[1] /\ (u \o pair)[Len(u) + 2] = pair[2]
          /\ Len(u) > 0 => (u \o pair)[Len(u)] = u[Len(u)]
      BY <2>2, <3>4, <3>5
    <3>8. QED  BY <2>1, <2>2, <3>3, <3>5, <3>6, <3>7
  <2>8. StamperTypes'
    BY <1>0, <1>1, <1>2, <2>1, <2>7 DEF StamperTypes
  <2>9. Clocks'
    <3>1. \A k \in 1..taken : k \in 1..Len(sent)
      BY <1>2
    <3>2. QED  BY <1>0, <1>1, <2>1, <3>1 DEF Clocks
  <2>10. Late(out, taken, stamp)'
    BY <1>1, <2>1, <2>7 DEF Late, LateUpTo, Numbered, Bounded, NotEarly, Sorted
  <2>11. EofAlone'
    <3>1. Len(u) > 0 => u[Len(u)] = Newline \/ (u[Len(u)].kind = "byte" /\ sent[u[Len(u)].val].eol)
      <4>1. CASE incompleteLineSent
        BY <2>4, <2>5, <4>1
      <4>2. CASE ~ incompleteLineSent
        <5>1. EndsLine /\ u = out
          BY <1>0, <1>1, <2>4, <2>5, <4>2 DEF AtEnd
        <5>2. QED  BY <5>1 DEF EndsLine
      <4>3. QED  BY <4>1, <4>2
    <3>2. Len(out') >= 2 /\ Len(out') - 1 = Len(u) + 1 /\ Len(out') - 2 = Len(u)
      BY <2>7
    <3>3. Len(out') > 2 => Len(u) > 0
      BY <2>7
    <3>4. out'[Len(out')] = EOF /\ out'[Len(out') - 1].kind = "stamp"
      BY <2>3, <2>7, <3>2
    <3>5. Len(out') > 2 => out'[Len(out') - 2] = u[Len(u)]
      BY <2>7, <3>2, <3>3
    <3>6. QED  BY <1>1, <3>1, <3>2, <3>3, <3>4, <3>5 DEF EofAlone
  <2>12. QED  BY <1>3, <2>8, <2>9, <2>10, <2>11 DEF StamperInv
<1>6. QED  BY <1>4, <1>5

LEMMA StamperStep == StamperInv /\ [StamperNext]_stamperVars => StamperInv'
<1> SUFFICES ASSUME StamperInv, [StamperNext]_stamperVars PROVE StamperInv'
  OBVIOUS
<1>0. now \in Nat /\ closed \in BOOLEAN
  BY DEF StamperInv, StamperTypes
<1>1. ASSUME NEW eol \in BOOLEAN, SolverWrites(eol) PROVE StamperInv'
  BY <1>1, SolverWritesStep
<1>2. CASE SolverCloses
  <2>1. /\ UNCHANGED <<sent, taken, rest, stamp, eolBefore, incompleteLineSent, out>>
        /\ closed' = TRUE /\ now' = now /\ thread' = thread
    BY <1>2 DEF SolverCloses, threadVars
  <2>2. closed' \in BOOLEAN /\ now' \in Nat /\ now' >= now
    BY <1>0, <2>1
  <2>3. QED  BY <2>1, <2>2, QuietStep
<1>3. CASE Clock
  <2>1. /\ UNCHANGED <<sent, taken, rest, stamp, eolBefore, incompleteLineSent, out>>
        /\ closed' = closed /\ now' = now + 1 /\ thread' = thread
    BY <1>3 DEF Clock, threadVars, solverVars
  <2>2. closed' \in BOOLEAN /\ now' \in Nat /\ now' >= now
    BY <1>0, <2>1
  <2>3. QED  BY <2>1, <2>2, QuietStep
<1>4. CASE Interrupted
  <2>1. /\ UNCHANGED <<sent, taken, rest, stamp, eolBefore, incompleteLineSent, out>>
        /\ closed' = closed /\ now' = now
        /\ thread = "select" /\ thread' \in {"select", "finish"}
    BY <1>4 DEF Interrupted, AfterError, solverVars
  <2>2. closed' \in BOOLEAN /\ now' \in Nat /\ now' >= now
    BY <1>0, <2>1
  <2>3. QED  BY <2>1, <2>2, QuietStep
<1>5. ASSUME NEW n \in 1..ChunkSize, ReadChunk(n) PROVE StamperInv'
  BY <1>5, ReadChunkStep
<1>6. CASE WriteLine
  BY <1>6, WriteLineStep
<1>7. CASE WriteRest
  BY <1>7, WriteRestStep
<1>8. CASE EndOfFile
  <2>1. /\ UNCHANGED <<sent, taken, rest, stamp, eolBefore, incompleteLineSent, out>>
        /\ closed' = closed /\ now' = now
        /\ thread = "select" /\ thread' = "finish"
    BY <1>8 DEF EndOfFile, solverVars
  <2>2. closed' \in BOOLEAN /\ now' \in Nat /\ now' >= now
    BY <1>0, <2>1
  <2>3. QED  BY <2>1, <2>2, QuietStep
<1>9. CASE Finish
  BY <1>9, FinishStep
<1>10. CASE UNCHANGED stamperVars
  <2>1. /\ UNCHANGED <<sent, taken, rest, stamp, eolBefore, incompleteLineSent, out>>
        /\ closed' = closed /\ now' = now /\ thread' = thread
    BY <1>10 DEF stamperVars, solverVars, threadVars
  <2>2. closed' \in BOOLEAN /\ now' \in Nat /\ now' >= now
    BY <1>0, <2>1
  <2>3. QED  BY <2>1, <2>2, QuietStep
<1>11. QED
  BY <1>1, <1>2, <1>3, <1>4, <1>5, <1>6, <1>7, <1>8, <1>9, <1>10
  DEF StamperNext, Around, ThreadStep

-----------------------------------------------------------------------------
(* What LinesStamped needs to know of a sequence s of tokens that comes    *)
(* after others: p says whether it comes after a stamp, a is the last byte *)
(* before it and b its own last byte.                                      *)
Ends(p, s) == IF Len(s) = 0 THEN p ELSE s[Len(s)].kind = "stamp"
AfterStamp(p, s, i) == IF i = 1 THEN p ELSE s[i - 1].kind = "stamp"

Placed(p, s, k) ==
  \A i \in 1..k :
    /\ s[i].kind = "byte" => (FirstOfLine(s[i].val) <=> AfterStamp(p, s, i))
    /\ AfterStamp(p, s, i) => s[i].kind \in {"byte", "EOF"}

Within(s, k, a, b)   == \A i \in 1..k : s[i].kind = "byte" => s[i].val \in (a + 1)..b
Complete(s, k, a, b) == \A v \in (a + 1)..b : \E i \in 1..k : s[i] = Byte(v)
Rising(s, k) ==
  \A i, j \in 1..k : i < j /\ s[i].kind = "byte" /\ s[j].kind = "byte" => s[i].val < s[j].val

Laid(p, s, a, b) ==
  Placed(p, s, Len(s)) /\ Within(s, Len(s), a, b) /\ Complete(s, Len(s), a, b)
    /\ Rising(s, Len(s))

LEMMA EndsOrNot == \A s : Ends(FALSE, s) \in BOOLEAN
BY DEF Ends

(* Two such sequences fit together.                                        *)
LEMMA LaidConcat ==
  ASSUME NEW s \in Seq(Token), NEW t \in Seq(Token), NEW p,
         NEW a \in Nat, NEW b \in Nat, NEW c \in Nat, a <= b, b <= c,
         Laid(p, s, a, b), Laid(Ends(p, s), t, b, c)
  PROVE  /\ Laid(p, s \o t, a, c)
         /\ Ends(p, s \o t) <=> Ends(Ends(p, s), t)
<1> DEFINE u == s \o t
           n == Len(s)
           m == Len(t)
<1>1. n \in Nat /\ m \in Nat
  BY LenProperties
<1>2. /\ u \in Seq(Token) /\ Len(u) = n + m
      /\ \A i \in 1..(n + m) : u[i] = IF i <= n THEN s[i] ELSE t[i - n]
  BY ConcatProperties
<1> HIDE DEF u
<1>3. /\ \A i \in 1..n : i \in 1..(n + m) /\ u[i] = s[i]
      /\ \A i \in 1..(n + m) : i > n => u[i] = t[i - n] /\ i - n \in 1..m
      /\ \A i \in 1..m : n + i \in 1..(n + m) /\ u[n + i] = t[i]
  <2> HIDE DEF n, m
  <2>1. ASSUME NEW i \in 1..n PROVE i \in 1..(n + m) /\ u[i] = s[i]
    BY <1>1, <1>2
  <2>2. ASSUME NEW i \in 1..(n + m), i > n PROVE u[i] = t[i - n] /\ i - n \in 1..m
    BY <1>1, <1>2, <2>2
  <2>3. ASSUME NEW i \in 1..m PROVE n + i \in 1..(n + m) /\ u[n + i] = t[i]
    <3>1. n + i \in 1..(n + m) /\ ~ (n + i <= n) /\ (n + i) - n = i
      BY <1>1
    <3>2. u[n + i] = t[(n + i) - n]
      BY <1>2, <3>1
    <3>3. QED  BY <3>1, <3>2
  <2>4. QED  BY <2>1, <2>2, <2>3
<1>4. Placed(p, s, n) /\ Within(s, n, a, b) /\ Complete(s, n, a, b) /\ Rising(s, n)
  BY DEF Laid
<1>5. Placed(Ends(p, s), t, m) /\ Within(t, m, b, c) /\ Complete(t, m, b, c) /\ Rising(t, m)
  BY DEF Laid
<1>6. n = 0 => (Ends(p, s) <=> p)
  BY DEF Ends
<1>7. n > 0 => (Ends(p, s) <=> s[n].kind = "stamp")
  BY DEF Ends
<1> HIDE DEF n, m
<1>8. \A i \in 1..n : AfterStamp(p, u, i) <=> AfterStamp(p, s, i)
  <2> SUFFICES ASSUME NEW i \in 1..n, i # 1 PROVE u[i - 1] = s[i - 1]
    BY DEF AfterStamp
  <2>1. i - 1 \in 1..n
    BY <1>1
  <2>2. QED  BY <1>3, <2>1
<1>9. \A i \in 1..m : AfterStamp(p, u, n + i) <=> AfterStamp(Ends(p, s), t, i)
  <2> TAKE i \in 1..m
  <2>1. CASE i = 1 /\ n = 0
    BY <1>6, <2>1 DEF AfterStamp
  <2>2. CASE i = 1 /\ n > 0
    <3>1. n \in 1..n /\ n + i # 1 /\ (n + i) - 1 = n
      BY <1>1, <2>2
    <3>2. u[(n + i) - 1] = s[n]
      BY <1>3, <3>1
    <3>3. AfterStamp(p, u, n + i) <=> u[(n + i) - 1].kind = "stamp"
      BY <3>1 DEF AfterStamp
    <3>4. AfterStamp(Ends(p, s), t, i) <=> Ends(p, s)
      BY <2>2 DEF AfterStamp
    <3>5. QED  BY <1>7, <2>2, <3>2, <3>3, <3>4
  <2>3. CASE i > 1
    <3>1. i - 1 \in 1..m /\ n + i # 1 /\ (n + i) - 1 = n + (i - 1) /\ i # 1
      BY <1>1, <2>3
    <3>2. u[(n + i) - 1] = t[i - 1]
      BY <1>3, <3>1
    <3>3. QED  BY <3>1, <3>2 DEF AfterStamp
  <2>4. QED  BY <1>1, <2>1, <2>2, <2>3
<1>10. \A i \in 1..(n + m) : (i > n => i - n \in 1..m /\ n + (i - n) = i) /\ (i <= n => i \in 1..n)
  BY <1>1
<1>11. Placed(p, u, n + m)
  <2> SUFFICES ASSUME NEW i \in 1..(n + m)
               PROVE  /\ u[i].kind = "byte" => (FirstOfLine(u[i].val) <=> AfterStamp(p, u, i))
                      /\ AfterStamp(p, u, i) => u[i].kind \in {"byte", "EOF"}
    BY DEF Placed
  <2>1. CASE i <= n
    BY <1>3, <1>4, <1>8, <1>10, <2>1 DEF Placed
  <2>2. CASE i > n
    <3>1. i - n \in 1..m /\ n + (i - n) = i /\ u[i] = t[i - n]
      BY <1>3, <1>10, <2>2
    <3>2. AfterStamp(p, u, i) <=> AfterStamp(Ends(p, s), t, i - n)
      BY <1>9, <3>1
    <3>3. QED  BY <1>5, <3>1, <3>2 DEF Placed
  <2>3. QED  BY <1>1, <2>1, <2>2
<1>12. Within(u, n + m, a, c)
  <2> SUFFICES ASSUME NEW i \in 1..(n + m), u[i].kind = "byte" PROVE u[i].val \in (a + 1)..c
    BY DEF Within
  <2>1. CASE i <= n
    <3>1. s[i].val \in (a + 1)..b
      BY <1>3, <1>4, <1>10, <2>1 DEF Within
    <3>2. QED  BY <1>3, <1>10, <2>1, <3>1
  <2>2. CASE i > n
    <3>1. t[i - n].val \in (b + 1)..c
      BY <1>3, <1>5, <1>10, <2>2 DEF Within
    <3>2. QED  BY <1>3, <1>10, <2>2, <3>1
  <2>3. QED  BY <1>1, <2>1, <2>2
<1>13. Complete(u, n + m, a, c)
  <2> SUFFICES ASSUME NEW v \in (a + 1)..c PROVE \E i \in 1..(n + m) : u[i] = Byte(v)
    BY DEF Complete
  <2>1. CASE v <= b
    <3>1. PICK i \in 1..n : s[i] = Byte(v)
      BY <1>4, <2>1 DEF Complete
    <3>2. QED  BY <1>3, <3>1
  <2>2. CASE v > b
    <3>1. PICK i \in 1..m : t[i] = Byte(v)
      BY <1>5, <2>2 DEF Complete
    <3>2. QED  BY <1>3, <3>1
  <2>3. QED  BY <2>1, <2>2
<1>14. Rising(u, n + m)
  <2> SUFFICES ASSUME NEW i \in 1..(n + m), NEW j \in 1..(n + m), i < j,
                      u[i].kind = "byte", u[j].kind = "byte"
               PROVE  u[i].val < u[j].val
    BY DEF Rising
  <2>1. CASE j <= n
    <3>1. i \in 1..n /\ j \in 1..n
      BY <1>1, <2>1
    <3>2. QED  BY <1>3, <1>4, <3>1 DEF Rising
  <2>2. CASE i <= n /\ j > n
    <3>1. s[i].val \in (a + 1)..b /\ u[i] = s[i]
      BY <1>3, <1>4, <1>10, <2>2 DEF Within
    <3>2. t[j - n].val \in (b + 1)..c /\ u[j] = t[j - n]
      BY <1>3, <1>5, <1>10, <2>2 DEF Within
    <3>3. u[i].val \in Int /\ u[j].val \in Int /\ u[i].val <= b /\ u[j].val >= b + 1
      BY <3>1, <3>2
    <3>4. QED  BY <3>3
  <2>3. CASE i > n
    <3>1. i - n \in 1..m /\ j - n \in 1..m /\ i - n < j - n /\ j > n
      BY <1>1, <2>3
    <3>2. u[i] = t[i - n] /\ u[j] = t[j - n]
      BY <1>3, <2>3, <3>1
    <3>3. QED  BY <1>5, <3>1, <3>2 DEF Rising
  <2>4. QED  BY <1>1, <2>1, <2>2, <2>3
<1>15. Laid(p, u, a, c)
  BY <1>2, <1>11, <1>12, <1>13, <1>14 DEF Laid
<1>16. Ends(p, u) <=> Ends(Ends(p, s), t)
  <2>1. CASE m = 0
    <3>1. Len(u) = n
      BY <1>1, <1>2, <2>1
    <3>2. n # 0 => u[n] = s[n]
      BY <1>1, <1>3
    <3>3. Ends(p, u) <=> Ends(p, s)
      BY <3>1, <3>2 DEF Ends, n
    <3>4. QED  BY <2>1, <3>3 DEF Ends, m
  <2>2. CASE m > 0
    <3>1. m \in 1..m /\ u[n + m] = t[m] /\ n + m # 0 /\ m # 0
      BY <1>1, <1>3, <2>2
    <3>2. QED  BY <1>2, <3>1 DEF Ends, m
  <2>3. QED  BY <1>1, <2>1, <2>2
<1>17. QED  BY <1>15, <1>16 DEF u

(* A token that is not a byte.                                             *)
LEMMA LaidOne ==
  ASSUME NEW e \in Token, e.kind # "byte", NEW p, p => e.kind = "EOF", NEW a \in Nat
  PROVE  /\ <<e>> \in Seq(Token)
         /\ Laid(p, <<e>>, a, a)
         /\ Ends(p, <<e>>) <=> e.kind = "stamp"
<1> DEFINE s == <<e>>
<1>1. s \in Seq(Token) /\ Len(s) = 1 /\ s[1] = e
  OBVIOUS
<1> HIDE DEF s
<1>2. (\A i \in 1..1 : i = 1) /\ (a + 1)..a = {}
  OBVIOUS
<1>3. Placed(p, s, 1)
  BY <1>1, <1>2 DEF Placed, AfterStamp
<1>4. Within(s, 1, a, a) /\ Complete(s, 1, a, a) /\ Rising(s, 1)
  BY <1>1, <1>2 DEF Within, Complete, Rising
<1>5. Laid(p, s, a, a) /\ (Ends(p, s) <=> e.kind = "stamp")
  BY <1>1, <1>3, <1>4 DEF Laid, Ends
<1>6. QED  BY <1>1, <1>5 DEF s

(* No token.                                                               *)
LEMMA LaidNone ==
  ASSUME NEW p \in BOOLEAN, NEW a \in Nat
  PROVE  Laid(p, <<>>, a, a) /\ (Ends(p, <<>>) <=> p)
<1>1. Len(<<>>) = 0 /\ 1..0 = {} /\ (a + 1)..a = {}
  BY EmptySeq
<1>2. QED
  BY <1>1 DEF Laid, Placed, Within, Complete, Rising, Ends

(* The bytes up to n, if no line ends before n.                            *)
LEMMA LaidBytes ==
  ASSUME taken \in Nat, rest \in 0..taken, NEW n \in (taken - rest)..taken, NEW p \in BOOLEAN,
         n > taken - rest => (p <=> FirstOfLine(taken - rest + 1)),
         \A k \in (taken - rest + 1)..(n - 1) : ~ sent[k].eol
  PROVE  /\ Laid(p, BytesUpTo(n), taken - rest, n)
         /\ Ends(p, BytesUpTo(n)) <=> (n = taken - rest /\ p)
<1> DEFINE a == taken - rest
           m == n - a
           b == BytesUpTo(n)
<1>1. a \in Nat /\ m \in Nat /\ a + m = n /\ (m = 0 <=> n = a)
  OBVIOUS
<1>2. Len(b) = m /\ \A i \in 1..m : b[i] = Byte(a + i)
  <2>1. b = [i \in 1..m |-> Byte(a + i)]
    BY DEF BytesUpTo
  <2>2. m \in Nat
    BY <1>1
  <2> HIDE DEF m, b
  <2>3. QED  BY <2>1, <2>2
<1>3. \A x : Byte(x).kind = "byte" /\ Byte(x).val = x
  BY DEF Byte
<1>4. /\ n > a => (p <=> FirstOfLine(a + 1))
      /\ \A k \in (a + 1)..(n - 1) : ~ sent[k].eol
  OBVIOUS
<1> HIDE DEF a, m, b
<1>5. \A i \in 1..m : b[i].kind = "byte" /\ b[i].val = a + i
  BY <1>2, <1>3
<1>6. Placed(p, b, m)
  <2> SUFFICES ASSUME NEW i \in 1..m
               PROVE  FirstOfLine(a + i) <=> AfterStamp(p, b, i)
    BY <1>5 DEF Placed
  <2>1. CASE i = 1
    BY <1>1, <1>4, <2>1 DEF AfterStamp
  <2>2. CASE i > 1
    <3>1. i - 1 \in 1..m /\ i # 1 /\ a + i # 1 /\ (a + i) - 1 \in (a + 1)..(n - 1)
      BY <1>1, <2>2
    <3>2. ~ FirstOfLine(a + i)
      BY <1>4, <3>1 DEF FirstOfLine
    <3>3. ~ AfterStamp(p, b, i)
      BY <1>5, <3>1 DEF AfterStamp
    <3>4. QED  BY <3>2, <3>3
  <2>3. QED  BY <2>1, <2>2
<1>7. Within(b, m, a, n)
  BY <1>1, <1>5 DEF Within
<1>8. Complete(b, m, a, n)
  <2> SUFFICES ASSUME NEW v \in (a + 1)..n PROVE \E i \in 1..m : b[i] = Byte(v)
    BY DEF Complete
  <2>1. v - a \in 1..m /\ a + (v - a) = v
    BY <1>1
  <2>2. b[v - a] = Byte(a + (v - a))
    BY <1>2, <2>1
  <2>3. QED  BY <2>1, <2>2
<1>9. Rising(b, m)
  BY <1>1, <1>5 DEF Rising
<1>10. Ends(p, b) <=> (m = 0 /\ p)
  <2>1. m # 0 => m \in 1..m
    BY <1>1
  <2>2. QED  BY <1>2, <1>5, <2>1 DEF Ends
<1>11. Laid(p, b, a, n) /\ (Ends(p, b) <=> (n = a /\ p))
  BY <1>1, <1>2, <1>6, <1>7, <1>8, <1>9, <1>10 DEF Laid
<1>12. QED  BY <1>11 DEF a, b

(* The end of what is written: a stamp is waiting for its line exactly if  *)
(* the next byte in the buffer begins a line, and none is waiting when the *)
(* buffer is empty; eolBefore tells the same of the next chunk.            *)
Seam ==
  /\ thread # "lines" => rest = 0
  /\ rest = 0 => ~ Ends(FALSE, out)
  /\ rest > 0 => (Ends(FALSE, out) <=> FirstOfLine(taken - rest + 1))
  /\ thread = "lines" => (eolBefore <=> rest = 0) /\ (rest = 0 => taken > 0 /\ sent[taken].eol)
  /\ thread = "select" => (eolBefore <=> FirstOfLine(taken + 1))

LineInv == Laid(FALSE, out, 0, taken - rest) /\ Seam

LEMMA LineInvInit == StamperInit => LineInv
<1> SUFFICES ASSUME StamperInit PROVE LineInv
  OBVIOUS
<1>1. /\ out = <<>> /\ taken = 0 /\ rest = 0 /\ thread = "select" /\ eolBefore = TRUE
      /\ taken - rest = 0 /\ taken + 1 = 1
  BY DEF StamperInit
<1>2. Laid(FALSE, <<>>, 0, 0) /\ ~ Ends(FALSE, <<>>)
  BY LaidNone
<1>3. Seam
  <2>1. ~ Ends(FALSE, out) /\ rest = 0 /\ thread = "select"
    BY <1>1, <1>2
  <2>2. eolBefore /\ FirstOfLine(taken + 1)
    BY <1>1 DEF FirstOfLine
  <2>3. ~ (rest > 0) /\ thread # "lines"
    BY <2>1
  <2>4. QED  BY <2>1, <2>2, <2>3, Zenon DEF Seam
<1>4. QED  BY <1>1, <1>2, <1>3 DEF LineInv

LEMMA LinesFromInv == StamperInv /\ LineInv => LinesStamped
<1> SUFFICES ASSUME StamperInv, LineInv PROVE LinesStamped
  OBVIOUS
<1> DEFINE n == Len(out)
<1>1. DOMAIN out = 1..n /\ n \in Nat /\ taken \in Nat /\ rest \in 0..taken
  BY LenProperties DEF StamperInv, StamperTypes
<1>2. Placed(FALSE, out, n) /\ Within(out, n, 0, taken - rest)
      /\ Complete(out, n, 0, taken - rest) /\ Rising(out, n)
  BY DEF LineInv, Laid
<1>3. rest = 0 => ~ Ends(FALSE, out)
  BY DEF LineInv, Seam
<1>4. n # 0 => (Ends(FALSE, out) <=> out[n].kind = "stamp")
  BY DEF Ends
<1> HIDE DEF n
<1>5. Shown(taken - rest)
  <2>1. 0 + 1 = 1
    OBVIOUS
  <2>2. \A i \in DOMAIN out : out[i].kind = "byte" => out[i].val \in 1..(taken - rest)
    BY <1>1, <1>2, <2>1 DEF Within
  <2>3. \A k \in 1..(taken - rest) : \E i \in DOMAIN out : out[i] = Byte(k)
    BY <1>1, <1>2, <2>1 DEF Complete
  <2>4. \A i, j \in DOMAIN out :
          i < j /\ out[i].kind = "byte" /\ out[j].kind = "byte" => out[i].val < out[j].val
    BY <1>1, <1>2 DEF Rising
  <2>5. QED  BY <2>2, <2>3, <2>4 DEF Shown
<1>6. ASSUME NEW i \in DOMAIN out, out[i].kind = "byte"
      PROVE  FirstOfLine(out[i].val) <=> (i > 1 /\ out[i - 1].kind = "stamp")
  <2>1. FirstOfLine(out[i].val) <=> AfterStamp(FALSE, out, i)
    BY <1>1, <1>2, <1>6 DEF Placed
  <2>2. AfterStamp(FALSE, out, i) <=> (i > 1 /\ out[i - 1].kind = "stamp")
    <3>1. i = 1 \/ i > 1
      BY <1>1
    <3>2. QED  BY <3>1 DEF AfterStamp
  <2>3. QED  BY <2>1, <2>2
<1>7. ASSUME NEW i \in DOMAIN out, out[i].kind = "stamp"
      PROVE  IF i = Len(out) THEN rest > 0 ELSE out[i + 1].kind \in {"byte", "EOF"}
  <2>1. CASE i = n
    <3>1. n # 0
      BY <1>1, <2>1
    <3>2. rest # 0
      BY <1>3, <1>4, <1>7, <2>1, <3>1, Zenon
    <3>4. rest > 0
      BY <1>1, <3>2
    <3>3. QED  BY <2>1, <3>4 DEF n
  <2>2. CASE i # n
    <3>1. i + 1 \in 1..n /\ i + 1 # 1 /\ (i + 1) - 1 = i
      BY <1>1, <2>2
    <3>2. AfterStamp(FALSE, out, i + 1)
      BY <1>7, <3>1 DEF AfterStamp
    <3>3. out[i + 1].kind \in {"byte", "EOF"}
      BY <1>2, <3>1, <3>2 DEF Placed
    <3>4. QED  BY <2>2, <3>3 DEF n
  <2>3. QED  BY <2>1, <2>2
<1>8. QED  BY <1>5, <1>6, <1>7 DEF LinesStamped

(* A byte that is already read begins a line whatever the solver writes.   *)
LEMMA LinesSolverWrites ==
  ASSUME StamperInv, LineInv, NEW eol \in BOOLEAN, SolverWrites(eol)
  PROVE  LineInv'
<1> DEFINE e == [eol |-> eol, at |-> now]
<1>1. /\ sent' = Append(sent, e)
      /\ UNCHANGED <<taken, rest, eolBefore, thread, out>>
  BY DEF SolverWrites, threadVars
<1>2. /\ now \in Nat /\ sent \in Seq(Record) /\ taken \in Nat /\ taken <= Len(sent)
      /\ rest \in 0..taken /\ out \in Seq(Token) /\ Len(out) \in Nat /\ Len(sent) \in Nat
  BY LenProperties DEF StamperInv, StamperTypes
<1>3. e \in Record
  BY <1>2 DEF Record
<1>4. \A k \in 1..Len(sent) : sent'[k] = sent[k]
  BY <1>1, <1>2, <1>3, AppendProperties
<1>5. \A k \in 1..taken : sent'[k] = sent[k]
  BY <1>2, <1>4
<1> HIDE DEF e
<1>6. \A v \in 1..(taken + 1) : FirstOfLine(v)' <=> FirstOfLine(v)
  <2> SUFFICES ASSUME NEW v \in 1..(taken + 1), v # 1 PROVE sent'[v - 1] = sent[v - 1]
    BY DEF FirstOfLine
  <2>1. v - 1 \in 1..taken
    BY <1>2
  <2>2. QED  BY <1>5, <2>1
<1>7. Laid(FALSE, out, 0, taken - rest)'
  <2>1. Placed(FALSE, out, Len(out)) /\ Within(out, Len(out), 0, taken - rest)
        /\ Complete(out, Len(out), 0, taken - rest) /\ Rising(out, Len(out))
    BY DEF LineInv, Laid
  <2>2. \A i \in 1..Len(out) : out[i].kind = "byte" => out[i].val \in 1..(taken + 1)
    <3>1. \A v \in (0 + 1)..(taken - rest) : v \in 1..(taken + 1)
      BY <1>2
    <3>2. QED  BY <2>1, <3>1 DEF Within
  <2>3. Placed(FALSE, out, Len(out))'
    <3> SUFFICES ASSUME NEW i \in 1..Len(out)
                 PROVE  /\ out[i].kind = "byte" =>
                             (FirstOfLine(out[i].val)' <=> AfterStamp(FALSE, out, i))
                        /\ AfterStamp(FALSE, out, i) => out[i].kind \in {"byte", "EOF"}
      BY <1>1 DEF Placed, AfterStamp, FirstOfLine
    <3>1. /\ out[i].kind = "byte" => (FirstOfLine(out[i].val) <=> AfterStamp(FALSE, out, i))
          /\ AfterStamp(FALSE, out, i) => out[i].kind \in {"byte", "EOF"}
      BY <2>1 DEF Placed
    <3>2. out[i].kind = "byte" => (FirstOfLine(out[i].val)' <=> FirstOfLine(out[i].val))
      <4> SUFFICES ASSUME out[i].kind = "byte", out[i].val # 1
                   PROVE  sent'[out[i].val - 1] = sent[out[i].val - 1]
        BY <1>1 DEF FirstOfLine
      <4>1. out[i].val - 1 \in 1..taken
        BY <1>2, <2>2
      <4>2. QED  BY <1>5, <4>1
    <3>3. QED  BY <3>1, <3>2
  <2>4. QED  BY <1>1, <2>1, <2>3 DEF Laid, Within, Complete, Rising, Byte
<1>8. Seam'
  <2>1. taken > 0 => sent'[taken] = sent[taken]
    BY <1>2, <1>5
  <2>2. FirstOfLine(taken + 1)' <=> FirstOfLine(taken + 1)
    <3>1. taken + 1 # 1 => (taken + 1) - 1 = taken /\ taken > 0
      BY <1>2
    <3>2. QED  BY <1>1, <2>1, <3>1 DEF FirstOfLine
  <2>3. FirstOfLine(taken - rest + 1)' <=> FirstOfLine(taken - rest + 1)
    <3>1. taken - rest + 1 # 1 => (taken - rest + 1) - 1 \in 1..taken
      BY <1>2
    <3>2. QED  BY <1>1, <1>5, <3>1 DEF FirstOfLine
  <2>4. Ends(FALSE, out)' <=> Ends(FALSE, out)
    BY <1>1 DEF Ends
  <2>5. QED  BY <1>1, <2>1, <2>2, <2>3, <2>4 DEF LineInv, Seam
<1>9. QED  BY <1>7, <1>8 DEF LineInv

LEMMA LinesQuiet ==
  ASSUME StamperInv, LineInv, UNCHANGED <<sent, taken, rest, eolBefore, out>>,
         thread' = thread \/ (thread = "select" /\ thread' = "finish")
  PROVE  LineInv'
<1>1. Laid(FALSE, out, 0, taken - rest)'
  BY DEF LineInv, Laid, Placed, Within, Complete, Rising, AfterStamp, FirstOfLine, Byte
<1>2. /\ Ends(FALSE, out)' <=> Ends(FALSE, out)
      /\ FirstOfLine(taken + 1)' <=> FirstOfLine(taken + 1)
      /\ FirstOfLine(taken - rest + 1)' <=> FirstOfLine(taken - rest + 1)
  BY DEF Ends, FirstOfLine
<1>3. Seam'
  BY <1>2 DEF LineInv, Seam
<1>4. QED  BY <1>1, <1>3 DEF LineInv

LEMMA LinesReadChunk ==
  ASSUME StamperInv, LineInv, NEW n \in 1..ChunkSize, ReadChunk(n)
  PROVE  LineInv'
<1>1. /\ now \in Nat /\ taken \in Nat /\ rest \in 0..taken /\ out \in Seq(Token)
  BY DEF StamperInv, StamperTypes
<1>2. /\ thread = "select" /\ n \in Nat /\ n > 0
      /\ taken' = taken + n /\ rest' = n
      /\ out' = IF eolBefore THEN Append(out, Stamp(now)) ELSE out
      /\ eolBefore' = FALSE /\ thread' = "lines"
      /\ sent' = sent
  BY StamperAssumption DEF ReadChunk, CurrentStamp, solverVars
<1>3. /\ rest = 0 /\ ~ Ends(FALSE, out) /\ (eolBefore <=> FirstOfLine(taken + 1))
      /\ Laid(FALSE, out, 0, taken - rest)
  BY <1>2 DEF LineInv, Seam
<1>4. taken - rest = taken /\ taken' - rest' = taken
  BY <1>1, <1>2, <1>3
<1>5. Laid(FALSE, out, 0, taken)
  BY <1>3, <1>4
<1>6. Laid(FALSE, out', 0, taken) /\ (Ends(FALSE, out') <=> eolBefore)
  <2>1. CASE eolBefore
    <3> DEFINE e == Stamp(now)
    <3>1. e \in Token /\ e.kind = "stamp"
      BY <1>1 DEF Stamp, Token, Kinds
    <3>2. out' = out \o <<e>>
      BY <1>1, <1>2, <2>1, <3>1, AppendIsConcat
    <3> HIDE DEF e
    <3>3. e.kind # "byte"
      BY <3>1
    <3>4. /\ <<e>> \in Seq(Token) /\ Laid(Ends(FALSE, out), <<e>>, taken, taken)
          /\ Ends(Ends(FALSE, out), <<e>>) <=> e.kind = "stamp"
      BY <1>1, <1>3, <3>1, <3>3, LaidOne
    <3>5. 0 \in Nat /\ 0 <= taken /\ taken <= taken
      BY <1>1
    <3>6. /\ Laid(FALSE, out \o <<e>>, 0, taken)
          /\ Ends(FALSE, out \o <<e>>) <=> Ends(Ends(FALSE, out), <<e>>)
      BY <1>1, <1>5, <3>4, <3>5, LaidConcat
    <3>7. QED  BY <2>1, <3>1, <3>2, <3>4, <3>6
  <2>2. CASE ~ eolBefore
    BY <1>2, <1>3, <1>5, <2>2
  <2>3. QED  BY <2>1, <2>2
<1>7. Laid(FALSE, out, 0, taken - rest)'
  BY <1>2, <1>4, <1>6 DEF Laid, Placed, Within, Complete, Rising, AfterStamp, FirstOfLine, Byte
<1>8. Seam'
  <2>1. Ends(FALSE, out)' <=> FirstOfLine(taken + 1)
    BY <1>3, <1>6 DEF Ends
  <2>2. taken' - rest' + 1 = taken + 1
    BY <1>4
  <2>3. FirstOfLine(taken - rest + 1)' <=> FirstOfLine(taken + 1)
    BY <1>2, <2>2 DEF FirstOfLine
  <2>4. rest' # 0 /\ thread' = "lines" /\ eolBefore' = FALSE /\ thread' # "select"
    BY <1>2
  <2>5. QED  BY <2>1, <2>3, <2>4, Zenon DEF Seam
<1>9. QED  BY <1>7, <1>8 DEF LineInv

(* The bytes of a line, or of the part of it that is in the buffer.        *)
LEMMA LinesBytes ==
  ASSUME StamperInv, LineInv, NEW n \in (taken - rest)..taken,
         \A k \in (taken - rest + 1)..(n - 1) : ~ sent[k].eol
  PROVE  LET u == out \o BytesUpTo(n)
         IN /\ u \in Seq(Token) /\ Laid(FALSE, u, 0, n)
            /\ Ends(FALSE, u) => n = taken - rest /\ rest > 0
<1> DEFINE b == BytesUpTo(n)
           a == taken - rest
<1>1. /\ taken \in Nat /\ rest \in 0..taken /\ out \in Seq(Token)
      /\ a \in Nat /\ n \in Nat /\ 0 <= a /\ a <= n /\ 0 \in Nat
  BY DEF StamperInv, StamperTypes
<1>2. b \in Seq(Token)
  BY <1>1, LateBytes
<1>3. n > a => (Ends(FALSE, out) <=> FirstOfLine(a + 1))
  <2>1. n > a => rest > 0
    BY <1>1
  <2>2. QED  BY <2>1 DEF LineInv, Seam
<1>4. /\ Laid(Ends(FALSE, out), b, a, n)
      /\ Ends(Ends(FALSE, out), b) <=> (n = a /\ Ends(FALSE, out))
  BY <1>1, <1>3, EndsOrNot, LaidBytes
<1>5. Laid(FALSE, out, 0, a)
  BY DEF LineInv
<1>6. rest = 0 => ~ Ends(FALSE, out)
  BY DEF LineInv, Seam
<1> HIDE DEF a, b
<1>7. /\ out \o b \in Seq(Token) /\ Laid(FALSE, out \o b, 0, n)
      /\ Ends(FALSE, out \o b) <=> Ends(Ends(FALSE, out), b)
  BY <1>1, <1>2, <1>4, <1>5, LaidConcat, ConcatProperties
<1>8. Ends(FALSE, out \o b) => n = a /\ rest # 0
  BY <1>4, <1>6, <1>7, Zenon
<1>9. rest # 0 => rest > 0
  BY <1>1
<1>10. QED  BY <1>7, <1>8, <1>9 DEF a, b

LEMMA LinesWriteLine ==
  ASSUME StamperInv, LineInv, WriteLine
  PROVE  LineInv'
<1>1. PICK n \in LineEnds :
        /\ FirstLineEnd(n)
        /\ rest' = taken - n
        /\ out' = out \o BytesUpTo(n) \o StampIfMore(taken - n)
        /\ eolBefore' = (IF n = taken THEN TRUE ELSE eolBefore)
  BY DEF WriteLine
<1>2. thread = "lines" /\ UNCHANGED <<now, sent, closed, taken, stamp, incompleteLineSent, thread>>
  BY DEF WriteLine, solverVars
<1>3. taken \in Nat /\ rest \in 0..taken /\ stamp \in Nat
  BY DEF StamperInv, StamperTypes
<1>4. n \in (taken - rest + 1)..taken /\ sent[n].eol
  BY DEF LineEnds
<1>5. \A k \in (taken - rest + 1)..(n - 1) : ~ sent[k].eol
  <2> SUFFICES ASSUME NEW k \in (taken - rest + 1)..(n - 1), sent[k].eol PROVE FALSE
    OBVIOUS
  <2>1. k \in (taken - rest + 1)..taken /\ ~ (n <= k)
    BY <1>3, <1>4
  <2>2. k \in LineEnds
    BY <2>1 DEF LineEnds
  <2>3. QED  BY <1>1, <2>1, <2>2 DEF FirstLineEnd
<1> DEFINE u == out \o BytesUpTo(n)
<1>6. u \in Seq(Token) /\ Laid(FALSE, u, 0, n) /\ ~ Ends(FALSE, u)
  <2>1. n \in (taken - rest)..taken /\ n # taken - rest
    BY <1>3, <1>4
  <2>2. QED  BY <1>5, <2>1, LinesBytes
<1>7. out' = u \o StampIfMore(taken - n)
  BY <1>1
<1> HIDE DEF u
<1>8. n \in Nat /\ n > 0 /\ taken - rest' = n /\ (rest' > 0 <=> taken # n) /\ rest' \in Nat
  BY <1>1, <1>3, <1>4
<1>9. Laid(FALSE, out', 0, n) /\ (Ends(FALSE, out') <=> taken # n)
  <2>1. CASE taken = n
    <3>1. StampIfMore(taken - n) = <<>>
      BY <1>3, <2>1 DEF StampIfMore
    <3>2. out' = u
      BY <1>6, <1>7, <3>1, ConcatEmptySeq
    <3>3. QED  BY <1>6, <2>1, <3>2
  <2>2. CASE taken # n
    <3> DEFINE e == Stamp(stamp)
    <3>1. StampIfMore(taken - n) = <<e>>
      BY <1>3, <1>4, <2>2 DEF StampIfMore
    <3>2. e \in Token /\ e.kind = "stamp"
      BY <1>3 DEF Stamp, Token, Kinds
    <3> HIDE DEF e
    <3>3. e.kind # "byte"
      BY <3>2
    <3>4. /\ <<e>> \in Seq(Token) /\ Laid(Ends(FALSE, u), <<e>>, n, n)
          /\ Ends(Ends(FALSE, u), <<e>>) <=> e.kind = "stamp"
      BY <1>6, <1>8, <3>2, <3>3, LaidOne
    <3>5. 0 \in Nat /\ 0 <= n /\ n <= n
      BY <1>8
    <3>6. /\ Laid(FALSE, u \o <<e>>, 0, n)
          /\ Ends(FALSE, u \o <<e>>) <=> Ends(Ends(FALSE, u), <<e>>)
      BY <1>6, <1>8, <3>4, <3>5, LaidConcat
    <3>7. QED  BY <1>7, <2>2, <3>1, <3>2, <3>4, <3>6
  <2>3. QED  BY <2>1, <2>2
<1>10. Laid(FALSE, out, 0, taken - rest)'
  BY <1>2, <1>8, <1>9 DEF Laid, Placed, Within, Complete, Rising, AfterStamp, FirstOfLine, Byte
<1>11. Seam'
  <2>1. Ends(FALSE, out)' <=> taken # n
    BY <1>9 DEF Ends
  <2>2. FirstOfLine(taken - rest + 1)'
    <3>1. taken' - rest' + 1 = n + 1 /\ (n + 1) - 1 = n
      BY <1>2, <1>8
    <3>2. QED  BY <1>2, <1>4, <3>1 DEF FirstOfLine
  <2>3. rest' = 0 <=> taken = n
    BY <1>8
  <2>4. rest' > 0 <=> taken # n
    BY <1>8
  <2>5. rest # 0
    BY <1>3, <1>4
  <2>6. eolBefore' <=> taken = n
    <3>1. ~ eolBefore
      BY <1>2, <2>5 DEF LineInv, Seam
    <3>2. CASE taken = n
      BY <1>1, <3>2, Zenon
    <3>3. CASE taken # n
      <4>1. eolBefore' = eolBefore
        BY <1>1, <3>3, Zenon
      <4>2. QED  BY <3>1, <3>3, <4>1, Zenon
    <3>4. QED  BY <3>2, <3>3
  <2>7. rest' = 0 => taken' > 0 /\ sent'[taken'].eol
    BY <1>2, <1>4, <1>8, <2>3
  <2>8. thread' = "lines" /\ thread' # "select"
    BY <1>2
  <2>9. QED  BY <2>1, <2>2, <2>3, <2>4, <2>6, <2>7, <2>8, Zenon DEF Seam
<1>12. QED  BY <1>10, <1>11 DEF LineInv

LEMMA LinesWriteRest ==
  ASSUME StamperInv, LineInv, WriteRest
  PROVE  LineInv'
<1>1. /\ thread = "lines" /\ thread' = "select" /\ rest' = 0
      /\ out' = out \o BytesUpTo(taken) /\ LineEnds = {}
      /\ UNCHANGED <<sent, taken, eolBefore>>
  BY DEF WriteRest, AfterLines, solverVars
<1>2. taken \in Nat /\ rest \in 0..taken
  BY DEF StamperInv, StamperTypes
<1>3. \A k \in (taken - rest + 1)..taken : ~ sent[k].eol
  BY <1>1 DEF LineEnds
<1>4. Laid(FALSE, out', 0, taken) /\ ~ Ends(FALSE, out')
  <2>1. /\ taken \in (taken - rest)..taken /\ (taken = taken - rest => ~ (rest > 0))
        /\ \A k \in (taken - rest + 1)..(taken - 1) : k \in (taken - rest + 1)..taken
    BY <1>2
  <2>2. QED  BY <1>1, <1>3, <2>1, LinesBytes
<1>5. Laid(FALSE, out, 0, taken - rest)'
  <2>1. taken' - rest' = taken
    BY <1>1, <1>2
  <2>2. QED
    BY <1>1, <1>4, <2>1 DEF Laid, Placed, Within, Complete, Rising, AfterStamp, FirstOfLine, Byte
<1>6. Seam'
  <2>1. ~ Ends(FALSE, out)'
    BY <1>4 DEF Ends
  <2>2. (eolBefore <=> rest = 0) /\ (rest = 0 => taken > 0 /\ sent[taken].eol)
    BY <1>1 DEF LineInv, Seam
  <2>3. eolBefore <=> FirstOfLine(taken + 1)
    <3>1. (taken + 1) - 1 = taken
      BY <1>2
    <3>2. CASE rest = 0
      BY <2>2, <3>1, <3>2 DEF FirstOfLine
    <3>3. CASE rest # 0
      <4>1. taken \in (taken - rest + 1)..taken /\ taken + 1 # 1
        BY <1>2, <3>3
      <4>2. ~ sent[taken].eol
        BY <1>3, <4>1
      <4>3. ~ FirstOfLine(taken + 1)
        BY <3>1, <4>1, <4>2 DEF FirstOfLine
      <4>4. QED  BY <2>2, <3>3, <4>3
    <3>4. QED  BY <3>2, <3>3
  <2>4. eolBefore' <=> FirstOfLine(taken + 1)'
    BY <1>1, <2>3 DEF FirstOfLine
  <2>5. rest' = 0 /\ ~ (rest' > 0) /\ thread' = "select" /\ thread' # "lines"
    BY <1>1
  <2>6. QED  BY <2>1, <2>4, <2>5, Zenon DEF Seam
<1>7. QED  BY <1>5, <1>6 DEF LineInv

LEMMA LinesFinish ==
  ASSUME StamperInv, LineInv, Finish
  PROVE  LineInv'
<1>1. /\ thread = "finish" /\ thread' = "done"
      /\ UNCHANGED <<now, sent, taken, rest, eolBefore>>
  BY DEF Finish, solverVars
<1>2. /\ now \in Nat /\ taken \in Nat /\ out \in Seq(Token)
      /\ rest = 0 /\ ~ Ends(FALSE, out) /\ Laid(FALSE, out, 0, taken - rest)
  BY <1>1 DEF StamperInv, StamperTypes, LineInv, Seam
<1>3. taken - rest = taken /\ 0 \in Nat /\ 0 <= taken /\ taken <= taken
  BY <1>2
<1>4. Laid(FALSE, out', 0, taken) /\ ~ Ends(FALSE, out')
  <2>1. CASE ~ AddEOF
    BY <1>2, <1>3, <2>1 DEF Finish
  <2>2. CASE AddEOF
    <3> DEFINE nl == IF incompleteLineSent THEN <<Newline>> ELSE <<>>
               st == Stamp(now)
               u == out \o nl
               v == u \o <<st>>
    <3>1. /\ st \in Token /\ st.kind = "stamp" /\ EOF \in Token /\ EOF.kind = "EOF"
          /\ Newline \in Token /\ Newline.kind = "newline"
      BY <1>2 DEF Stamp, EOF, Newline, Token, Kinds
    <3>2. out' = u \o <<st, EOF>>
      BY <2>2 DEF Finish
    <3>3. nl \in Seq(Token) /\ Laid(Ends(FALSE, out), nl, taken, taken) /\ ~ Ends(Ends(FALSE, out), nl)
      <4>1. CASE incompleteLineSent
        <5>1. Newline.kind # "byte" /\ Newline.kind # "stamp"
          BY <3>1
        <5>2. QED  BY <1>2, <3>1, <4>1, <5>1, LaidOne
      <4>2. CASE ~ incompleteLineSent
        <5>1. nl = <<>> /\ <<>> \in Seq(Token)
          BY <4>2, EmptySeq
        <5>2. Laid(Ends(FALSE, out), <<>>, taken, taken) /\ ~ Ends(Ends(FALSE, out), <<>>)
          BY <1>2, EndsOrNot, LaidNone
        <5>3. QED  BY <5>1, <5>2
      <4>3. QED  BY <4>1, <4>2
    <3> HIDE DEF nl
    <3>4. u \in Seq(Token) /\ Laid(FALSE, u, 0, taken) /\ ~ Ends(FALSE, u)
      BY <1>2, <1>3, <3>3, LaidConcat, ConcatProperties
    <3> HIDE DEF st, u
    <3>5. v \in Seq(Token) /\ Laid(FALSE, v, 0, taken)
      <4>1. st.kind # "byte"
        BY <3>1
      <4>2. <<st>> \in Seq(Token) /\ Laid(Ends(FALSE, u), <<st>>, taken, taken)
        BY <1>2, <3>1, <3>4, <4>1, LaidOne
      <4>3. QED  BY <1>2, <1>3, <3>4, <4>2, LaidConcat, ConcatProperties
    <3> HIDE DEF v
    <3>6. /\ v \o <<EOF>> \in Seq(Token) /\ Laid(FALSE, v \o <<EOF>>, 0, taken)
          /\ ~ Ends(FALSE, v \o <<EOF>>)
      <4>1. EOF.kind # "byte" /\ EOF.kind # "stamp"
        BY <3>1
      <4>2. /\ <<EOF>> \in Seq(Token) /\ Laid(Ends(FALSE, v), <<EOF>>, taken, taken)
            /\ ~ Ends(Ends(FALSE, v), <<EOF>>)
        BY <1>2, <3>1, <4>1, LaidOne
      <4>3. QED  BY <1>2, <1>3, <3>5, <4>2, LaidConcat, ConcatProperties
    <3>7. out' = v \o <<EOF>>
      <4>1. <<st, EOF>> = <<st>> \o <<EOF>>
        OBVIOUS
      <4>2. <<st>> \in Seq(Token) /\ <<EOF>> \in Seq(Token)
        BY <3>1
      <4>3. (u \o <<st>>) \o <<EOF>> = u \o (<<st>> \o <<EOF>>)
        BY <3>4, <4>2, ConcatAssociative
      <4>4. QED  BY <3>2, <4>1, <4>3 DEF v
    <3>8. QED  BY <3>6, <3>7
  <2>3. QED  BY <2>1, <2>2
<1>5. Laid(FALSE, out, 0, taken - rest)'
  BY <1>1, <1>3, <1>4 DEF Laid, Placed, Within, Complete, Rising, AfterStamp, FirstOfLine, Byte
<1>6. Seam'
  <2>1. ~ Ends(FALSE, out)'
    BY <1>4 DEF Ends
  <2>2. rest' = 0 /\ ~ (rest' > 0) /\ thread' # "lines" /\ thread' # "select"
    BY <1>1, <1>2
  <2>3. QED  BY <2>1, <2>2, Zenon DEF Seam
<1>7. QED  BY <1>5, <1>6 DEF LineInv

LEMMA LinesStep == StamperInv /\ LineInv /\ [StamperNext]_stamperVars => LineInv'
<1> SUFFICES ASSUME StamperInv, LineInv, [StamperNext]_stamperVars PROVE LineInv'
  OBVIOUS
<1>1. ASSUME NEW eol \in BOOLEAN, SolverWrites(eol) PROVE LineInv'
  BY <1>1, LinesSolverWrites
<1>2. CASE SolverCloses \/ Clock \/ Interrupted \/ EndOfFile \/ UNCHANGED stamperVars
  <2>1. UNCHANGED <<sent, taken, rest, eolBefore, out>>
    BY <1>2 DEF SolverCloses, Clock, Interrupted, EndOfFile, stamperVars, solverVars, threadVars
  <2>2. thread' = thread \/ (thread = "select" /\ thread' = "finish")
    BY <1>2 DEF SolverCloses, Clock, Interrupted, AfterError, EndOfFile,
                stamperVars, solverVars, threadVars
  <2>3. QED  BY <2>1, <2>2, LinesQuiet
<1>3. ASSUME NEW n \in 1..ChunkSize, ReadChunk(n) PROVE LineInv'
  BY <1>3, LinesReadChunk
<1>4. CASE WriteLine
  BY <1>4, LinesWriteLine
<1>5. CASE WriteRest
  BY <1>5, LinesWriteRest
<1>6. CASE Finish
  BY <1>6, LinesFinish
<1>7. QED
  BY <1>1, <1>2, <1>3, <1>4, <1>5, <1>6 DEF StamperNext, Around, ThreadStep

-----------------------------------------------------------------------------
(* Both parts in module Output.                                            *)
LEMMA OutputStamps == [Next]_vars => [StamperNext]_stamperVars
<1> SUFFICES ASSUME [Next]_vars PROVE [StamperNext]_stamperVars
  OBVIOUS
<1>1. CASE Stamping
  BY <1>1 DEF Stamping, StamperNext
<1>2. CASE Outside
  BY <1>2 DEF Outside, StamperNext
<1>3. CASE Writing \/ Ending \/ Aborted
  BY <1>3 DEF Writing, Ending, Aborted
<1>4. CASE Ended \/ UNCHANGED vars
  BY <1>4 DEF Ended, vars
<1>5. QED  BY <1>1, <1>2, <1>3, <1>4 DEF Next

LEMMA OutputFilters == StamperInv /\ StamperInv' /\ [Next]_vars => [FilterNext]_filterVars
<1> SUFFICES ASSUME StamperInv, StamperInv', [Next]_vars PROVE [FilterNext]_filterVars
  OBVIOUS
<1>1. CASE Stamping
  <2>1. CASE Len(out') > Len(out)
    <3> DEFINE size == Len(out') - Len(out)
    <3>1. Len(out) \in Nat /\ Len(out') \in Nat
      <4>1. out \in Seq(Token) /\ out' \in Seq(Token)
        BY DEF StamperInv, StamperTypes
      <4>2. QED  BY <4>1, LenProperties
    <3>2. size \in Nat \ {0}
      BY <2>1, <3>1
    <3>3. Write(size)
      BY <1>1, <2>1 DEF Stamping, ThroughFilter
    <3>4. FilterNext
      BY <3>2, <3>3 DEF FilterNext
    <3>5. QED  BY <3>4
  <2>2. CASE ~ Len(out') > Len(out)
    BY <1>1, <2>2 DEF Stamping, ThroughFilter
  <2>3. QED  BY <2>1, <2>2
<1>2. CASE Outside
  BY <1>2 DEF Outside
<1>3. CASE Writing
  BY <1>3 DEF Writing, FilterNext
<1>4. CASE Ending
  BY <1>4 DEF Ending, FilterNext
<1>5. CASE Aborted
  BY <1>5 DEF Aborted, FilterNext
<1>6. CASE Ended \/ UNCHANGED vars
  BY <1>6 DEF Ended, vars
<1>7. QED  BY <1>1, <1>2, <1>3, <1>4, <1>5, <1>6 DEF Next

THEOREM ThreadInvariant == Spec => []StamperInv
<1>1. Init => StamperInv
  BY StamperInvInit DEF Init
<1>2. StamperInv /\ [Next]_vars => StamperInv'
  BY StamperStep, OutputStamps
<1>3. QED  BY <1>1, <1>2, PTL DEF Spec

(* A stamp is never earlier than the first byte of its line, nor than the  *)
(* stamp before it.                                                        *)
THEOREM StampsAreLate == Spec => []StampsLate
BY ThreadInvariant, StampsFromInv, PTL

(* The EOF line is the last one, has a stamp and is a line of its own.     *)
THEOREM EofIsAlone == Spec => []EofAlone
<1>1. StamperInv => EofAlone
  BY DEF StamperInv
<1>2. QED  BY <1>1, ThreadInvariant, PTL

(* The filter behind the time stamper thread behaves like the filter       *)
(* alone, whatever the chunks the thread gives it.                         *)
THEOREM FilterImplemented == Spec => FilterSpec
<1>1. Init => FilterInit
  BY DEF Init
<1>2. StamperInv /\ StamperInv' /\ [Next]_vars => [FilterNext]_filterVars
  BY OutputFilters
<1>3. QED  BY <1>1, <1>2, ThreadInvariant, PTL DEF Spec, FilterSpec

(* So the file of a run of runsolver with --timestamp and -O ends up with  *)
(* its first activateSize bytes, the notice and its last bytes, ...        *)
THEOREM OutputEndsComplete == Spec => []FirstAndLastBytes
BY FilterImplemented, FileEndsComplete, PTL

(* ... and holds a beginning of that at every moment before.               *)
THEOREM OutputIsPrefix == Spec => []PrefixBefore
BY FilterImplemented, FileIsPrefix, PTL

-----------------------------------------------------------------------------
(* The end of runsolver: the filter has been given all that was written,   *)
(* the thread ended because the pipe was empty and closed, or gave up, and *)
(* the filter is flushed after that.                                       *)
Counts ==
  /\ watchDog \in Nat /\ total = Len(out)
  /\ thread = "select" => watchDog < MaxErrors
  /\ thread = "lines" => watchDog = 0
  /\ thread \in {"finish", "done"} => GaveUp \/ (closed /\ taken = Len(sent))
  /\ stage \in {"flushing", "closed"} => thread = "done"

(* The thread only adds to what it has written.                            *)
LEMMA OutGrows ==
  ASSUME StamperInv, StamperInv', ThreadStep
  PROVE  Len(out) \in Nat /\ Len(out') \in Nat /\ Len(out') >= Len(out)
<1>1. /\ out \in Seq(Token) /\ out' \in Seq(Token) /\ taken \in Nat /\ rest \in 0..taken
      /\ stamp \in Nat /\ now \in Nat
  BY DEF StamperInv, StamperTypes
<1>2. Len(out) \in Nat /\ Len(out') \in Nat
  BY <1>1, LenProperties
<1>3. ASSUME NEW t \in Seq(Token), out' = out \o t PROVE Len(out') >= Len(out)
  <2>1. Len(out') = Len(out) + Len(t) /\ Len(t) \in Nat
    BY <1>1, <1>3, ConcatProperties, LenProperties
  <2>2. QED  BY <1>2, <2>1
<1>4. ASSUME NEW t \in Seq(Token), NEW v \in Seq(Token), out' = (out \o t) \o v
      PROVE  Len(out') >= Len(out)
  <2>1. t \o v \in Seq(Token)
    BY <1>4, ConcatProperties
  <2>2. (out \o t) \o v = out \o (t \o v)
    BY <1>1, <1>4, Regroup
  <2>3. QED  BY <1>3, <1>4, <2>1, <2>2
<1>5. /\ Stamp(stamp) \in Token /\ Stamp(now) \in Token /\ EOF \in Token /\ Newline \in Token
  <2>1. Stamp(stamp) \in Token /\ Stamp(now) \in Token
    BY <1>1 DEF Stamp, Token, Kinds
  <2>2. EOF \in Token /\ Newline \in Token
    BY DEF EOF, Newline, Token, Kinds
  <2>3. QED  BY <2>1, <2>2
<1>6. ASSUME NEW n \in 1..ChunkSize, ReadChunk(n) PROVE Len(out') >= Len(out)
  <2>1. CASE eolBefore
    <3>1. out' = Append(out, Stamp(now))
      BY <1>6, <2>1 DEF ReadChunk, CurrentStamp
    <3>2. out' = out \o <<Stamp(now)>> /\ <<Stamp(now)>> \in Seq(Token)
      BY <1>1, <1>5, <3>1, AppendIsConcat
    <3>3. QED  BY <1>3, <3>2
  <2>2. CASE ~ eolBefore
    <3>1. out' = out
      BY <1>6, <2>2 DEF ReadChunk
    <3>2. QED  BY <1>2, <3>1
  <2>3. QED  BY <2>1, <2>2
<1>7. ASSUME WriteLine PROVE Len(out') >= Len(out)
  <2>1. PICK n \in LineEnds : out' = out \o BytesUpTo(n) \o StampIfMore(taken - n)
    BY <1>7 DEF WriteLine
  <2>2. n \in (taken - rest)..taken
    BY <1>1 DEF LineEnds
  <2>3. BytesUpTo(n) \in Seq(Token) /\ StampIfMore(taken - n) \in Seq(Token)
    BY <1>1, <1>5, <2>2, LateBytes, EmptySeq DEF StampIfMore
  <2>4. QED  BY <1>4, <2>1, <2>3
<1>8. ASSUME WriteRest PROVE Len(out') >= Len(out)
  <2>1. taken \in (taken - rest)..taken
    BY <1>1
  <2>2. BytesUpTo(taken) \in Seq(Token)
    BY <1>1, <2>1, LateBytes
  <2>3. QED  BY <1>3, <1>8, <2>2 DEF WriteRest
<1>9. ASSUME EndOfFile PROVE Len(out') >= Len(out)
  BY <1>2, <1>9 DEF EndOfFile
<1>10. ASSUME Finish PROVE Len(out') >= Len(out)
  <2>1. CASE AddEOF
    <3> DEFINE nl == IF incompleteLineSent THEN <<Newline>> ELSE <<>>
    <3>1. nl \in Seq(Token) /\ <<Stamp(now), EOF>> \in Seq(Token)
      BY <1>5, EmptySeq
    <3>2. out' = (out \o nl) \o <<Stamp(now), EOF>>
      BY <1>10, <2>1 DEF Finish
    <3> HIDE DEF nl
    <3>3. QED  BY <1>4, <3>1, <3>2
  <2>2. CASE ~ AddEOF
    BY <1>2, <1>10, <2>2 DEF Finish
  <2>3. QED  BY <2>1, <2>2
<1>11. QED
  BY <1>2, <1>6, <1>7, <1>8, <1>9, <1>10 DEF ThreadStep

LEMMA CountsStep == StamperInv /\ StamperInv' /\ Counts /\ [Next]_vars => Counts'
<1> SUFFICES ASSUME StamperInv, StamperInv', Counts, [Next]_vars PROVE Counts'
  OBVIOUS
<1>0. /\ watchDog \in Nat /\ total = Len(out) /\ MaxErrors \in Nat \ {0}
      /\ thread \in {"select", "lines", "finish", "done"}
      /\ Len(sent) \in Nat /\ taken \in Nat
  BY StamperAssumption, LenProperties DEF Counts, StamperInv, StamperTypes
<1>1. CASE Stamping
  <2>1. ThreadStep /\ stage = "open"
    BY <1>1 DEF Stamping, ThroughFilter
  <2>2. Len(out) \in Nat /\ Len(out') \in Nat /\ Len(out') >= Len(out)
    BY <2>1, OutGrows
  <2>3. total' = Len(out') /\ stage' = "open"
    <3>1. CASE Len(out') > Len(out)
      <4>1. total' = total + (Len(out') - Len(out)) /\ stage' = stage
        BY <1>1, <3>1 DEF Stamping, ThroughFilter, Write
      <4>2. QED  BY <1>0, <2>1, <2>2, <4>1
    <3>2. CASE ~ (Len(out') > Len(out))
      <4>1. total' = total /\ stage' = stage
        BY <1>1, <3>2 DEF Stamping, ThroughFilter, filterVars
      <4>2. QED  BY <1>0, <2>1, <2>2, <3>2, <4>1
    <3>3. QED  BY <3>1, <3>2
  <2>4. /\ watchDog' \in Nat
        /\ thread' = "select" => watchDog' < MaxErrors
        /\ thread' = "lines" => watchDog' = 0
        /\ thread' \in {"finish", "done"} =>
             watchDog' = MaxErrors \/ (closed' /\ taken' = Len(sent'))
    <3>1. ASSUME NEW n \in 1..ChunkSize, ReadChunk(n)
          PROVE  thread' = "lines" /\ watchDog' = 0
      BY <3>1 DEF ReadChunk
    <3>2. ASSUME WriteLine \/ WriteRest
          PROVE  thread = "lines" /\ thread' \in {"lines", "select"} /\ watchDog' = watchDog
      BY <3>2 DEF WriteLine, WriteRest, AfterLines
    <3>3. ASSUME EndOfFile
          PROVE  /\ thread' = "finish" /\ watchDog' = 0 /\ closed' /\ Len(sent) - taken = 0
                 /\ UNCHANGED <<sent, taken>>
      BY <3>3 DEF EndOfFile, AtEndOfFile, Pipe, solverVars
    <3>4. ASSUME Finish
          PROVE  /\ thread = "finish" /\ thread' = "done"
                 /\ UNCHANGED <<watchDog, closed, sent, taken>>
      BY <3>4 DEF Finish, solverVars
    <3>5. CASE \E n \in 1..ChunkSize : ReadChunk(n)
      BY <1>0, <3>1, <3>5
    <3>6. CASE WriteLine \/ WriteRest
      BY <1>0, <3>2, <3>6 DEF Counts
    <3>7. CASE EndOfFile
      BY <1>0, <3>3, <3>7
    <3>8. CASE Finish
      BY <1>0, <3>4, <3>8 DEF Counts, GaveUp
    <3>9. QED  BY <2>1, <3>5, <3>6, <3>7, <3>8 DEF ThreadStep
  <2>5. QED  BY <2>3, <2>4 DEF Counts, GaveUp
<1>2. CASE Outside
  <2>1. Around /\ stage = "open" /\ stage' = "open" /\ total' = total
    BY <1>2 DEF Outside, filterVars
  <2>2. ASSUME NEW eol \in BOOLEAN, SolverWrites(eol) PROVE Counts'
    <3>1. ~ closed /\ UNCHANGED <<watchDog, taken, thread, out>>
      BY <2>2 DEF SolverWrites, threadVars
    <3>2. QED  BY <2>1, <3>1 DEF Counts, GaveUp
  <2>3. CASE SolverCloses
    <3>1. closed' /\ UNCHANGED <<sent, watchDog, taken, thread, out>>
      BY <2>3 DEF SolverCloses, threadVars
    <3>2. QED  BY <2>1, <3>1 DEF Counts, GaveUp
  <2>4. CASE Clock
    <3>1. UNCHANGED <<sent, closed, watchDog, taken, thread, out>>
      BY <2>4 DEF Clock, threadVars, solverVars
    <3>2. QED  BY <2>1, <3>1 DEF Counts, GaveUp
  <2>5. CASE Interrupted
    <3>1. /\ thread = "select" /\ watchDog' = watchDog + 1
          /\ thread' = IF watchDog + 1 < MaxErrors THEN "select" ELSE "finish"
          /\ UNCHANGED <<out>>
      BY <2>5 DEF Interrupted, AfterError
    <3>2. watchDog < MaxErrors
      BY <3>1 DEF Counts
    <3>3. ~ (watchDog + 1 < MaxErrors) => watchDog' = MaxErrors
      BY <1>0, <3>1, <3>2
    <3>4. watchDog' \in Nat
      BY <1>0, <3>1
    <3>5. CASE watchDog + 1 < MaxErrors
      BY <1>0, <2>1, <3>1, <3>4, <3>5 DEF Counts, GaveUp
    <3>6. CASE ~ (watchDog + 1 < MaxErrors)
      BY <1>0, <2>1, <3>1, <3>3, <3>4, <3>6 DEF Counts, GaveUp
    <3>7. QED  BY <3>5, <3>6
  <2>6. QED  BY <2>1, <2>2, <2>3, <2>4, <2>5 DEF Around
<1>3. CASE Writing \/ Aborted
  <2>1. UNCHANGED <<sent, closed, taken, watchDog, thread, out, total>>
        /\ stage' \in {stage, "killed"}
    BY <1>3 DEF Writing, Aborted, SystemWrite, WriteFails, Killed,
                stamperVars, solverVars, threadVars
  <2>2. QED  BY <2>1 DEF Counts, GaveUp
<1>4. CASE Ending
  <2>1. UNCHANGED <<sent, closed, taken, watchDog, thread, out, total>>
    BY <1>4 DEF Ending, Flush, Close, stamperVars, solverVars, threadVars
  <2>2. thread = "done"
    BY <1>4 DEF Ending, Joined, Close, Counts
  <2>3. QED  BY <2>1, <2>2 DEF Counts, GaveUp
<1>5. CASE Ended \/ UNCHANGED vars
  <2>1. UNCHANGED <<sent, closed, taken, watchDog, thread, out, total, stage>>
    BY <1>5 DEF Ended, vars, stamperVars, solverVars, threadVars, filterVars
  <2>2. QED  BY <2>1 DEF Counts, GaveUp
<1>6. QED  BY <1>1, <1>2, <1>3, <1>4, <1>5 DEF Next

THEOREM OutputInvariant == Spec => [](StamperInv /\ LineInv /\ Counts)
<1>1. Init => StamperInv /\ LineInv /\ Counts
  <2> SUFFICES ASSUME Init PROVE StamperInv /\ LineInv /\ Counts
    OBVIOUS
  <2>1. Counts
    <3>1. /\ watchDog = 0 /\ total = 0 /\ out = <<>> /\ thread = "select" /\ stage = "open"
          /\ MaxErrors \in Nat \ {0}
      BY StamperAssumption DEF Init, StamperInit, FilterInit
    <3>2. Len(out) = 0 /\ 0 < MaxErrors
      BY <3>1, EmptySeq
    <3>3. QED  BY <3>1, <3>2 DEF Counts
  <2>2. QED  BY <2>1, StamperInvInit, LineInvInit DEF Init
<1>2. StamperInv /\ LineInv /\ Counts /\ [Next]_vars => (StamperInv /\ LineInv /\ Counts)'
  BY StamperStep, LinesStep, CountsStep, OutputStamps
<1>3. QED  BY <1>1, <1>2, PTL DEF Spec

(* The output is the solver's, with a stamp before the first byte of each  *)
(* line and nowhere else, however it is cut into chunks.                   *)
THEOREM LinesAreStamped == Spec => []LinesStamped
BY OutputInvariant, LinesFromInv, PTL

(* Everything the solver wrote has been stamped and is in the file when it *)
(* fits, and the EOF line is the last one of the file even if it does not, *)
(* unless a write failed, the thread gave up or runsolver was killed.      *)
THEOREM FileIsComplete == Spec => []FileComplete
<1>1. ASSUME StamperInv, LineInv, Counts, FirstAndLastBytes, EofAlone
      PROVE  FileComplete
  <2> SUFFICES ASSUME stage = "closed", ~ failed, ~ GaveUp
               PROVE  /\ closed /\ Shown(Len(sent))
                      /\ total <= maxSize => file = [i \in 1..Len(out) |-> i]
                      /\ AddEOF => file # <<>> /\ out[Last(file)] = EOF
    BY DEF FileComplete
  <2>1. /\ thread = "done" /\ closed /\ taken = Len(sent) /\ total = Len(out)
    BY <1>1 DEF Counts
  <2>2. /\ rest = 0 /\ taken \in Nat /\ Len(out) \in Nat
    BY <1>1, <2>1, LenProperties DEF LineInv, Seam, StamperInv, StamperTypes
  <2>3. Shown(Len(sent))
    <3>1. Shown(taken - rest)
      BY <1>1, LinesFromInv DEF LinesStamped
    <3>2. taken - rest = Len(sent)
      BY <2>1, <2>2
    <3>3. QED  BY <3>1, <3>2
  <2>4. file = Saved
    BY <1>1 DEF FirstAndLastBytes
  <2>5. CASE total <= maxSize
    <3>1. file = Bytes(1, total)
      BY <2>4, <2>5 DEF Saved
    <3>2. 1 \in Nat \ {0} /\ total >= 1 - 1 /\ total - 1 + 1 = total
      BY <2>1, <2>2
    <3>3. /\ file \in Seq(Nat) /\ Len(file) = total
          /\ \A k \in 1..total : file[k] = 1 + k - 1
      <4>1. total \in Nat
        BY <2>1, <2>2
      <4>2. /\ Bytes(1, total) \in Seq(Nat) /\ Len(Bytes(1, total)) = total - 1 + 1
            /\ \A k \in 1..(total - 1 + 1) : Bytes(1, total)[k] = 1 + k - 1
        BY <3>2, <4>1, BytesSeq
      <4>3. QED  BY <3>1, <3>2, <4>2
    <3>4. file = [i \in 1..Len(out) |-> i]
      BY <2>1, <3>1, <3>2 DEF Bytes
    <3>5. ASSUME AddEOF PROVE file # <<>> /\ out[Last(file)] = EOF
      <4>1. total >= 2 /\ out[total] = EOF
        BY <1>1, <2>1, <3>5 DEF EofAlone
      <4>2. Last(file) = total /\ file # <<>>
        BY <2>1, <2>2, <3>3, <4>1, EmptySeq DEF Last
      <4>3. QED  BY <4>1, <4>2
    <3>6. QED  BY <2>1, <2>3, <3>4, <3>5
  <2>6. CASE ~ (total <= maxSize)
    <3> DEFINE from == total - bufferSize + 1
               last == Bytes(from, total)
               first == Bytes(1, activateSize) \o <<Notice>>
    <3>1. /\ bufferSize \in Nat \ {0} /\ activateSize \in Nat /\ total \in Nat
          /\ from \in Nat \ {0} /\ total >= from - 1 /\ total - from + 1 = bufferSize
          /\ activateSize >= 1 - 1 /\ 1 \in Nat \ {0}
      BY <2>1, <2>2, <2>6, BufferSize, FilterAssumption DEF bufferSize
    <3>2. file = first \o last
      BY <2>4, <2>6 DEF Saved
    <3>3. first \in Seq(Nat)
      <4>1. Bytes(1, activateSize) \in Seq(Nat) /\ <<Notice>> \in Seq(Nat)
        BY <3>1, BytesSeq DEF Notice
      <4>2. QED  BY <4>1, ConcatProperties
    <3>4. /\ last \in Seq(Nat) /\ Len(last) = bufferSize
          /\ last[bufferSize] = from + bufferSize - 1
      <4>1. /\ last \in Seq(Nat) /\ Len(last) = total - from + 1
            /\ \A k \in 1..(total - from + 1) : last[k] = from + k - 1
        BY <3>1, BytesSeq
      <4>2. bufferSize \in 1..(total - from + 1)
        BY <3>1
      <4>3. QED  BY <3>1, <4>1, <4>2
    <3>5. from + bufferSize - 1 = total
      BY <3>1
    <3> HIDE DEF from, last, first
    <3>6. /\ file \in Seq(Nat) /\ Len(first) \in Nat /\ Len(file) = Len(first) + bufferSize
          /\ \A k \in 1..(Len(first) + Len(last)) :
               file[k] = IF k <= Len(first) THEN first[k] ELSE last[k - Len(first)]
      BY <3>2, <3>3, <3>4, ConcatProperties, LenProperties
    <3>7. Len(file) \in 1..(Len(first) + Len(last)) /\ ~ (Len(file) <= Len(first))
          /\ Len(file) - Len(first) = bufferSize
      BY <3>1, <3>4, <3>6
    <3>8. file[Len(file)] = last[Len(file) - Len(first)]
      BY <3>6, <3>7
    <3>9. file[Len(file)] = total /\ Len(file) # 0
      BY <3>4, <3>5, <3>7, <3>8
    <3>10. ASSUME AddEOF PROVE file # <<>> /\ out[Last(file)] = EOF
      <4>1. out[total] = EOF
        BY <1>1, <2>1, <3>10 DEF EofAlone
      <4>2. QED  BY <3>9, <4>1, EmptySeq DEF Last
    <3>11. QED  BY <2>1, <2>3, <2>6, <3>10
  <2>7. QED  BY <2>5, <2>6
<1>2. QED
  BY <1>1, OutputInvariant, OutputEndsComplete, EofIsAlone, PTL

-----------------------------------------------------------------------------
(* Module LineSplitter: what is printed, word by word, is what was read.   *)
(* The content of the output is a FlattenSeq, whose fold is unfolded here: *)
(* the sequence of the concatenations of the first lines exists (counting  *)
(* up to n), FlattenSeq is its last member, and one more line adds its     *)
(* content at the end.                                                     *)

(* Counting up to n.                                                       *)
LEMMA UpTo ==
  ASSUME NEW n \in Nat, NEW Good, 0 \in Good,
         \A i \in 0..(n - 1) : i \in Good => i + 1 \in Good
  PROVE  n \in Good
<1> DEFINE Bad == {i \in 0..n : i \notin Good}
<1> SUFFICES ASSUME n \notin Good PROVE FALSE
  OBVIOUS
<1>1. Bad \in SUBSET Nat /\ n \in Bad
  OBVIOUS
<1>2. PICK m \in Bad : \A i \in Bad : m <= i
  BY <1>1, LeastNatural, Zenon
<1>3. m \in 0..n /\ m \notin Good /\ m # 0
  OBVIOUS
<1>4. m - 1 \in 0..(n - 1) /\ m - 1 \notin Bad
  BY <1>2, <1>3
<1>5. m - 1 \in Good
  BY <1>4
<1>6. QED  BY <1>3, <1>4, <1>5

(* The concatenation of the first n members of a sequence of sequences.    *)
Joins(s, f, n) == f = [i \in 1..n |-> IF i = 1 THEN s[i] ELSE f[i - 1] \o s[i]]

LEMMA JoinsExist ==
  ASSUME NEW s, NEW n \in Nat
  PROVE  \E f : Joins(s, f, n)
<1> DEFINE Good == {m \in 0..n : \E f : Joins(s, f, m)}
<1>1. 0 \in Good
  <2>1. Joins(s, [i \in 1..0 |-> s[i]], 0)
    BY DEF Joins
  <2>2. QED  BY <2>1
<1>2. ASSUME NEW m \in 0..(n - 1), m \in Good PROVE m + 1 \in Good
  <2>1. PICK f : Joins(s, f, m)
    BY <1>2
  <2> DEFINE Longer(g, i) == IF i = 1 THEN s[i] ELSE g[i - 1] \o s[i]
             g == [i \in 1..(m + 1) |-> IF i = m + 1 THEN Longer(f, i) ELSE f[i]]
  <2>2. \A i \in 1..m : f[i] = Longer(f, i)
    BY <2>1 DEF Joins
  <2>3. ASSUME NEW i \in 1..(m + 1) PROVE g[i] = Longer(g, i)
    <3>1. \A j \in 1..m : g[j] = f[j]
      OBVIOUS
    <3>2. g[i] = Longer(f, i)
      BY <2>2
    <3>3. i # 1 => i - 1 \in 1..m
      OBVIOUS
    <3> HIDE DEF g
    <3>4. i # 1 => g[i - 1] = f[i - 1]
      BY <3>1, <3>3
    <3>5. QED  BY <3>2, <3>4
  <2>4. Joins(s, g, m + 1)
    <3>1. g = [i \in 1..(m + 1) |-> g[i]]
      OBVIOUS
    <3> HIDE DEF g
    <3>2. QED  BY <2>3, <3>1 DEF Joins
  <2>5. QED  BY <2>4
<1> HIDE DEF Good
<1>3. n \in Good
  BY <1>1, <1>2, UpTo
<1> USE DEF Good
<1>4. QED  BY <1>3

LEMMA FlattenIs ==
  ASSUME NEW T, NEW s \in Seq(T), s # <<>>
  PROVE  \E f : /\ FlattenSeq(s) = f[Len(s)] /\ f[1] = s[1]
                /\ \A i \in 2..Len(s) : f[i] = f[i - 1] \o s[i]
<1> DEFINE f == CHOOSE f : Joins(s, f, Len(s))
<1>1. Len(s) \in Nat /\ Len(s) # 0
  BY EmptySeq
<1>2. FlattenSeq(s) = f[Len(s)]
  BY <1>1, Zenon DEF FlattenSeq, Joins
<1>3. Joins(s, f, Len(s))
  BY <1>1, JoinsExist
<1> HIDE DEF f
<1>4. \A i \in 1..Len(s) : f[i] = IF i = 1 THEN s[i] ELSE f[i - 1] \o s[i]
  BY <1>3 DEF Joins
<1>5. 1 \in 1..Len(s) /\ \A i \in 2..Len(s) : i \in 1..Len(s) /\ i # 1
  BY <1>1
<1>6. f[1] = s[1] /\ \A i \in 2..Len(s) : f[i] = f[i - 1] \o s[i]
  BY <1>4, <1>5
<1>7. QED  BY <1>2, <1>6

(* One more sequence is added at the end.                                  *)
LEMMA FlattenEmpty == FlattenSeq(<<>>) = <<>>
BY DEF FlattenSeq

LEMMA FlattenAppend ==
  ASSUME NEW T, NEW s \in Seq(Seq(T)), NEW x \in Seq(T)
  PROVE  /\ FlattenSeq(s) \in Seq(T)
         /\ FlattenSeq(Append(s, x)) = FlattenSeq(s) \o x
<1> DEFINE t == Append(s, x)
           n == Len(s)
<1>1. /\ t \in Seq(Seq(T)) /\ t # <<>> /\ Len(t) = n + 1 /\ n \in Nat
      /\ t[n + 1] = x /\ \A i \in 1..n : t[i] = s[i]
  BY AppendProperties, LenProperties
<1> HIDE DEF t
<1>2. PICK g : /\ FlattenSeq(t) = g[n + 1] /\ g[1] = t[1]
               /\ \A i \in 2..(n + 1) : g[i] = g[i - 1] \o t[i]
  <2>1. PICK g : /\ FlattenSeq(t) = g[Len(t)] /\ g[1] = t[1]
                 /\ \A i \in 2..Len(t) : g[i] = g[i - 1] \o t[i]
    BY <1>1, FlattenIs, Zenon
  <2>2. QED  BY <1>1, <2>1
<1>3. CASE s = <<>>
  <2>1. FlattenSeq(s) = <<>> /\ n = 0
    BY <1>3, FlattenEmpty
  <2>2. FlattenSeq(t) = x
    BY <1>1, <1>2, <2>1
  <2>3. FlattenSeq(s) \in Seq(T) /\ FlattenSeq(s) \o x = x
    BY <2>1, ConcatEmptySeq
  <2>4. QED  BY <2>2, <2>3 DEF t
<1>4. CASE s # <<>>
  <2>1. PICK f : /\ FlattenSeq(s) = f[n] /\ f[1] = s[1]
                 /\ \A i \in 2..n : f[i] = f[i - 1] \o s[i]
    BY <1>4, FlattenIs
  <2>2. n - 1 \in Nat
    BY <1>4, EmptySeq
  <2> DEFINE Good == {i \in 0..(n - 1) : f[i + 1] \in Seq(T) /\ g[i + 1] = f[i + 1]}
  <2>3. 0 \in Good
    <3>1. 1 \in 1..n
      BY <2>2
    <3>2. s[1] \in Seq(T) /\ t[1] = s[1]
      BY <1>1, <3>1, ElementOfSeq
    <3>3. QED  BY <1>2, <2>1, <2>2, <3>2
  <2>4. ASSUME NEW i \in 0..((n - 1) - 1), i \in Good PROVE i + 1 \in Good
    <3>1. /\ i + 2 \in 2..n /\ i + 2 \in 2..(n + 1) /\ i + 2 \in 1..n
          /\ (i + 2) - 1 = i + 1 /\ i + 1 \in 0..(n - 1) /\ (i + 1) + 1 = i + 2
      BY <1>1
    <3>2. f[i + 2] = f[i + 1] \o s[i + 2] /\ g[i + 2] = g[i + 1] \o t[i + 2]
      BY <1>2, <2>1, <3>1
    <3>3. t[i + 2] = s[i + 2] /\ s[i + 2] \in Seq(T)
      BY <1>1, <3>1, ElementOfSeq
    <3>4. f[i + 1] \in Seq(T) /\ g[i + 1] = f[i + 1]
      BY <2>4
    <3>5. g[i + 2] = f[i + 2] /\ f[i + 2] \in Seq(T)
      BY <3>2, <3>3, <3>4, ConcatProperties
    <3>6. QED  BY <3>1, <3>5
  <2> HIDE DEF Good
  <2>5. n - 1 \in Good
    BY <2>2, <2>3, <2>4, UpTo
  <2>6. f[n] \in Seq(T) /\ g[n] = f[n]
    <3>1. (n - 1) + 1 = n
      BY <1>1
    <3>2. QED  BY <2>5, <3>1 DEF Good
  <2>7. g[n + 1] = g[n] \o x
    <3>1. n + 1 \in 2..(n + 1) /\ (n + 1) - 1 = n
      BY <1>1, <2>2
    <3>2. QED  BY <1>1, <1>2, <3>1
  <2>8. QED  BY <1>2, <2>1, <2>6, <2>7 DEF t
<1>5. QED  BY <1>3, <1>4

(* The first n sequences give the beginning.                               *)
LEMMA FlattenPrefix ==
  ASSUME NEW T, NEW s \in Seq(Seq(T)), NEW n \in 0..Len(s)
  PROVE  IsPrefix(FlattenSeq(SubSeq(s, 1, n)), FlattenSeq(s))
<1> DEFINE Up(i) == FlattenSeq(SubSeq(s, 1, i))
           more == Len(s) - n
           Good == {i \in 0..more : \E y \in Seq(T) : Up(n + i) = Up(n) \o y}
<1>0. Len(s) \in Nat /\ more \in Nat
  BY LenProperties
<1>1. \A i \in 0..Len(s) : SubSeq(s, 1, i) \in Seq(Seq(T))
  <2> TAKE i \in 0..Len(s)
  <2>1. \A j \in 1..i : s[j] \in Seq(T)
    BY <1>0, ElementOfSeq
  <2>2. QED  BY <1>0, <2>1, SubSeqProperties
<1>2. \A i \in 0..Len(s) : Up(i) \in Seq(T)
  BY <1>1, EmptySeq, FlattenAppend
<1>3. ASSUME NEW i \in 0..(Len(s) - 1)
      PROVE  Up(i + 1) = Up(i) \o s[i + 1] /\ s[i + 1] \in Seq(T)
  <2>1. i + 1 \in 1..Len(s) /\ (i + 1) - 1 = i /\ i \in 0..Len(s) /\ 1 \in 1..Len(s)
    BY <1>0
  <2>2. SubSeq(s, 1, i + 1) = SubSeq(s, 1, i) \o <<s[i + 1]>>
    BY <2>1, SubSeqRecursiveSecond
  <2>3. s[i + 1] \in Seq(T)
    BY <2>1, ElementOfSeq
  <2>4. SubSeq(s, 1, i + 1) = Append(SubSeq(s, 1, i), s[i + 1])
    BY <1>1, <2>1, <2>2, <2>3, AppendIsConcat
  <2>5. QED  BY <1>1, <2>1, <2>3, <2>4, FlattenAppend
<1> HIDE DEF Up
<1>4. 0 \in Good
  <2>1. <<>> \in Seq(T) /\ Up(n) \o <<>> = Up(n) /\ n + 0 = n
    <3>1. Up(n) \in Seq(T)
      BY <1>2
    <3>2. Up(n) \o <<>> = Up(n)
      BY <3>1, ConcatEmptySeq
    <3>3. QED  BY <1>0, <3>2, EmptySeq
  <2>2. Up(n + 0) = Up(n) \o <<>>
    BY <2>1, Zenon
  <2>3. 0 \in 0..more
    BY <1>0
  <2>4. QED  BY <2>1, <2>2, <2>3
<1>5. ASSUME NEW i \in 0..(more - 1), i \in Good PROVE i + 1 \in Good
  <2>1. PICK y \in Seq(T) : Up(n + i) = Up(n) \o y
    BY <1>5
  <2>2. n + i \in 0..(Len(s) - 1) /\ n + (i + 1) = (n + i) + 1 /\ i + 1 \in 0..more
    BY <1>0
  <2> DEFINE x == s[(n + i) + 1]
  <2>3. Up(n + (i + 1)) = (Up(n) \o y) \o x /\ x \in Seq(T)
    BY <1>3, <2>1, <2>2
  <2> HIDE DEF x
  <2>4. (Up(n) \o y) \o x = Up(n) \o (y \o x) /\ y \o x \in Seq(T)
    <3>1. Up(n) \in Seq(T)
      BY <1>2
    <3>2. (Up(n) \o y) \o x = Up(n) \o (y \o x)
      BY <2>3, <3>1, Regroup, SMTT(40)
    <3>3. y \o x \in Seq(T)
      BY <2>3, ConcatProperties
    <3>4. QED  BY <3>2, <3>3
  <2>5. QED  BY <2>2, <2>3, <2>4
<1> HIDE DEF Good
<1>6. more \in Good
  BY <1>0, <1>4, <1>5, UpTo
<1>7. PICK y \in Seq(T) : Up(Len(s)) = Up(n) \o y
  <2>1. n + more = Len(s)
    BY <1>0
  <2>2. QED  BY <1>6, <2>1 DEF Good
<1>8. Up(Len(s)) = FlattenSeq(s)
  BY SubSeqFull DEF Up
<1>9. Up(n) \in Seq(T)
  BY <1>2
<1>10. IsPrefix(Up(n), FlattenSeq(s))
  BY <1>7, <1>8, <1>9, PrefixOfConcat
<1>11. QED  BY <1>10 DEF Up

-----------------------------------------------------------------------------
(* The types of what is written, and of its content.                       *)
Stamps == Word \cup {""}
OutputLine == [stamp : Stamps, words : Seq(Word), blank : BOOLEAN]
Item == (Stamps \X Word) \cup (Stamps \X Seq(Word) \X BOOLEAN)

LEMMA ContentIs ==
  ASSUME NEW l \in OutputLine
  PROVE  Content(l) \in Seq(Item)
<1>1. l.stamp \in Stamps /\ l.words \in Seq(Word) /\ l.blank \in BOOLEAN
  BY DEF OutputLine
<1>2. CASE IsValue(l)
  <2>1. Len(l.words) \in Nat /\ Len(l.words) # 0
    BY <1>1, <1>2, EmptySeq DEF IsValue
  <2> DEFINE n == Len(l.words) - 1
             c == [i \in 1..n |-> <<l.stamp, l.words[i + 1]>>]
  <2>2. n \in Nat
    BY <2>1
  <2>3. ASSUME NEW i \in 1..n PROVE <<l.stamp, l.words[i + 1]>> \in Item
    <3>1. i + 1 \in 1..Len(l.words)
      BY <2>1
    <3>2. l.words[i + 1] \in Word
      BY <1>1, <3>1, ElementOfSeq
    <3>3. QED  BY <1>1, <3>2 DEF Item
  <2>4. c \in [1..n -> Item]
    BY <2>3
  <2> HIDE DEF c
  <2>5. c \in Seq(Item)
    BY <2>2, <2>4
  <2>6. QED  BY <1>2, <2>5 DEF Content, c
<1>3. CASE ~ IsValue(l)
  <2>1. <<l.stamp, l.words, l.blank>> \in Item
    BY <1>1 DEF Item
  <2>2. QED  BY <1>3, <2>1 DEF Content
<1>4. QED  BY <1>2, <1>3

Contents(s) == [i \in DOMAIN s |-> Content(s[i])]

LEMMA ContentsSeq ==
  ASSUME NEW s \in Seq(OutputLine)
  PROVE  /\ Contents(s) \in Seq(Seq(Item)) /\ Len(Contents(s)) = Len(s)
         /\ DOMAIN s = 1..Len(s) /\ Len(s) \in Nat
         /\ \A i \in 1..Len(s) : Contents(s)[i] = Content(s[i])
         /\ AllContent(s) = FlattenSeq(Contents(s)) /\ AllContent(s) \in Seq(Item)
<1>1. DOMAIN s = 1..Len(s) /\ Len(s) \in Nat
  BY LenProperties
<1>2. \A i \in 1..Len(s) : Content(s[i]) \in Seq(Item)
  BY ContentIs, ElementOfSeq
<1>3. Contents(s) \in [1..Len(s) -> Seq(Item)]
  BY <1>1, <1>2 DEF Contents
<1>4. Contents(s) \in Seq(Seq(Item)) /\ Len(Contents(s)) = Len(s)
  BY <1>1, <1>3
<1>5. FlattenSeq(Contents(s)) \in Seq(Item)
  BY <1>4, EmptySeq, FlattenAppend
<1>6. \A i \in 1..Len(s) : Contents(s)[i] = Content(s[i])
  BY <1>1 DEF Contents
<1>7. AllContent(s) = FlattenSeq(Contents(s))
  BY DEF AllContent, Contents
<1>8. QED  BY <1>1, <1>4, <1>5, <1>6, <1>7

LEMMA ContentAppend ==
  ASSUME NEW s \in Seq(OutputLine), NEW l \in OutputLine
  PROVE  /\ AllContent(s) \in Seq(Item) /\ Content(l) \in Seq(Item)
         /\ AllContent(Append(s, l)) = AllContent(s) \o Content(l)
<1> DEFINE t == Append(s, l)
           c == Append(Contents(s), Content(l))
<1>1. /\ t \in Seq(OutputLine) /\ Len(t) = Len(s) + 1 /\ t[Len(s) + 1] = l
      /\ \A i \in 1..Len(s) : t[i] = s[i]
  BY AppendProperties
<1>2. Content(l) \in Seq(Item)
  BY ContentIs
<1>3. /\ Contents(s) \in Seq(Seq(Item)) /\ Len(Contents(s)) = Len(s) /\ Len(s) \in Nat
      /\ AllContent(s) = FlattenSeq(Contents(s))
      /\ \A i \in 1..Len(s) : Contents(s)[i] = Content(s[i])
  BY ContentsSeq
<1>4. /\ c \in Seq(Seq(Item)) /\ Len(c) = Len(s) + 1 /\ c[Len(s) + 1] = Content(l)
      /\ \A i \in 1..Len(s) : c[i] = Content(s[i])
  BY <1>2, <1>3, AppendProperties
<1> HIDE DEF t, c
<1>5. /\ Contents(t) \in Seq(Seq(Item)) /\ Len(Contents(t)) = Len(s) + 1
      /\ \A i \in 1..(Len(s) + 1) : Contents(t)[i] = Content(t[i])
      /\ AllContent(t) = FlattenSeq(Contents(t))
  BY <1>1, ContentsSeq
<1>6. \A i \in 1..(Len(s) + 1) : Contents(t)[i] = c[i]
  <2> TAKE i \in 1..(Len(s) + 1)
  <2>1. Contents(t)[i] = Content(t[i])
    BY <1>5
  <2>2. i = Len(s) + 1 \/ i \in 1..Len(s)
    BY <1>3
  <2>3. CASE i = Len(s) + 1
    BY <1>1, <1>4, <2>1, <2>3
  <2>4. CASE i \in 1..Len(s)
    BY <1>1, <1>4, <2>1, <2>4
  <2>5. QED  BY <2>2, <2>3, <2>4
<1>7. Contents(t) = c
  BY <1>4, <1>5, <1>6, SeqEqual
<1>8. FlattenSeq(c) = FlattenSeq(Contents(s)) \o Content(l)
  BY <1>2, <1>3, FlattenAppend DEF c
<1>9. AllContent(s) \in Seq(Item)
  BY ContentsSeq
<1>10. QED  BY <1>2, <1>3, <1>5, <1>7, <1>8, <1>9 DEF t

(* The lines up to the n-th.                                               *)
LEMMA Beginning ==
  ASSUME NEW S, NEW s \in Seq(S), NEW n \in 0..Len(s)
  PROVE  /\ SubSeq(s, 1, n) \in Seq(S) /\ Len(SubSeq(s, 1, n)) = n
         /\ \A i \in 1..n : SubSeq(s, 1, n)[i] = s[i]
<1>1. n \in Nat /\ \A i \in 1..n : i \in 1..Len(s)
  BY LenProperties
<1>2. \A i \in 1..n : s[i] \in S
  BY <1>1, ElementOfSeq
<1>3. /\ SubSeq(s, 1, n) \in Seq(S)
      /\ Len(SubSeq(s, 1, n)) = IF 1 <= n THEN n - 1 + 1 ELSE 0
      /\ \A i \in 1..(n - 1 + 1) : SubSeq(s, 1, n)[i] = s[1 + i - 1]
  BY <1>1, <1>2, SubSeqProperties
<1>4. QED  BY <1>1, <1>3

LEMMA ContentNext ==
  ASSUME NEW s \in Seq(OutputLine), NEW n \in Nat, n < Len(s)
  PROVE  /\ AllContent(SubSeq(s, 1, n)) \in Seq(Item)
         /\ s[n + 1] \in OutputLine
         /\ AllContent(SubSeq(s, 1, n + 1)) = AllContent(SubSeq(s, 1, n)) \o Content(s[n + 1])
<1>1. /\ n + 1 \in 1..Len(s) /\ (n + 1) - 1 = n /\ n \in 0..Len(s) /\ 1 \in 1..Len(s)
      /\ n + 1 \in 1..Len(s)
  BY LenProperties
<1>2. SubSeq(s, 1, n) \in Seq(OutputLine) /\ s[n + 1] \in OutputLine
  BY <1>1, Beginning, ElementOfSeq
<1>3. SubSeq(s, 1, n + 1) = SubSeq(s, 1, n) \o <<s[n + 1]>>
  BY <1>1, SubSeqRecursiveSecond
<1>4. SubSeq(s, 1, n + 1) = Append(SubSeq(s, 1, n), s[n + 1])
  BY <1>2, <1>3, AppendIsConcat
<1>5. QED  BY <1>2, <1>4, ContentAppend

LEMMA ContentPrefix ==
  ASSUME NEW s \in Seq(OutputLine), NEW n \in 0..Len(s)
  PROVE  IsPrefix(AllContent(SubSeq(s, 1, n)), AllContent(s))
<1> DEFINE t == SubSeq(s, 1, n)
           c == SubSeq(Contents(s), 1, n)
<1>1. t \in Seq(OutputLine) /\ Len(t) = n /\ \A i \in 1..n : t[i] = s[i]
  BY Beginning
<1>2. /\ Contents(s) \in Seq(Seq(Item)) /\ Len(Contents(s)) = Len(s) /\ Len(s) \in Nat
      /\ AllContent(s) = FlattenSeq(Contents(s))
      /\ \A i \in 1..Len(s) : Contents(s)[i] = Content(s[i])
  BY ContentsSeq
<1>3. c \in Seq(Seq(Item)) /\ Len(c) = n /\ \A i \in 1..n : c[i] = Contents(s)[i]
  BY <1>2, Beginning
<1> HIDE DEF t, c
<1>4. /\ Contents(t) \in Seq(Seq(Item)) /\ Len(Contents(t)) = n
      /\ AllContent(t) = FlattenSeq(Contents(t))
      /\ \A i \in 1..n : Contents(t)[i] = Content(t[i])
  BY <1>1, ContentsSeq
<1>5. \A i \in 1..n : Contents(t)[i] = c[i]
  <2> TAKE i \in 1..n
  <2>1. Contents(t)[i] = Content(t[i]) /\ t[i] = s[i] /\ c[i] = Contents(s)[i]
    BY <1>1, <1>3, <1>4
  <2>2. i \in 1..Len(s)
    BY <1>2
  <2>3. QED  BY <1>2, <2>1, <2>2
<1>6. Contents(t) = c
  BY <1>3, <1>4, <1>5, SeqEqual
<1>7. IsPrefix(FlattenSeq(c), FlattenSeq(Contents(s)))
  BY <1>2, FlattenPrefix DEF c
<1>8. QED  BY <1>2, <1>4, <1>6, <1>7 DEF t

(* One more literal on the last line.                                      *)
LEMMA WithWords ==
  ASSUME NEW r \in OutputLine, NEW x
  PROVE  [r EXCEPT !.words = x] = [stamp |-> r.stamp, blank |-> r.blank, words |-> x]
BY DEF OutputLine

Longer(s, word) == [s EXCEPT ![Len(s)].words = Append(@, word)]

LEMMA UpToLast ==
  ASSUME NEW n \in Nat, n > 0
  PROVE  /\ n \in 1..n /\ \A i \in 1..(n - 1) : i \in 1..n /\ i # n
         /\ \A i \in 1..n : i = n \/ i \in 1..(n - 1)
OBVIOUS

LEMMA ContentLonger ==
  ASSUME NEW s \in Seq(OutputLine), s # <<>>, IsValue(Last(s)), NEW word \in Word
  PROVE  /\ Longer(s, word) \in Seq(OutputLine) /\ Len(Longer(s, word)) = Len(s)
         /\ Len(s) \in Nat \ {0}
         /\ \A i \in 1..(Len(s) - 1) : Longer(s, word)[i] = s[i]
         /\ Last(Longer(s, word)) = [stamp |-> Last(s).stamp, blank |-> Last(s).blank,
                                  words |-> Append(Last(s).words, word)]
         /\ IsValue(Last(Longer(s, word))) /\ Last(s) \in OutputLine
         /\ AllContent(Longer(s, word)) = AllContent(s) \o <<<<Last(s).stamp, word>>>>
<1> DEFINE n == Len(s)
           l == Last(s)
           m == [stamp |-> l.stamp, blank |-> l.blank, words |-> Append(l.words, word)]
           t == Longer(s, word)
           f == SubSeq(s, 1, n - 1)
<1>1. n \in Nat /\ n > 0 /\ DOMAIN s = 1..n
  <2>1. n \in Nat /\ n # 0
    BY EmptySeq
  <2>2. QED  BY <2>1, LenProperties
<1>2. l \in OutputLine /\ l = s[n]
  BY <1>1, ElementOfSeq DEF Last
<1>3. l.words \in Seq(Word) /\ l.words # <<>> /\ l.stamp \in Stamps /\ l.blank \in BOOLEAN
  BY <1>2 DEF OutputLine, IsValue
<1>4. /\ Append(l.words, word) \in Seq(Word) /\ Append(l.words, word) # <<>>
      /\ Len(Append(l.words, word)) = Len(l.words) + 1 /\ Len(l.words) \in Nat \ {0}
      /\ Head(Append(l.words, word)) = Head(l.words)
      /\ \A i \in 1..Len(l.words) : Append(l.words, word)[i] = l.words[i]
      /\ Append(l.words, word)[Len(l.words) + 1] = word
  <2>1. Head(Append(l.words, word)) = Head(l.words)
    BY <1>3, HeadTailAppend
  <2>2. Len(l.words) \in Nat \ {0}
    BY <1>3, EmptySeq
  <2>3. QED  BY <1>3, <2>1, <2>2, AppendProperties
<1>5. m \in OutputLine /\ IsValue(m)
  BY <1>3, <1>4 DEF OutputLine, IsValue
<1>6. t = [s EXCEPT ![n] = m]
  <2>1. [l EXCEPT !.words = Append(l.words, word)] = m
    BY <1>2, WithWords
  <2>2. t = [s EXCEPT ![n] = [s[n] EXCEPT !.words = Append(s[n].words, word)]]
    BY DEF Longer
  <2> HIDE DEF t, m, l
  <2>3. QED  BY <1>2, <2>1, <2>2
<1>7. /\ t \in Seq(OutputLine) /\ Len(t) = n /\ t[n] = m
      /\ \A i \in 1..(n - 1) : t[i] = s[i]
  <2> HIDE DEF t, m
  <2>1. n \in 1..n /\ \A i \in 1..(n - 1) : i \in 1..n /\ i # n
    BY <1>1, UpToLast
  <2>2. /\ t \in Seq(OutputLine) /\ Len(t) = n
        /\ \A i \in 1..n : t[i] = IF i = n THEN m ELSE s[i]
    BY <1>5, <1>6, <2>1, ExceptSeq
  <2>3. QED  BY <2>1, <2>2
<1>8. f \in Seq(OutputLine) /\ Len(f) = n - 1 /\ \A i \in 1..(n - 1) : f[i] = s[i]
  BY <1>1, Beginning
<1> HIDE DEF m, t, l, f
<1>9. s = Append(f, l) /\ t = Append(f, m)
  <2>0. Len(f) + 1 = n /\ \A i \in 1..(n - 1) : i \in 1..Len(f)
    BY <1>1, <1>8
  <2>1. /\ Append(f, l) \in Seq(OutputLine) /\ Len(Append(f, l)) = n
        /\ Append(f, l)[n] = l /\ \A i \in 1..(n - 1) : Append(f, l)[i] = s[i]
    <3>1. /\ Append(f, l) \in Seq(OutputLine) /\ Len(Append(f, l)) = Len(f) + 1
          /\ Append(f, l)[Len(f) + 1] = l /\ \A i \in 1..Len(f) : Append(f, l)[i] = f[i]
      BY <1>2, <1>8, AppendProperties
    <3>2. QED  BY <1>8, <2>0, <3>1
  <2>2. /\ Append(f, m) \in Seq(OutputLine) /\ Len(Append(f, m)) = n
        /\ Append(f, m)[n] = m /\ \A i \in 1..(n - 1) : Append(f, m)[i] = s[i]
    <3>1. /\ Append(f, m) \in Seq(OutputLine) /\ Len(Append(f, m)) = Len(f) + 1
          /\ Append(f, m)[Len(f) + 1] = m /\ \A i \in 1..Len(f) : Append(f, m)[i] = f[i]
      BY <1>5, <1>8, AppendProperties
    <3>2. QED  BY <1>8, <2>0, <3>1
  <2>3. \A i \in 1..n : i = n \/ i \in 1..(n - 1)
    BY <1>1, UpToLast
  <2>4. \A i \in 1..n : s[i] = Append(f, l)[i] /\ t[i] = Append(f, m)[i]
    BY <1>2, <1>7, <2>1, <2>2, <2>3
  <2>5. s = Append(f, l)
    BY <2>1, <2>4, SeqEqual
  <2>6. t = Append(f, m)
    BY <1>7, <2>2, <2>4, SeqEqual
  <2>7. QED  BY <2>5, <2>6
<1>10. Content(m) = Content(l) \o <<<<l.stamp, word>>>>
  <2> DEFINE k == Len(l.words) - 1
             x == <<l.stamp, word>>
  <2>1. IsValue(l) /\ IsValue(m) /\ k \in Nat
    BY <1>4, <1>5 DEF l
  <2>2. /\ Content(l) = [i \in 1..k |-> <<l.stamp, l.words[i + 1]>>]
        /\ Content(m) = [i \in 1..(k + 1) |-> <<l.stamp, m.words[i + 1]>>]
    <3>1. Len(m.words) - 1 = k + 1 /\ m.stamp = l.stamp
      BY <1>4 DEF m
    <3>2. QED  BY <2>1, <3>1 DEF Content
  <2>3. /\ Content(l) \in Seq(Item) /\ Content(m) \in Seq(Item)
        /\ Len(Content(l)) = k /\ Len(Content(m)) = k + 1
    <3>1. Content(l) \in Seq(Item) /\ Content(m) \in Seq(Item)
      BY <1>2, <1>5, ContentIs
    <3>2. DOMAIN Content(l) = 1..k /\ DOMAIN Content(m) = 1..(k + 1)
      BY <2>2
    <3>3. QED  BY <2>1, <3>1, <3>2, LenProperties
  <2>4. x \in Item
    BY <1>3 DEF Item
  <2>5. \A i \in 1..k : Content(m)[i] = Content(l)[i]
    <3> TAKE i \in 1..k
    <3>1. i + 1 \in 1..Len(l.words) /\ i \in 1..(k + 1)
      BY <1>4, <2>1
    <3>2. m.words[i + 1] = l.words[i + 1]
      BY <1>4, <3>1 DEF m
    <3>3. QED  BY <2>2, <3>1, <3>2
  <2>6. Content(m)[k + 1] = x
    <3>1. k + 1 \in 1..(k + 1) /\ (k + 1) + 1 = Len(l.words) + 1
      BY <1>4, <2>1
    <3>2. m.words[(k + 1) + 1] = word
      BY <1>4, <3>1 DEF m
    <3>3. QED  BY <2>2, <3>1, <3>2
  <2> HIDE DEF x, k
  <2>7. /\ Append(Content(l), x) \in Seq(Item) /\ Len(Append(Content(l), x)) = k + 1
        /\ Append(Content(l), x)[k + 1] = x
        /\ \A i \in 1..k : Append(Content(l), x)[i] = Content(l)[i]
    BY <2>3, <2>4, AppendProperties
  <2>8. \A i \in 1..(k + 1) : Content(m)[i] = Append(Content(l), x)[i]
    BY <2>1, <2>5, <2>6, <2>7
  <2>9. Content(m) = Append(Content(l), x)
    BY <2>3, <2>7, <2>8, SeqEqual
  <2>10. QED  BY <2>3, <2>4, <2>9, AppendIsConcat DEF x
<1>11. /\ AllContent(f) \in Seq(Item) /\ Content(l) \in Seq(Item)
       /\ AllContent(s) = AllContent(f) \o Content(l)
       /\ AllContent(t) = AllContent(f) \o Content(m)
  BY <1>2, <1>5, <1>8, <1>9, ContentAppend
<1>12. <<<<l.stamp, word>>>> \in Seq(Item)
  BY <1>3 DEF Item
<1>13. AllContent(t) = AllContent(s) \o <<<<l.stamp, word>>>>
  <2> DEFINE x == <<<<l.stamp, word>>>>
  <2>1. x \in Seq(Item)
    BY <1>12
  <2> HIDE DEF x
  <2>2. (AllContent(f) \o Content(l)) \o x = AllContent(f) \o (Content(l) \o x)
    BY <1>11, <2>1, Regroup, SMTT(40)
  <2>3. Content(m) = Content(l) \o x
    BY <1>10 DEF x
  <2>4. AllContent(t) = AllContent(s) \o x
    BY <1>11, <2>2, <2>3
  <2>5. QED  BY <2>4 DEF x
<1>14. Last(t) = m
  BY <1>7 DEF Last
<1>15. QED  BY <1>1, <1>2, <1>5, <1>7, <1>13, <1>14 DEF m, t, l

-----------------------------------------------------------------------------
(* The inductive invariants. The lines as they should be printed:          *)
AllStamped == withTimestamp => \A i \in DOMAIN lines : Stamped(lines[i])
GivenLines == [i \in DOMAIN lines |-> Given(lines[i])]
WholeLines ==
  IF withTimestamp /\ ~ newline /\ Last(GivenLines).words = <<>>
  THEN Front(GivenLines) ELSE GivenLines
UntilLine(n) == AllContent(SubSeq(GivenLines, 1, n))

SplitterTypes ==
  /\ withTimestamp \in BOOLEAN /\ newline \in BOOLEAN
  /\ lines \in Seq(Line) /\ (~ newline => lines # <<>> /\ Last(lines).words # <<>>)
  /\ read \in 0..Len(lines) /\ len \in Nat
  /\ timestamp \in Stamps /\ literals \in Seq(Word) /\ printed \in Seq(OutputLine)
  /\ at \in {"read", "split", "end"}
  /\ at # "split" => len = 0
  /\ at = "split" => "v" \in Word /\ read > 0

(* Every finished piece fits, the last one has len characters, or is full. *)
Fits(l) == IsValue(l) =>
  Len(l.words) > 1 /\ Characters(SubSeq(l.words, 2, Len(l.words) - 1)) <= Limit

PieceInv ==
  /\ \A i \in 1..Len(printed) : Fits(printed[i])
  /\ at = "split" /\ len # 0 =>
       /\ printed # <<>> /\ IsValue(Last(printed)) /\ Last(printed).stamp = timestamp
       /\ len = Characters(Tail(Last(printed).words)) /\ len <= Limit
  /\ at = "split" /\ len = 0 /\ Begun =>
       printed # <<>> /\ Characters(Tail(Last(printed).words)) > Limit

(* What was printed and what is left of the line are what was read.        *)
Left == [i \in 1..Len(literals) |-> <<timestamp, literals[i]>>]

WordsInv ==
  AllStamped =>
    /\ read <= Len(WholeLines)
    /\ at # "split" => AllContent(printed) = UntilLine(read)
    /\ at = "split" => AllContent(printed) \o Left = UntilLine(read)
    /\ at = "end" => read = Len(WholeLines)

-----------------------------------------------------------------------------
(* The characters of a piece.                                              *)
LEMMA CharactersOf ==
  ASSUME NEW ws \in Seq(Word), NEW x \in Word
  PROVE  /\ Characters(<<>>) = 0
         /\ Characters(ws) \in Int /\ Length[x] \in Nat \ {0}
         /\ Characters(Append(ws, x)) = Characters(ws) + Length[x]
<1> DEFINE n == Len(ws)
           t == Append(ws, x)
           f == [i \in DOMAIN ws |-> Length[ws[i]]]
           g == [i \in DOMAIN t |-> Length[t[i]]]
<1>1. n \in Nat /\ DOMAIN ws = 1..n /\ \A i \in 1..n : ws[i] \in Word
  BY LenProperties, ElementOfSeq
<1>2. /\ t \in Seq(Word) /\ DOMAIN t = 1..(n + 1) /\ t[n + 1] = x
      /\ \A i \in 1..n : t[i] = ws[i]
  <2>1. t \in Seq(Word) /\ Len(t) = n + 1 /\ t[n + 1] = x /\ \A i \in 1..n : t[i] = ws[i]
    BY AppendProperties
  <2>2. QED  BY <2>1, LenProperties
<1>3. \A word \in Word : Length[word] \in Nat \ {0}
  BY SplitterAssumption
<1> HIDE DEF t
<1>4. \A i \in 1..n : f[i] \in Int
  BY <1>1, <1>3
<1>5. g[n + 1] = Length[x] /\ \A i \in 1..n : g[i] = f[i]
  <2>1. n + 1 \in 1..(n + 1) /\ \A i \in 1..n : i \in 1..(n + 1)
    BY <1>1
  <2>2. QED  BY <1>1, <1>2, <2>1
<1> HIDE DEF f, g
<1>6. IsFiniteSet(1..n) /\ 1..(n + 1) = (1..n) \cup {n + 1} /\ n + 1 \notin 1..n
  <2>1. IsFiniteSet(1..n)
    BY <1>1, FS_Interval
  <2>2. 1..(n + 1) = (1..n) \cup {n + 1} /\ n + 1 \notin 1..n
    BY <1>1
  <2>3. QED  BY <2>1, <2>2
<1>7. SumFunctionOnSet(g, 1..n) = SumFunctionOnSet(f, 1..n)
  BY <1>4, <1>5, <1>6, SumSame
<1>8. SumFunctionOnSet(f, 1..n) \in Int
  BY <1>4, <1>6, SumIsInt
<1>9. SumFunctionOnSet(g, 1..(n + 1)) = Length[x] + SumFunctionOnSet(f, 1..n)
  <2>1. (\A i \in 1..n : g[i] \in Int) /\ g[n + 1] \in Int
    BY <1>3, <1>4, <1>5
  <2>2. SumFunctionOnSet(g, (1..n) \cup {n + 1}) = g[n + 1] + SumFunctionOnSet(g, 1..n)
    BY <1>6, <2>1, SumAdd
  <2>3. QED  BY <1>5, <1>6, <1>7, <2>2
<1>10. Characters(ws) = SumFunctionOnSet(f, 1..n) /\ Characters(t) = SumFunctionOnSet(g, 1..(n + 1))
  <2>1. DOMAIN f = 1..n /\ DOMAIN g = 1..(n + 1)
    BY <1>1, <1>2 DEF f, g
  <2>2. Characters(ws) = SumFunction(f) /\ Characters(t) = SumFunction(g)
    BY DEF Characters, f, g
  <2>3. QED  BY <2>1, <2>2 DEF SumFunction
<1>11. Characters(<<>>) = 0
  <2>1. DOMAIN <<>> = {}
    OBVIOUS
  <2> DEFINE e == [i \in DOMAIN <<>> |-> Length[<<>>[i]]]
  <2>2. DOMAIN e = {}
    BY <2>1
  <2>3. Characters(<<>>) = SumFunction(e)
    BY DEF Characters
  <2> HIDE DEF e
  <2>4. QED  BY <2>2, <2>3, SumEmpty DEF SumFunction
<1>12. QED  BY <1>3, <1>8, <1>9, <1>10, <1>11 DEF t

-----------------------------------------------------------------------------
(* What is read next.                                                      *)
LEMMA FirstIs ==
  ASSUME SplitterTypes, Wanted # {}
  PROVE  /\ FirstWanted \in Wanted /\ \A i \in Wanted : FirstWanted <= i
         /\ Wanted \in SUBSET Nat /\ Len(lines) \in Nat /\ read \in Nat
<1>1. Len(lines) \in Nat /\ read \in Nat
  BY LenProperties DEF SplitterTypes
<1>2. Wanted \in SUBSET Nat
  BY <1>1 DEF Wanted
<1>3. \E m \in Wanted : \A i \in Wanted : m <= i
  BY <1>2, LeastNatural
<1>4. QED  BY <1>1, <1>2, <1>3 DEF FirstWanted, Min

LEMMA BodyIs ==
  ASSUME SplitterTypes, Wanted # {}, BodyLine <= Len(lines)
  PROVE  /\ FirstWanted \in (read + 1)..Len(lines) /\ BodyLine \in (read + 1)..Len(lines)
         /\ lines[FirstWanted] \in Line /\ Body \in Line
         /\ withTimestamp => lines[FirstWanted].words # <<>>
         /\ Len(Body.words) - 1 >= Len(lines[BodyLine].words) - (IF withTimestamp THEN 2 ELSE 1)
<1>1. /\ FirstWanted \in (read + 1)..Len(lines) /\ Len(lines) \in Nat /\ read \in Nat
      /\ withTimestamp => lines[FirstWanted].words # <<>>
  BY FirstIs DEF Wanted
<1>2. BodyLine \in (read + 1)..Len(lines) /\ lines \in Seq(Line)
  BY <1>1 DEF BodyLine, SplitterTypes
<1>3. lines[FirstWanted] \in Line /\ lines[BodyLine] \in Line
  <2>1. FirstWanted \in 1..Len(lines) /\ BodyLine \in 1..Len(lines)
    BY <1>1, <1>2
  <2>2. QED  BY <1>2, <2>1, ElementOfSeq
<1>4. CASE withTimestamp /\ BodyLine = FirstWanted
  <2> DEFINE ws == lines[FirstWanted].words
  <2>1. ws \in Seq(Word) /\ ws # <<>> /\ lines[FirstWanted].blank \in BOOLEAN
    BY <1>1, <1>3, <1>4 DEF Line
  <2>2. Tail(ws) \in Seq(Word) /\ Len(Tail(ws)) = Len(ws) - 1 /\ Len(ws) \in Nat
    BY <2>1, HeadTailProperties, LenProperties
  <2>3. Body.words = Tail(ws) /\ Body \in Line
    BY <1>4, <2>1, <2>2 DEF Body, WithoutStamp, Line
  <2>4. Len(Body.words) - 1 >= Len(lines[BodyLine].words) - 2
    BY <1>4, <2>2, <2>3
  <2>5. QED  BY <1>1, <1>2, <1>3, <1>4, <2>3, <2>4
<1>5. CASE ~ (withTimestamp /\ BodyLine = FirstWanted)
  <2>1. Body = lines[BodyLine]
    BY <1>5 DEF Body
  <2>2. Len(Body.words) \in Nat
    BY <1>3, <2>1, LenProperties DEF Line
  <2>3. Len(Body.words) - 1 >= Len(lines[BodyLine].words) - (IF withTimestamp THEN 2 ELSE 1)
    BY <2>1, <2>2
  <2>4. QED  BY <1>1, <1>2, <1>3, <2>1, <2>3
<1>6. QED  BY <1>4, <1>5

(* A line that is read: a value is cut into literals, another is copied.   *)
LEMMA Reading ==
  ASSUME SplitterTypes, ReadLine
  PROVE  /\ Wanted # {} /\ BodyLine <= Len(lines) /\ timestamp' \in Stamps
         /\ Body.words \in Seq(Word) /\ Body.blank \in BOOLEAN
         /\ IsValue(Body) => Body.words # <<>> /\ "v" \in Word
<1>1. Wanted # {} /\ BodyLine <= Len(lines)
  BY DEF ReadLine, NoMore
<1>2. /\ lines[FirstWanted] \in Line /\ Body \in Line
      /\ withTimestamp => lines[FirstWanted].words # <<>>
  BY <1>1, BodyIs
<1>3. timestamp' \in Stamps
  <2>1. CASE withTimestamp
    <3>1. Head(lines[FirstWanted].words) \in Word
      BY <1>2, <2>1, HeadTailProperties DEF Line
    <3>2. QED  BY <2>1, <3>1 DEF ReadLine, Stamps
  <2>2. CASE ~ withTimestamp
    BY <2>2 DEF ReadLine, Stamps
  <2>3. QED  BY <2>1, <2>2
<1>4. Body.words \in Seq(Word) /\ Body.blank \in BOOLEAN
  BY <1>2 DEF Line
<1>5. IsValue(Body) => Body.words # <<>> /\ "v" \in Word
  BY <1>4, HeadTailProperties DEF IsValue
<1>6. QED  BY <1>1, <1>3, <1>4, <1>5

LEMMA SplitterTypesInit == SplitterInit => SplitterTypes
<1> SUFFICES ASSUME SplitterInit PROVE SplitterTypes
  OBVIOUS
<1>1. lines \in Seq(Line)
  BY SplitterAssumption DEF SplitterInit
<1>2. Len(lines) \in Nat
  BY <1>1, LenProperties
<1>3. <<>> \in Seq(Word) /\ <<>> \in Seq(OutputLine)
  BY EmptySeq
<1>4. read \in 0..Len(lines) /\ len \in Nat /\ at = "read" /\ len = 0
  <2>1. read = 0 /\ len = 0 /\ at = "read"
    BY DEF SplitterInit
  <2>2. 0 \in 0..Len(lines)
    BY <1>2
  <2>3. QED  BY <2>1, <2>2
<1>5. timestamp \in Stamps /\ literals \in Seq(Word) /\ printed \in Seq(OutputLine)
  BY <1>3 DEF SplitterInit, Stamps
<1>6. /\ withTimestamp \in BOOLEAN /\ newline \in BOOLEAN
      /\ ~ newline => lines # <<>> /\ Last(lines).words # <<>>
  BY DEF SplitterInit
<1>7. QED  BY <1>1, <1>4, <1>5, <1>6 DEF SplitterTypes

(* A literal begins a piece or is added to one that has room.              *)
LEMMA LiteralWritten ==
  ASSUME SplitterTypes, PieceInv, WriteLiteral
  PROVE  /\ Head(literals) \in Word /\ Tail(literals) \in Seq(Word)
         /\ len # 0 => printed # <<>> /\ IsValue(Last(printed))
         /\ printed' \in Seq(OutputLine) /\ printed' # <<>>
         /\ len = 0 => /\ [stamp |-> timestamp, words |-> <<"v", Head(literals)>>,
                           blank |-> FALSE] \in OutputLine
                       /\ printed' = Append(printed, [stamp |-> timestamp, blank |-> FALSE,
                                                      words |-> <<"v", Head(literals)>>])
         /\ len # 0 => printed' = Longer(printed, Head(literals))
         /\ len + Length[Head(literals)] \in Nat \ {0}
<1>1. Head(literals) \in Word /\ Tail(literals) \in Seq(Word)
  BY HeadTailProperties DEF SplitterTypes, WriteLiteral
<1>2. Length[Head(literals)] \in Nat \ {0} /\ len \in Nat
  BY <1>1, SplitterAssumption DEF SplitterTypes
<1>3. len + Length[Head(literals)] \in Nat \ {0}
  BY <1>2
<1>4. printed \in Seq(OutputLine)
  BY DEF SplitterTypes
<1>5. CASE len = 0
  <2> DEFINE l == [stamp |-> timestamp, words |-> <<"v", Head(literals)>>, blank |-> FALSE]
  <2>1. <<"v", Head(literals)>> \in Seq(Word)
    BY <1>1 DEF SplitterTypes, WriteLiteral
  <2>2. l \in OutputLine
    BY <2>1 DEF OutputLine, SplitterTypes
  <2>3. printed' = Append(printed, l)
    BY <1>5 DEF WriteLiteral, PieceStamp
  <2>4. printed' \in Seq(OutputLine) /\ printed' # <<>>
    BY <1>4, <2>2, <2>3, AppendProperties
  <2>5. QED  BY <1>1, <1>3, <1>5, <2>2, <2>3, <2>4
<1>6. CASE len # 0
  <2>1. printed # <<>> /\ IsValue(Last(printed))
    BY <1>6 DEF PieceInv, WriteLiteral
  <2>2. printed' = Longer(printed, Head(literals))
    BY <1>6 DEF WriteLiteral, Longer
  <2>3. printed' \in Seq(OutputLine) /\ Len(printed') = Len(printed) /\ Len(printed) # 0
    BY <1>1, <1>4, <2>1, <2>2, ContentLonger
  <2>4. printed' # <<>>
    BY <2>3
  <2>5. QED  BY <1>1, <1>3, <1>6, <2>1, <2>2, <2>3, <2>4
<1>7. QED  BY <1>5, <1>6

LEMMA SplitterTypesStep ==
  ASSUME SplitterTypes, PieceInv, [SplitterNext]_splitterVars
  PROVE  SplitterTypes'
<1>0. Len(lines) \in Nat
  BY LenProperties DEF SplitterTypes
<1>1. CASE ReadLine
  <2>1. /\ BodyLine \in (read + 1)..Len(lines) /\ timestamp' \in Stamps
        /\ Body.words \in Seq(Word) /\ Body.blank \in BOOLEAN
        /\ IsValue(Body) => Body.words # <<>> /\ "v" \in Word
    BY <1>1, Reading, BodyIs
  <2>2. read' \in 0..Len(lines) /\ read' > 0
    <3>1. read' = BodyLine
      BY <1>1 DEF ReadLine
    <3>2. read \in 0..Len(lines)
      BY DEF SplitterTypes
    <3>3. read \in Nat
      BY <1>0, <3>2
    <3>4. QED  BY <1>0, <2>1, <3>1, <3>3
  <2>3. CASE IsValue(Body)
    <3>1. Tail(Body.words) \in Seq(Word)
      BY <2>1, <2>3, HeadTailProperties
    <3>2. QED  BY <1>1, <2>1, <2>2, <2>3, <3>1 DEF ReadLine, SplitterTypes
  <2>4. CASE ~ IsValue(Body)
    <3> DEFINE l == [stamp |-> timestamp', words |-> Body.words, blank |-> Body.blank]
    <3>1. l \in OutputLine
      BY <2>1 DEF OutputLine
    <3>2. printed' = Append(printed, l)
      BY <1>1, <2>4 DEF ReadLine
    <3>3. printed' \in Seq(OutputLine)
      BY <3>1, <3>2, AppendProperties DEF SplitterTypes
    <3>4. QED  BY <1>1, <2>1, <2>2, <2>4, <3>3 DEF ReadLine, SplitterTypes
  <2>5. QED  BY <2>3, <2>4
<1>2. CASE WriteLiteral
  <2>1. /\ Tail(literals) \in Seq(Word) /\ printed' \in Seq(OutputLine)
        /\ len + Length[Head(literals)] \in Nat
    BY <1>2, LiteralWritten
  <2>2. len' \in Nat
    BY <1>2, <2>1 DEF WriteLiteral
  <2>3. QED  BY <1>2, <2>1, <2>2 DEF WriteLiteral, SplitterTypes
<1>3. CASE EndLine
  BY <1>3 DEF EndLine, SplitterTypes
<1>4. CASE EndOfInput
  BY <1>4 DEF EndOfInput, SplitterTypes
<1>5. CASE UNCHANGED splitterVars
  BY <1>5 DEF splitterVars, SplitterTypes
<1>6. QED  BY <1>1, <1>2, <1>3, <1>4, <1>5 DEF SplitterNext, SplitterEnded

-----------------------------------------------------------------------------
(* The pieces: a new one has one literal, a longer one had room.           *)
LEMMA NewPieceFits ==
  ASSUME NEW s, NEW x \in Word, "v" \in Word
  PROVE  /\ IsValue([stamp |-> s, words |-> <<"v", x>>, blank |-> FALSE])
         /\ Tail(<<"v", x>>) = <<x>> /\ Characters(<<x>>) = Length[x]
         /\ Fits([stamp |-> s, words |-> <<"v", x>>, blank |-> FALSE])
<1> DEFINE l == [stamp |-> s, words |-> <<"v", x>>, blank |-> FALSE]
<1>1. /\ <<"v", x>> # <<>> /\ Len(<<"v", x>>) = 2 /\ Head(<<"v", x>>) = "v"
      /\ Tail(<<"v", x>>) = <<x>> /\ Append(<<>>, x) = <<x>>
  OBVIOUS
<1>2. Characters(<<x>>) = Length[x] /\ Characters(<<>>) = 0
  <2>1. <<>> \in Seq(Word)
    BY EmptySeq
  <2>2. /\ Characters(Append(<<>>, x)) = Characters(<<>>) + Length[x]
        /\ Characters(<<>>) = 0 /\ Length[x] \in Nat
    BY <2>1, CharactersOf
  <2>3. QED  BY <1>1, <2>2
<1>3. SubSeq(<<"v", x>>, 2, Len(<<"v", x>>) - 1) = <<>>
  BY <1>1, SubSeqEmpty
<1>4. Limit \in Nat
  BY SplitterAssumption
<1>5. l.words = <<"v", x>>
  OBVIOUS
<1>6. IsValue(l)
  BY <1>1 DEF IsValue
<1> HIDE DEF l
<1>7. Fits(l)
  <2>1. Len(l.words) > 1
    BY <1>1, <1>5
  <2>2. SubSeq(l.words, 2, Len(l.words) - 1) = <<>>
    BY <1>3, <1>5
  <2>3. Characters(SubSeq(l.words, 2, Len(l.words) - 1)) = 0
    BY <1>2, <2>2
  <2>4. QED  BY <1>4, <2>1, <2>3 DEF Fits
<1>8. QED  BY <1>1, <1>2, <1>6, <1>7 DEF l

LEMMA OneLess ==
  ASSUME NEW n \in Nat, n > 0
  PROVE  (IF 2 <= n THEN n - 2 + 1 ELSE 0) = n - 1 /\ n - 2 + 1 = n - 1
<1>1. CASE n = 1
  BY <1>1
<1>2. CASE n # 1
  <2>1. n >= 2
    BY <1>2
  <2>2. QED  BY <2>1
<1>3. QED  BY <1>1, <1>2

LEMMA LongerPieceFits ==
  ASSUME NEW ws \in Seq(Word), ws # <<>>, NEW x \in Word
  PROVE  /\ Len(Append(ws, x)) > 1
         /\ SubSeq(Append(ws, x), 2, Len(Append(ws, x)) - 1) = Tail(ws)
         /\ Tail(ws) \in Seq(Word)
         /\ Tail(Append(ws, x)) = Append(Tail(ws), x)
         /\ Characters(Tail(Append(ws, x))) = Characters(Tail(ws)) + Length[x]
<1> DEFINE n == Len(ws)
           t == Append(ws, x)
<1>1. n \in Nat /\ n > 0
  <2>1. n \in Nat /\ n # 0
    BY EmptySeq
  <2>2. QED  BY <2>1
<1>2. /\ t \in Seq(Word) /\ Len(t) = n + 1
      /\ \A i \in 1..n : t[i] = ws[i] /\ ws[i] \in Word
  BY AppendProperties, ElementOfSeq
<1>3. /\ Tail(ws) \in Seq(Word) /\ Len(Tail(ws)) = n - 1
      /\ \A i \in 1..Len(Tail(ws)) : Tail(ws)[i] = ws[i + 1]
  BY HeadTailProperties
<1>4. Tail(t) = Append(Tail(ws), x)
  BY HeadTailAppend
<1> HIDE DEF t
<1>5. /\ SubSeq(t, 2, n) \in Seq(Word) /\ Len(SubSeq(t, 2, n)) = n - 1
      /\ \A i \in 1..(n - 1) : SubSeq(t, 2, n)[i] = t[i + 1]
  <2>1. \A i \in 2..n : t[i] \in Word
    BY <1>1, <1>2
  <2>2. /\ SubSeq(t, 2, n) \in Seq(Word)
        /\ Len(SubSeq(t, 2, n)) = IF 2 <= n THEN n - 2 + 1 ELSE 0
        /\ \A i \in 1..(n - 2 + 1) : SubSeq(t, 2, n)[i] = t[2 + i - 1]
    BY <1>1, <2>1, SubSeqProperties
  <2>3. Len(SubSeq(t, 2, n)) = n - 1 /\ n - 2 + 1 = n - 1
    BY <1>1, <2>2, OneLess
  <2>4. \A i \in 1..(n - 1) : 2 + i - 1 = i + 1
    BY <1>1
  <2>5. QED  BY <2>2, <2>3, <2>4
<1>6. \A i \in 1..(n - 1) : SubSeq(t, 2, n)[i] = Tail(ws)[i]
  <2> TAKE i \in 1..(n - 1)
  <2>1. i + 1 \in 1..n /\ i \in 1..Len(Tail(ws))
    BY <1>1, <1>3
  <2>2. QED  BY <1>2, <1>3, <1>5, <2>1
<1>7. SubSeq(t, 2, n) = Tail(ws)
  BY <1>3, <1>5, <1>6, SeqEqual
<1>8. Len(t) > 1 /\ Len(t) - 1 = n
  BY <1>1, <1>2
<1>9. Characters(Append(Tail(ws), x)) = Characters(Tail(ws)) + Length[x]
  BY <1>3, CharactersOf
<1>10. QED  BY <1>3, <1>4, <1>7, <1>8, <1>9 DEF t

LEMMA PieceInit == SplitterInit => PieceInv
<1> SUFFICES ASSUME SplitterInit PROVE PieceInv
  OBVIOUS
<1>1. printed = <<>> /\ at = "read"
  BY DEF SplitterInit
<1>2. Len(printed) = 0
  BY <1>1
<1>3. QED  BY <1>1, <1>2 DEF PieceInv

LEMMA PieceStep ==
  ASSUME SplitterTypes, PieceInv, [SplitterNext]_splitterVars
  PROVE  PieceInv'
<1>0. /\ printed \in Seq(OutputLine) /\ len \in Nat /\ Limit \in Nat /\ Len(printed) \in Nat
      /\ at # "split" => len = 0
  BY SplitterAssumption, LenProperties DEF SplitterTypes
<1>1. CASE ReadLine
  <2>1. /\ Body.words \in Seq(Word) /\ Body.blank \in BOOLEAN /\ timestamp' \in Stamps
        /\ IsValue(Body) => Body.words # <<>>
        /\ Len(Body.words) - 1 >= Len(lines[BodyLine].words) - (IF withTimestamp THEN 2 ELSE 1)
        /\ BodyLine \in (read + 1)..Len(lines) /\ Body \in Line
    BY <1>1, Reading, BodyIs
  <2>2. len' = 0
    BY <1>0, <1>1 DEF ReadLine
  <2>3. CASE IsValue(Body)
    <3>1. printed' = printed /\ literals' = Tail(Body.words)
      BY <1>1, <2>3 DEF ReadLine
    <3>2. Len(literals') = Len(Body.words) - 1
      BY <2>1, <2>3, <3>1, HeadTailProperties
    <3>3. ~ Begun'
      <4>1. /\ lines' = lines /\ withTimestamp' = withTimestamp /\ read' = BodyLine
        BY <1>1 DEF ReadLine
      <4>2. Len(lines[BodyLine].words) \in Nat /\ Len(Body.words) \in Nat
        <5>1. lines[BodyLine] \in Line
          <6>1. BodyLine \in 1..Len(lines) /\ lines \in Seq(Line)
            <7>1. lines \in Seq(Line) /\ read \in 0..Len(lines)
              BY DEF SplitterTypes
            <7>2. Len(lines) \in Nat
              BY <7>1, LenProperties
            <7>3. QED  BY <2>1, <7>1, <7>2
          <6>2. QED  BY <6>1, ElementOfSeq
        <5>2. lines[BodyLine].words \in Seq(Word)
          BY <5>1 DEF Line
        <5>3. QED  BY <2>1, <5>2, LenProperties
      <4>3. ~ (Len(literals') < Len(lines[BodyLine].words) - (IF withTimestamp THEN 2 ELSE 1))
        <5>1. CASE withTimestamp
          <6>1. Len(Body.words) - 1 >= Len(lines[BodyLine].words) - 2
            BY <2>1, <5>1
          <6>2. ~ (Len(literals') < Len(lines[BodyLine].words) - 2)
            BY <3>2, <4>2, <6>1
          <6>3. QED  BY <5>1, <6>2
        <5>2. CASE ~ withTimestamp
          <6>1. Len(Body.words) - 1 >= Len(lines[BodyLine].words) - 1
            BY <2>1, <5>2
          <6>2. ~ (Len(literals') < Len(lines[BodyLine].words) - 1)
            BY <3>2, <4>2, <6>1
          <6>3. QED  BY <5>2, <6>2
        <5>3. QED  BY <5>1, <5>2
      <4>4. QED  BY <4>1, <4>3 DEF Begun
    <3>4. QED  BY <2>2, <3>1, <3>3 DEF PieceInv
  <2>4. CASE ~ IsValue(Body)
    <3> DEFINE l == [stamp |-> timestamp', words |-> Body.words, blank |-> Body.blank]
    <3>1. printed' = Append(printed, l) /\ at' = "read"
      BY <1>1, <2>4 DEF ReadLine
    <3>2. l \in OutputLine
      BY <2>1 DEF OutputLine
    <3>3. ~ IsValue(l)
      BY <2>4 DEF IsValue
    <3> HIDE DEF l
    <3>4. /\ Len(printed') = Len(printed) + 1 /\ printed'[Len(printed) + 1] = l
          /\ \A i \in 1..Len(printed) : printed'[i] = printed[i]
      BY <1>0, <3>1, <3>2, AppendProperties
    <3>5. \A i \in 1..Len(printed') : Fits(printed'[i])
      <4> TAKE i \in 1..Len(printed')
      <4>1. i = Len(printed) + 1 \/ i \in 1..Len(printed)
        BY <1>0, <3>4
      <4>2. Fits(l)
        BY <3>3 DEF Fits
      <4>3. QED  BY <3>4, <4>1, <4>2 DEF PieceInv
    <3>6. QED  BY <3>1, <3>5 DEF PieceInv
  <2>5. QED  BY <2>3, <2>4
<1>2. CASE WriteLiteral
  <2> DEFINE x == Head(literals)
             n == len + Length[x]
  <2>1. /\ x \in Word /\ n \in Nat /\ n > 0
        /\ timestamp' = timestamp /\ at' = "split" /\ at = "split"
        /\ len' = IF n > Limit THEN 0 ELSE n
    <3>1. x \in Word /\ n \in Nat \ {0}
      BY <1>2, LiteralWritten
    <3>2. timestamp' = timestamp /\ at' = at /\ at = "split"
      BY <1>2 DEF WriteLiteral
    <3>3. len' = IF n > Limit THEN 0 ELSE n
      BY <1>2 DEF WriteLiteral, Full
    <3>4. QED  BY <3>1, <3>2, <3>3
  <2>2. /\ \A i \in 1..Len(printed') : Fits(printed'[i])
        /\ printed' # <<>> /\ IsValue(Last(printed')) /\ Last(printed').stamp = timestamp
        /\ n = Characters(Tail(Last(printed').words))
    <3>1. CASE len = 0
      <4> DEFINE l == [stamp |-> timestamp, words |-> <<"v", x>>, blank |-> FALSE]
      <4>1. printed' = Append(printed, l) /\ l \in OutputLine
        BY <1>2, <3>1, LiteralWritten
      <4>2. /\ IsValue(l) /\ Fits(l) /\ l.stamp = timestamp /\ l.words = <<"v", x>>
            /\ Tail(<<"v", x>>) = <<x>> /\ Characters(<<x>>) = Length[x]
        <5>1. "v" \in Word
          BY <2>1 DEF SplitterTypes
        <5>2. QED  BY <2>1, <5>1, NewPieceFits
      <4> HIDE DEF l
      <4>3. /\ Len(printed') = Len(printed) + 1 /\ printed'[Len(printed) + 1] = l
            /\ printed' # <<>> /\ \A i \in 1..Len(printed) : printed'[i] = printed[i]
        BY <1>0, <4>1, AppendProperties
      <4>4. \A i \in 1..Len(printed') : Fits(printed'[i])
        <5> TAKE i \in 1..Len(printed')
        <5>1. i = Len(printed) + 1 \/ i \in 1..Len(printed)
          BY <1>0, <4>3
        <5>2. QED  BY <4>2, <4>3, <5>1 DEF PieceInv
      <4>5. Last(printed') = l
        BY <4>3 DEF Last
      <4>6. n = Length[x]
        <5>1. Length[x] \in Nat
          BY <2>1, SplitterAssumption
        <5>2. QED  BY <3>1, <5>1
      <4>7. Characters(Tail(Last(printed').words)) = Length[x]
        BY <4>2, <4>5
      <4>8. QED  BY <4>2, <4>3, <4>4, <4>5, <4>6, <4>7
    <3>2. CASE len # 0
      <4> DEFINE l == Last(printed)
                 m == Last(printed')
      <4>1. /\ printed # <<>> /\ IsValue(l) /\ printed' = Longer(printed, x)
            /\ l.stamp = timestamp /\ len = Characters(Tail(l.words)) /\ len <= Limit
        BY <1>2, <2>1, <3>2, LiteralWritten DEF PieceInv
      <4>2. /\ Len(printed') = Len(printed) /\ Len(printed) > 0
            /\ \A i \in 1..(Len(printed) - 1) : printed'[i] = printed[i]
            /\ m = [stamp |-> l.stamp, blank |-> l.blank, words |-> Append(l.words, x)]
            /\ IsValue(m) /\ l \in OutputLine
        <5> HIDE DEF x
        <5>1. x \in Word /\ printed \in Seq(OutputLine) /\ IsValue(Last(printed))
          BY <1>0, <2>1, <4>1
        <5>2. /\ Len(Longer(printed, x)) = Len(printed) /\ Len(printed) \in Nat \ {0}
              /\ \A i \in 1..(Len(printed) - 1) : Longer(printed, x)[i] = printed[i]
              /\ Last(Longer(printed, x)) = [stamp |-> Last(printed).stamp,
                     blank |-> Last(printed).blank, words |-> Append(Last(printed).words, x)]
              /\ IsValue(Last(Longer(printed, x))) /\ Last(printed) \in OutputLine
          BY <4>1, <5>1, ContentLonger
        <5>3. Len(printed) > 0
          BY <5>2
        <5>4. QED  BY <4>1, <5>2, <5>3
      <4>3. l.words \in Seq(Word) /\ l.words # <<>>
        BY <4>1, <4>2 DEF OutputLine, IsValue
      <4>4. m.stamp = timestamp /\ m.words = Append(l.words, x)
        BY <4>1, <4>2
      <4> HIDE DEF l, m
      <4>5. /\ Len(m.words) > 1 /\ SubSeq(m.words, 2, Len(m.words) - 1) = Tail(l.words)
            /\ Characters(Tail(m.words)) = Characters(Tail(l.words)) + Length[x]
        BY <2>1, <4>3, <4>4, LongerPieceFits
      <4>6. Fits(m)
        BY <4>1, <4>5 DEF Fits
      <4>7. \A i \in 1..Len(printed') : Fits(printed'[i])
        <5> TAKE i \in 1..Len(printed')
        <5>1. i = Len(printed) \/ i \in 1..(Len(printed) - 1)
          BY <1>0, <4>2
        <5>2. printed'[Len(printed)] = m
          BY <4>2 DEF m, Last
        <5>3. \A j \in 1..(Len(printed) - 1) : j \in 1..Len(printed)
          BY <1>0
        <5>4. QED  BY <4>2, <4>6, <5>1, <5>2, <5>3 DEF PieceInv
      <4>8. printed' # <<>>
        BY <4>2
      <4>9. n = Characters(Tail(m.words))
        BY <4>1, <4>5
      <4>10. QED  BY <4>2, <4>4, <4>7, <4>8, <4>9 DEF m
    <3>3. QED  BY <3>1, <3>2
  <2> HIDE DEF n, x
  <2>3. len' # 0 => len' = n /\ n <= Limit
    BY <1>0, <2>1
  <2>4. len' = 0 => n > Limit
    BY <1>0, <2>1
  <2>5. QED  BY <2>1, <2>2, <2>3, <2>4 DEF PieceInv
<1>3. CASE EndLine
  BY <1>3 DEF EndLine, PieceInv
<1>4. CASE EndOfInput
  BY <1>4 DEF EndOfInput, PieceInv
<1>5. CASE UNCHANGED splitterVars
  <2>1. Begun' = Begun
    BY <1>5 DEF splitterVars, Begun
  <2>2. QED  BY <1>5, <2>1 DEF splitterVars, PieceInv
<1>6. QED  BY <1>1, <1>2, <1>3, <1>4, <1>5 DEF SplitterNext, SplitterEnded

(* A piece of a "v " line has a literal and is beyond the limit by its     *)
(* last one at most, and no line is cut without need, whatever it holds.   *)
THEOREM PiecesAreFit == SplitterSpec => []PiecesFit
<1> DEFINE Inv == SplitterTypes /\ PieceInv
<1>1. SplitterInit => Inv
  BY SplitterTypesInit, PieceInit
<1>2. Inv /\ [SplitterNext]_splitterVars => Inv'
  BY SplitterTypesStep, PieceStep
<1>3. Inv => PiecesFit
  <2> SUFFICES ASSUME Inv PROVE PiecesFit
    OBVIOUS
  <2>1. DOMAIN printed = 1..Len(printed)
    BY LenProperties DEF SplitterTypes
  <2>2. \A i \in DOMAIN printed : Fits(printed[i])
    BY <2>1 DEF PieceInv
  <2>3. at = "split" /\ len = 0 /\ Begun => Characters(Tail(Last(printed).words)) > Limit
    BY DEF PieceInv
  <2>4. QED  BY <2>2, <2>3 DEF PiecesFit, Fits
<1>4. QED  BY <1>1, <1>2, <1>3, PTL DEF SplitterSpec

-----------------------------------------------------------------------------
(* The lines as they should be printed, when each has a stamp.             *)
LEMMA GivenIs ==
  ASSUME SplitterTypes, AllStamped
  PROVE  /\ GivenLines \in Seq(OutputLine) /\ Len(GivenLines) = Len(lines) /\ Len(lines) \in Nat
         /\ \A i \in 1..Len(lines) : /\ GivenLines[i] = Given(lines[i]) /\ lines[i] \in Line
                                     /\ withTimestamp => Stamped(lines[i])
<1>1. lines \in Seq(Line) /\ Len(lines) \in Nat /\ DOMAIN lines = 1..Len(lines)
  BY LenProperties DEF SplitterTypes
<1>2. \A i \in 1..Len(lines) : lines[i] \in Line /\ (withTimestamp => Stamped(lines[i]))
  BY <1>1, ElementOfSeq DEF AllStamped
<1>3. ASSUME NEW i \in 1..Len(lines) PROVE Given(lines[i]) \in OutputLine
  <2> DEFINE l == lines[i]
  <2>1. l.words \in Seq(Word) /\ l.blank \in BOOLEAN
    BY <1>2 DEF Line
  <2>2. CASE withTimestamp
    <3>1. l.words # <<>>
      BY <1>2, <2>2 DEF Stamped
    <3> HIDE DEF l
    <3>2. Head(l.words) \in Word /\ Tail(l.words) \in Seq(Word)
      BY <2>1, <3>1, HeadTailProperties
    <3>3. Given(l) \in OutputLine
      BY <2>1, <2>2, <3>2 DEF Given, OutputLine, Stamps
    <3>4. QED  BY <3>3 DEF l
  <2>3. CASE ~ withTimestamp
    BY <2>1, <2>3 DEF Given, OutputLine, Stamps
  <2>4. QED  BY <2>2, <2>3
<1>4. GivenLines \in [1..Len(lines) -> OutputLine]
  BY <1>1, <1>3 DEF GivenLines
<1>5. GivenLines \in Seq(OutputLine) /\ Len(GivenLines) = Len(lines)
  BY <1>1, <1>4
<1>6. QED  BY <1>1, <1>2, <1>5 DEF GivenLines

(* A last line without newline does not count when only its stamp is there.*)
StampOnly == withTimestamp /\ ~ newline /\ Last(GivenLines).words = <<>>

LEMMA WholeIs ==
  ASSUME SplitterTypes, AllStamped
  PROVE  /\ WholeLines \in Seq(OutputLine) /\ Len(WholeLines) \in Nat
         /\ Len(WholeLines) <= Len(lines)
         /\ StampOnly => Len(WholeLines) = Len(lines) - 1
         /\ ~ StampOnly => Len(WholeLines) = Len(lines)
         /\ \A n \in 0..Len(WholeLines) : SubSeq(WholeLines, 1, n) = SubSeq(GivenLines, 1, n)
<1>1. GivenLines \in Seq(OutputLine) /\ Len(GivenLines) = Len(lines) /\ Len(lines) \in Nat
  BY GivenIs
<1>2. CASE StampOnly
  <2>1. Len(lines) > 0
    <3>1. lines \in Seq(Line) /\ lines # <<>>
      BY <1>2 DEF StampOnly, SplitterTypes
    <3>2. Len(lines) # 0
      BY <3>1, EmptySeq
    <3>3. QED  BY <1>1, <3>2
  <2> DEFINE k == Len(lines) - 1
  <2>2. k \in Nat /\ k \in 0..Len(GivenLines) /\ k <= Len(lines)
    BY <1>1, <2>1
  <2>3. WholeLines = SubSeq(GivenLines, 1, k)
    BY <1>1, <1>2 DEF WholeLines, StampOnly, Front
  <2> HIDE DEF k
  <2>4. /\ WholeLines \in Seq(OutputLine) /\ Len(WholeLines) = k
        /\ \A i \in 1..k : WholeLines[i] = GivenLines[i]
    BY <1>1, <2>2, <2>3, Beginning
  <2>5. ASSUME NEW n \in 0..k PROVE SubSeq(WholeLines, 1, n) = SubSeq(GivenLines, 1, n)
    <3>1. n \in 0..Len(WholeLines) /\ n \in 0..Len(GivenLines)
      BY <2>2, <2>4
    <3>2. /\ SubSeq(WholeLines, 1, n) \in Seq(OutputLine) /\ Len(SubSeq(WholeLines, 1, n)) = n
          /\ \A i \in 1..n : SubSeq(WholeLines, 1, n)[i] = WholeLines[i]
      BY <2>4, <3>1, Beginning
    <3>3. /\ SubSeq(GivenLines, 1, n) \in Seq(OutputLine) /\ Len(SubSeq(GivenLines, 1, n)) = n
          /\ \A i \in 1..n : SubSeq(GivenLines, 1, n)[i] = GivenLines[i]
      BY <1>1, <3>1, Beginning
    <3>4. \A i \in 1..n : SubSeq(WholeLines, 1, n)[i] = SubSeq(GivenLines, 1, n)[i]
      <4> TAKE i \in 1..n
      <4>1. i \in 1..k
        BY <2>2
      <4>2. QED  BY <2>4, <3>2, <3>3, <4>1
    <3>5. QED  BY <3>2, <3>3, <3>4, SeqEqual
  <2>6. QED  BY <1>2, <2>2, <2>4, <2>5 DEF k
<1>3. CASE ~ StampOnly
  <2>1. WholeLines = GivenLines
    BY <1>3 DEF WholeLines, StampOnly
  <2>2. QED  BY <1>1, <1>3, <2>1
<1>4. QED  BY <1>2, <1>3

(* Then the next line is read as it was given.                             *)
LEMMA NextLine ==
  ASSUME SplitterTypes, AllStamped, read < Len(lines)
  PROVE  /\ read + 1 \in 1..Len(lines) /\ Wanted # {} /\ BodyLine = read + 1
         /\ Body.words = GivenLines[read + 1].words /\ Body.blank = GivenLines[read + 1].blank
         /\ FirstWanted = read + 1
         /\ GivenLines[read + 1].stamp =
              IF withTimestamp THEN Head(lines[read + 1].words) ELSE ""
<1>1. Len(lines) \in Nat /\ read \in Nat
  BY LenProperties DEF SplitterTypes
<1>2. /\ read + 1 \in 1..Len(lines)
      /\ \A i \in (read + 1)..Len(lines) : i \in 1..Len(lines)
  BY <1>1
<1>3. Wanted = (read + 1)..Len(lines)
  BY <1>2, GivenIs DEF Wanted, Stamped
<1>4. read + 1 \in Wanted
  BY <1>1, <1>3
<1>5. FirstWanted = read + 1
  <2>1. FirstWanted \in Wanted /\ FirstWanted <= read + 1
    BY <1>4, FirstIs
  <2>2. QED  BY <1>1, <1>3, <2>1
<1> DEFINE l == lines[read + 1]
<1>6. GivenLines[read + 1] = Given(l) /\ (withTimestamp => Stamped(l)) /\ l \in Line
  BY <1>2, GivenIs
<1>7. BodyLine = read + 1
  BY <1>5, <1>6 DEF BodyLine, Stamped
<1>8. Body = IF withTimestamp THEN WithoutStamp(l) ELSE l
  BY <1>5, <1>7 DEF Body
<1> HIDE DEF l
<1>9. Body.words = Given(l).words /\ Body.blank = Given(l).blank
  BY <1>8 DEF Given, WithoutStamp
<1>10. Given(l).stamp = IF withTimestamp THEN Head(l.words) ELSE ""
  BY DEF Given
<1>11. QED  BY <1>2, <1>4, <1>5, <1>6, <1>7, <1>9, <1>10 DEF l

LEMMA NoMoreIs ==
  ASSUME SplitterTypes, AllStamped, read <= Len(WholeLines)
  PROVE  /\ NoMore => read = Len(WholeLines)
         /\ ~ NoMore => read < Len(WholeLines) /\ read < Len(lines)
<1>1. Len(lines) \in Nat /\ read \in 0..Len(lines) /\ read \in Nat
  BY LenProperties DEF SplitterTypes
<1>2. /\ Len(WholeLines) \in Nat /\ Len(WholeLines) <= Len(lines)
      /\ StampOnly => Len(WholeLines) = Len(lines) - 1
      /\ ~ StampOnly => Len(WholeLines) = Len(lines)
  BY WholeIs
<1>3. CASE read = Len(lines)
  <2>1. Wanted = {}
    BY <1>1, <1>3 DEF Wanted
  <2>2. NoMore
    BY <2>1 DEF NoMore
  <2>3. QED  BY <1>1, <1>2, <1>3, <2>2
<1>4. CASE read < Len(lines)
  <2>1. /\ Wanted # {} /\ BodyLine = read + 1 /\ Body.words = GivenLines[read + 1].words
        /\ read + 1 \in 1..Len(lines)
    BY <1>4, NextLine
  <2>2. NoMore <=> read + 1 = Len(lines) /\ ~ newline /\ GivenLines[read + 1].words = <<>>
    BY <1>1, <1>4, <2>1 DEF NoMore
  <2>3. /\ GivenLines[read + 1] = Given(lines[read + 1]) /\ Len(GivenLines) = Len(lines)
    BY <2>1, GivenIs
  <2>4. ASSUME read + 1 = Len(lines), ~ newline, ~ withTimestamp
        PROVE  GivenLines[read + 1].words # <<>>
    <3>1. lines[read + 1].words # <<>>
      BY <2>4 DEF SplitterTypes, Last
    <3>2. ASSUME NEW l PROVE Given(l).words = l.words
      BY <2>4 DEF Given
    <3>3. QED  BY <2>3, <3>1, <3>2
  <2>5. read + 1 = Len(lines) => Last(GivenLines) = GivenLines[read + 1]
    BY <2>3 DEF Last
  <2>6. NoMore <=> read + 1 = Len(lines) /\ StampOnly
    <3>1. CASE read + 1 = Len(lines)
      BY <2>2, <2>4, <2>5, <3>1 DEF StampOnly
    <3>2. CASE read + 1 # Len(lines)
      BY <2>2, <3>2
    <3>3. QED  BY <3>1, <3>2
  <2>7. CASE NoMore
    BY <1>1, <1>2, <2>6, <2>7
  <2>8. CASE ~ NoMore
    <3>1. CASE StampOnly
      <4>1. read + 1 # Len(lines)
        BY <2>6, <2>8, <3>1
      <4>2. QED  BY <1>1, <1>2, <1>4, <2>8, <3>1, <4>1
    <3>2. CASE ~ StampOnly
      BY <1>1, <1>2, <1>4, <2>8, <3>2
    <3>3. QED  BY <3>1, <3>2
  <2>9. QED  BY <2>7, <2>8
<1>5. QED  BY <1>1, <1>3, <1>4

(* What is left of a line.                                                 *)
LEMMA LeftIs ==
  ASSUME NEW s \in Stamps, NEW ws \in Seq(Word)
  PROVE  /\ [i \in 1..Len(ws) |-> <<s, ws[i]>>] \in Seq(Item)
         /\ ws = <<>> => [i \in 1..Len(ws) |-> <<s, ws[i]>>] = <<>>
         /\ ws # <<>> => /\ [i \in 1..Len(ws) |-> <<s, ws[i]>>] =
                              <<<<s, Head(ws)>>>> \o [i \in 1..Len(Tail(ws)) |-> <<s, Tail(ws)[i]>>]
                         /\ <<<<s, Head(ws)>>>> \in Seq(Item)
                         /\ [i \in 1..Len(Tail(ws)) |-> <<s, Tail(ws)[i]>>] \in Seq(Item)
<1> DEFINE F(ts) == [i \in 1..Len(ts) |-> <<s, ts[i]>>]
<1>1. ASSUME NEW ts \in Seq(Word) PROVE F(ts) \in Seq(Item) /\ Len(F(ts)) = Len(ts)
  <2>1. Len(ts) \in Nat /\ \A i \in 1..Len(ts) : ts[i] \in Word
    BY LenProperties, ElementOfSeq
  <2>2. \A i \in 1..Len(ts) : <<s, ts[i]>> \in Item
    BY <2>1 DEF Item
  <2>3. F(ts) \in [1..Len(ts) -> Item]
    BY <2>2
  <2> HIDE DEF F
  <2>4. F(ts) \in Seq(Item) /\ Len(F(ts)) = Len(ts)
    BY <2>1, <2>3
  <2>5. QED  BY <2>4
<1>2. CASE ws = <<>>
  <2>1. F(ws) \in Seq(Item) /\ Len(F(ws)) = 0
    BY <1>1, <1>2
  <2>2. F(ws) = <<>>
    BY <2>1, EmptySeq
  <2>3. QED  BY <1>2, <2>1, <2>2
<1>3. CASE ws # <<>>
  <2>1. /\ Head(ws) \in Word /\ Tail(ws) \in Seq(Word) /\ Len(Tail(ws)) = Len(ws) - 1
        /\ \A i \in 1..Len(Tail(ws)) : Tail(ws)[i] = ws[i + 1]
    BY <1>3, HeadTailProperties
  <2>2. Len(ws) \in Nat /\ Len(ws) # 0 /\ Head(ws) = ws[1]
    BY <1>3, EmptySeq
  <2> DEFINE a == <<<<s, Head(ws)>>>>
             b == F(Tail(ws))
  <2>3. a \in Seq(Item) /\ Len(a) = 1 /\ a[1] = <<s, Head(ws)>>
    <3>1. <<s, Head(ws)>> \in Item
      BY <2>1 DEF Item
    <3>2. QED  BY <3>1
  <2>4. b \in Seq(Item) /\ Len(b) = Len(ws) - 1
    BY <1>1, <2>1
  <2>5. F(ws) \in Seq(Item) /\ Len(F(ws)) = Len(ws)
    BY <1>1
  <2>6. \A i \in 1..(Len(ws) - 1) : b[i] = <<s, ws[i + 1]>>
    BY <2>1
  <2>7. \A i \in 1..Len(ws) : F(ws)[i] = <<s, ws[i]>>
    OBVIOUS
  <2> HIDE DEF a, b, F
  <2>8. /\ a \o b \in Seq(Item) /\ Len(a \o b) = 1 + (Len(ws) - 1)
        /\ \A i \in 1..(1 + (Len(ws) - 1)) : (a \o b)[i] = IF i <= 1 THEN a[i] ELSE b[i - 1]
    <3>1. /\ a \o b \in Seq(Item) /\ Len(a \o b) = Len(a) + Len(b)
          /\ \A i \in 1..(Len(a) + Len(b)) :
               (a \o b)[i] = IF i <= Len(a) THEN a[i] ELSE b[i - Len(a)]
      BY <2>3, <2>4, ConcatProperties
    <3>2. QED  BY <2>3, <2>4, <3>1
  <2>9. Len(a \o b) = Len(ws)
    BY <2>2, <2>8
  <2>10. \A i \in 1..Len(ws) : (a \o b)[i] = F(ws)[i]
    <3> TAKE i \in 1..Len(ws)
    <3>1. i \in 1..(1 + (Len(ws) - 1))
      BY <2>2
    <3>2. CASE i = 1
      <4>1. (a \o b)[1] = a[1]
        BY <2>8, <3>1, <3>2
      <4>2. QED  BY <2>2, <2>3, <2>7, <3>2, <4>1
    <3>3. CASE i # 1
      <4>1. ~ (i <= 1) /\ i - 1 \in 1..(Len(ws) - 1) /\ (i - 1) + 1 = i
        BY <2>2, <3>3
      <4>2. (a \o b)[i] = b[i - 1]
        BY <2>8, <3>1, <4>1
      <4>3. b[i - 1] = <<s, ws[i]>>
        BY <2>6, <4>1
      <4>4. QED  BY <2>7, <4>2, <4>3
    <3>4. QED  BY <3>2, <3>3
  <2>11. F(ws) = a \o b
    BY <2>5, <2>8, <2>9, <2>10, SeqEqual
  <2>12. QED  BY <1>3, <2>3, <2>4, <2>5, <2>11 DEF a, b, F
<1>4. QED  BY <1>2, <1>3

(* A value that is read is what is left; it is the content of its line.    *)
LEMMA ContentIsLeft ==
  ASSUME NEW l \in OutputLine, IsValue(l)
  PROVE  Content(l) = [i \in 1..Len(Tail(l.words)) |-> <<l.stamp, Tail(l.words)[i]>>]
<1>1. l.words \in Seq(Word) /\ l.words # <<>>
  BY DEF OutputLine, IsValue
<1>2. /\ Len(Tail(l.words)) = Len(l.words) - 1
      /\ \A i \in 1..Len(Tail(l.words)) : Tail(l.words)[i] = l.words[i + 1]
  BY <1>1, HeadTailProperties
<1>3. Content(l) = [i \in 1..Len(Tail(l.words)) |-> <<l.stamp, l.words[i + 1]>>]
  BY <1>2 DEF Content
<1>4. QED  BY <1>2, <1>3

-----------------------------------------------------------------------------
(* The words: each step moves one from what is left to what is printed.    *)
LEMMA WordsInit == SplitterInit => WordsInv
<1> SUFFICES ASSUME SplitterInit, AllStamped
             PROVE  /\ read <= Len(WholeLines)
                    /\ at # "split" => AllContent(printed) = UntilLine(read)
                    /\ at = "split" => AllContent(printed) \o Left = UntilLine(read)
                    /\ at = "end" => read = Len(WholeLines)
  BY DEF WordsInv
<1>1. read = 0 /\ at = "read" /\ printed = <<>> /\ SplitterTypes
  BY SplitterTypesInit DEF SplitterInit
<1>2. Len(WholeLines) \in Nat /\ 0 <= Len(WholeLines)
  BY <1>1, WholeIs
<1>3. SubSeq(GivenLines, 1, 0) = <<>>
  <2>1. GivenLines \in Seq(OutputLine) /\ 0 \in 0..Len(GivenLines)
    BY <1>1, GivenIs
  <2>2. SubSeq(GivenLines, 1, 0) \in Seq(OutputLine) /\ Len(SubSeq(GivenLines, 1, 0)) = 0
    BY <2>1, Beginning
  <2>3. QED  BY <2>2, EmptySeq
<1>4. AllContent(printed) = UntilLine(read)
  BY <1>1, <1>3 DEF UntilLine
<1>5. QED  BY <1>1, <1>2, <1>4

(* What the invariant speaks of is as it was while the input is.           *)
LEMMA SameLines ==
  ASSUME lines' = lines, withTimestamp' = withTimestamp, newline' = newline
  PROVE  /\ AllStamped' = AllStamped /\ GivenLines' = GivenLines /\ WholeLines' = WholeLines
         /\ \A n : UntilLine(n)' = UntilLine(n)
<1>1. GivenLines' = GivenLines
  BY DEF GivenLines, Given
<1>2. AllStamped' = AllStamped
  BY DEF AllStamped
<1>3. WholeLines' = WholeLines
  BY <1>1 DEF WholeLines
<1>4. \A n : UntilLine(n)' = UntilLine(n)
  BY <1>1 DEF UntilLine
<1>5. QED  BY <1>1, <1>2, <1>3, <1>4

LEMMA ReadKeepsWords ==
  ASSUME SplitterTypes, PieceInv, WordsInv, AllStamped, ReadLine
  PROVE  /\ read' <= Len(WholeLines)
         /\ at' # "split" => AllContent(printed') = UntilLine(read')
         /\ at' = "split" => AllContent(printed') \o Left' = UntilLine(read')
         /\ at' # "end"
<1>1. /\ AllContent(printed) = UntilLine(read) /\ read <= Len(WholeLines) /\ ~ NoMore
      /\ read' = BodyLine
  BY DEF WordsInv, ReadLine
<1>2. read < Len(WholeLines) /\ read < Len(lines)
  BY <1>1, NoMoreIs
<1> DEFINE g == GivenLines[read + 1]
<1>3. /\ read + 1 \in 1..Len(lines) /\ read' = read + 1
      /\ Body.words = g.words /\ Body.blank = g.blank /\ timestamp' = g.stamp
  <2>1. /\ read + 1 \in 1..Len(lines) /\ BodyLine = read + 1 /\ FirstWanted = read + 1
        /\ Body.words = g.words /\ Body.blank = g.blank
        /\ g.stamp = IF withTimestamp THEN Head(lines[read + 1].words) ELSE ""
    BY <1>2, NextLine
  <2>2. timestamp' = IF withTimestamp THEN Head(lines[FirstWanted].words) ELSE ""
    BY DEF ReadLine
  <2> HIDE DEF g
  <2>3. QED  BY <1>1, <2>1, <2>2
<1>4. /\ GivenLines \in Seq(OutputLine) /\ Len(GivenLines) = Len(lines) /\ Len(lines) \in Nat
      /\ read \in Nat /\ Len(WholeLines) \in Nat
  <2>1. read \in 0..Len(lines)
    BY DEF SplitterTypes
  <2>2. QED  BY <2>1, GivenIs, WholeIs
<1>5. /\ g \in OutputLine /\ UntilLine(read) \in Seq(Item)
      /\ UntilLine(read + 1) = UntilLine(read) \o Content(g)
  BY <1>2, <1>4, ContentNext DEF UntilLine
<1>6. read' <= Len(WholeLines)
  BY <1>2, <1>3, <1>4
<1> HIDE DEF g
<1>7. IsValue(Body) <=> IsValue(g)
  BY <1>3 DEF IsValue
<1>8. CASE IsValue(Body)
  <2>1. literals' = Tail(g.words) /\ at' = "split" /\ printed' = printed
    BY <1>3, <1>8 DEF ReadLine
  <2>2. Content(g) = Left'
    <3>1. Content(g) = [i \in 1..Len(Tail(g.words)) |-> <<g.stamp, Tail(g.words)[i]>>]
      BY <1>5, <1>7, <1>8, ContentIsLeft
    <3>2. QED  BY <1>3, <2>1, <3>1 DEF Left
  <2>3. AllContent(printed') \o Left' = UntilLine(read')
    BY <1>1, <1>3, <1>5, <2>1, <2>2
  <2>4. QED  BY <1>6, <2>1, <2>3
<1>9. CASE ~ IsValue(Body)
  <2>1. printed' = Append(printed, [stamp |-> g.stamp, words |-> g.words, blank |-> g.blank])
    BY <1>3, <1>9 DEF ReadLine
  <2>2. at' = "read"
    BY <1>9 DEF ReadLine
  <2>3. [stamp |-> g.stamp, words |-> g.words, blank |-> g.blank] = g
    BY <1>5 DEF OutputLine
  <2>4. printed' = Append(printed, g)
    BY <2>1, <2>3
  <2>5. printed \in Seq(OutputLine)
    BY DEF SplitterTypes
  <2>6. AllContent(printed') = AllContent(printed) \o Content(g)
    BY <1>5, <2>4, <2>5, ContentAppend
  <2>7. AllContent(printed') = UntilLine(read')
    BY <1>1, <1>3, <1>5, <2>6
  <2>8. QED  BY <1>6, <2>2, <2>7
<1>10. QED  BY <1>8, <1>9

LEMMA WriteKeepsWords ==
  ASSUME SplitterTypes, PieceInv, WriteLiteral
  PROVE  AllContent(printed') \o Left' = AllContent(printed) \o Left
<1> DEFINE x == Head(literals)
           c == <<<<timestamp, x>>>>
<1>1. /\ at = "split" /\ literals # <<>> /\ literals' = Tail(literals) /\ timestamp' = timestamp
      /\ timestamp \in Stamps /\ literals \in Seq(Word) /\ printed \in Seq(OutputLine)
  BY DEF WriteLiteral, SplitterTypes
<1>2. Left = c \o Left' /\ c \in Seq(Item) /\ Left' \in Seq(Item)
  <2>1. /\ Left = [i \in 1..Len(literals) |-> <<timestamp, literals[i]>>]
        /\ Left' = [i \in 1..Len(Tail(literals)) |-> <<timestamp, Tail(literals)[i]>>]
    BY <1>1 DEF Left
  <2> DEFINE a == [i \in 1..Len(literals) |-> <<timestamp, literals[i]>>]
             b == [i \in 1..Len(Tail(literals)) |-> <<timestamp, Tail(literals)[i]>>]
  <2>2. a = c \o b /\ c \in Seq(Item) /\ b \in Seq(Item)
    BY <1>1, LeftIs
  <2> HIDE DEF a, b, c
  <2>3. Left = a /\ Left' = b
    BY <2>1 DEF a, b
  <2>4. QED  BY <2>2, <2>3
<1>3. AllContent(printed) \in Seq(Item)
  BY <1>1, ContentsSeq
<1>4. x \in Word
  BY LiteralWritten
<1>5. AllContent(printed') = AllContent(printed) \o c
  <2>1. CASE len = 0
    <3> DEFINE l == [stamp |-> timestamp, words |-> <<"v", x>>, blank |-> FALSE]
    <3>1. l \in OutputLine /\ printed' = Append(printed, l)
      BY <2>1, LiteralWritten
    <3>2. IsValue(l) /\ Tail(<<"v", x>>) = <<x>> /\ l.words = <<"v", x>> /\ l.stamp = timestamp
      <4>1. "v" \in Word
        BY <1>1 DEF SplitterTypes
      <4>2. QED  BY <1>4, <4>1, NewPieceFits
    <3> HIDE DEF l
    <3>3. Content(l) = [i \in 1..Len(<<x>>) |-> <<timestamp, <<x>>[i]>>]
      <4>1. Content(l) = [i \in 1..Len(Tail(l.words)) |-> <<l.stamp, Tail(l.words)[i]>>]
        BY <3>1, <3>2, ContentIsLeft
      <4>2. QED  BY <3>2, <4>1
    <3>4. [i \in 1..Len(<<x>>) |-> <<timestamp, <<x>>[i]>>] = c
      OBVIOUS
    <3>5. AllContent(Append(printed, l)) = AllContent(printed) \o Content(l)
      BY <1>1, <3>1, ContentAppend
    <3>6. QED  BY <3>1, <3>3, <3>4, <3>5
  <2>2. CASE len # 0
    <3>1. /\ printed # <<>> /\ IsValue(Last(printed)) /\ printed' = Longer(printed, x)
          /\ Last(printed).stamp = timestamp
      BY <1>1, <2>2, LiteralWritten DEF PieceInv
    <3> HIDE DEF x
    <3>2. AllContent(Longer(printed, x)) = AllContent(printed) \o <<<<Last(printed).stamp, x>>>>
      BY <1>1, <1>4, <3>1, ContentLonger
    <3>3. QED  BY <3>1, <3>2
  <2>3. QED  BY <2>1, <2>2
<1> HIDE DEF c
<1>6. (AllContent(printed) \o c) \o Left' = AllContent(printed) \o (c \o Left')
  BY <1>2, <1>3, Regroup, SMTT(40)
<1>7. QED  BY <1>2, <1>5, <1>6

LEMMA WordsStep ==
  ASSUME SplitterTypes, PieceInv, WordsInv, [SplitterNext]_splitterVars
  PROVE  WordsInv'
<1>1. lines' = lines /\ withTimestamp' = withTimestamp /\ newline' = newline
  BY DEF SplitterNext, ReadLine, WriteLiteral, EndLine, EndOfInput, SplitterEnded, splitterVars
<1>2. /\ AllStamped' = AllStamped /\ WholeLines' = WholeLines /\ GivenLines' = GivenLines
      /\ \A n : UntilLine(n)' = UntilLine(n)
  BY <1>1, SameLines
<1> SUFFICES ASSUME AllStamped
             PROVE  /\ read' <= Len(WholeLines)
                    /\ at' # "split" => AllContent(printed') = UntilLine(read')
                    /\ at' = "split" => AllContent(printed') \o Left' = UntilLine(read')
                    /\ at' = "end" => read' = Len(WholeLines)
  <2>1. (UntilLine(read))' = UntilLine(read')
    BY <1>2 DEF UntilLine
  <2>2. QED  BY <1>2, <2>1 DEF WordsInv, AllContent
<1>3. CASE ReadLine
  BY <1>3, ReadKeepsWords
<1>4. CASE WriteLiteral
  <2>1. at = "split" /\ at' = "split" /\ read' = read
    BY <1>4 DEF WriteLiteral
  <2>2. AllContent(printed') \o Left' = AllContent(printed) \o Left
    BY <1>4, WriteKeepsWords
  <2>3. QED  BY <2>1, <2>2 DEF WordsInv
<1>5. CASE EndLine
  <2>1. at = "split" /\ at' = "read" /\ read' = read /\ printed' = printed /\ literals = <<>>
    BY <1>5 DEF EndLine
  <2>2. Left = <<>>
    BY <2>1, LeftIs DEF Left, SplitterTypes
  <2>3. AllContent(printed) \in Seq(Item)
    BY ContentsSeq DEF SplitterTypes
  <2>4. AllContent(printed) \o <<>> = AllContent(printed)
    BY <2>3, ConcatEmptySeq
  <2>5. QED  BY <2>1, <2>2, <2>4 DEF WordsInv
<1>6. CASE EndOfInput
  <2>1. NoMore /\ at = "read" /\ at' = "end" /\ read' = read /\ printed' = printed
    BY <1>6 DEF EndOfInput
  <2>2. read = Len(WholeLines)
    BY <2>1, NoMoreIs DEF WordsInv
  <2>3. QED  BY <2>1, <2>2 DEF WordsInv
<1>7. CASE UNCHANGED splitterVars
  BY <1>7 DEF splitterVars, WordsInv, Left
<1>8. QED  BY <1>3, <1>4, <1>5, <1>6, <1>7 DEF SplitterNext, SplitterEnded

LEMMA PrefixTransitive ==
  ASSUME NEW S, NEW s \in Seq(S), NEW t \in Seq(S), NEW u \in Seq(S),
         IsPrefix(s, t), IsPrefix(t, u)
  PROVE  IsPrefix(s, u)
<1>1. /\ Len(s) <= Len(t) /\ Len(t) <= Len(u)
      /\ Len(s) \in Nat /\ Len(t) \in Nat /\ Len(u) \in Nat
      /\ SubSeq(s, 1, Len(s)) = SubSeq(t, 1, Len(s))
      /\ SubSeq(t, 1, Len(t)) = SubSeq(u, 1, Len(t))
  BY LenProperties DEF IsPrefix
<1>2. Len(s) \in 0..Len(t) /\ Len(t) \in 0..Len(u) /\ Len(s) \in 0..Len(u) /\ Len(t) \in 0..Len(t)
  BY <1>1
<1>3. \A i \in 1..Len(s) : SubSeq(t, 1, Len(s))[i] = t[i] /\ SubSeq(u, 1, Len(s))[i] = u[i]
  BY <1>2, Beginning
<1>4. \A i \in 1..Len(t) : SubSeq(t, 1, Len(t))[i] = t[i] /\ SubSeq(u, 1, Len(t))[i] = u[i]
  BY <1>2, Beginning
<1>5. \A i \in 1..Len(s) : i \in 1..Len(t)
  BY <1>1
<1>6. \A i \in 1..Len(s) : SubSeq(t, 1, Len(s))[i] = SubSeq(u, 1, Len(s))[i]
  BY <1>1, <1>3, <1>4, <1>5
<1>7. /\ SubSeq(t, 1, Len(s)) \in Seq(S) /\ Len(SubSeq(t, 1, Len(s))) = Len(s)
      /\ SubSeq(u, 1, Len(s)) \in Seq(S) /\ Len(SubSeq(u, 1, Len(s))) = Len(s)
  BY <1>2, Beginning
<1>8. SubSeq(t, 1, Len(s)) = SubSeq(u, 1, Len(s))
  BY <1>6, <1>7, SeqEqual
<1>9. QED  BY <1>1, <1>8 DEF IsPrefix

(* No literal of the answer is lost, repeated, moved past another line or  *)
(* given the stamp of another line, whatever the lines, the words and the  *)
(* limit are.                                                              *)
THEOREM WordsAreKept == SplitterSpec => []WordsKept
<1> DEFINE Inv == SplitterTypes /\ PieceInv /\ WordsInv
<1>1. SplitterInit => Inv
  BY SplitterTypesInit, PieceInit, WordsInit
<1>2. Inv /\ [SplitterNext]_splitterVars => Inv'
  BY SplitterTypesStep, PieceStep, WordsStep
<1>3. Inv => WordsKept
  <2> SUFFICES ASSUME Inv, AllStamped
               PROVE  /\ IsPrefix(AllContent(printed), AllContent(WholeLines))
                      /\ at = "end" => AllContent(printed) = AllContent(WholeLines)
    BY DEF WordsKept, WholeLines, GivenLines, AllStamped
  <2>1. /\ WholeLines \in Seq(OutputLine) /\ read \in 0..Len(WholeLines)
        /\ SubSeq(WholeLines, 1, read) = SubSeq(GivenLines, 1, read)
    <3>1. /\ WholeLines \in Seq(OutputLine) /\ Len(WholeLines) \in Nat
          /\ \A n \in 0..Len(WholeLines) : SubSeq(WholeLines, 1, n) = SubSeq(GivenLines, 1, n)
      BY WholeIs
    <3>2. read \in 0..Len(lines) /\ read <= Len(WholeLines) /\ Len(lines) \in Nat
      BY GivenIs DEF SplitterTypes, WordsInv
    <3>3. read \in 0..Len(WholeLines)
      BY <3>1, <3>2
    <3>4. QED  BY <3>1, <3>3
  <2>2. UntilLine(read) = AllContent(SubSeq(WholeLines, 1, read))
    BY <2>1 DEF UntilLine
  <2>3. /\ IsPrefix(UntilLine(read), AllContent(WholeLines))
        /\ UntilLine(read) \in Seq(Item) /\ AllContent(WholeLines) \in Seq(Item)
    <3>1. IsPrefix(UntilLine(read), AllContent(WholeLines))
      BY <2>1, <2>2, ContentPrefix
    <3>2. SubSeq(WholeLines, 1, read) \in Seq(OutputLine)
      BY <2>1, Beginning
    <3>3. QED  BY <2>1, <2>2, <3>1, <3>2, ContentsSeq
  <2>4. AllContent(printed) \in Seq(Item)
    BY ContentsSeq DEF SplitterTypes
  <2>5. CASE at # "split"
    <3>1. AllContent(printed) = UntilLine(read)
      BY <2>5 DEF WordsInv
    <3>2. ASSUME at = "end" PROVE AllContent(printed) = AllContent(WholeLines)
      <4>1. read = Len(WholeLines)
        BY <3>2 DEF WordsInv
      <4>2. SubSeq(WholeLines, 1, Len(WholeLines)) = WholeLines
        BY <2>1, SubSeqFull
      <4>3. QED  BY <2>2, <3>1, <4>1, <4>2
    <3>3. QED  BY <2>3, <3>1, <3>2
  <2>6. CASE at = "split"
    <3>1. AllContent(printed) \o Left = UntilLine(read)
      BY <2>6 DEF WordsInv
    <3>2. Left \in Seq(Item)
      BY LeftIs DEF Left, SplitterTypes
    <3>3. IsPrefix(AllContent(printed), UntilLine(read))
      BY <2>4, <3>1, <3>2, PrefixOfConcat
    <3>4. IsPrefix(AllContent(printed), AllContent(WholeLines))
      BY <2>3, <2>4, <3>3, PrefixTransitive
    <3>5. QED  BY <2>6, <3>4
  <2>7. QED  BY <2>5, <2>6
<1>4. QED  BY <1>1, <1>2, <1>3, PTL DEF SplitterSpec
=============================================================================
