--------------------------- MODULE SequenceLemmas ---------------------------
(***************************************************************************)
(* What the theorems about lists rest on: induction over their positions,  *)
(* functions that are computed along a list, and the parts FlattenSeq puts *)
(* together.                                                               *)
(***************************************************************************)
EXTENDS Integers, SequencesExt, TLAPS, SequenceTheorems, FiniteSetTheorems, WellFoundedInduction

-----------------------------------------------------------------------------
(* Induction: a set of numbers has a least one, so a statement about all   *)
(* numbers holds when the least counterexample is impossible.              *)

LEMMA Least ==
  ASSUME NEW T \in SUBSET Nat, T # {}
  PROVE  \E x \in T : \A y \in T : x <= y
<1>1. PICK R : R = OpToRel(<, Nat)
  OBVIOUS
<1>2. \A x, y \in Nat : y < x => <<y, x>> \in R
  BY <1>1 DEF OpToRel
<1>3. IsWellFoundedOn(R, Nat)
  BY <1>1, NatLessThanWellFounded
<1>4. PICK x \in T : \A y \in T : ~(<<y, x>> \in R)
  BY <1>3, WFMin
<1>5. \A y \in T : x \in Nat /\ y \in Nat /\ ~(y < x)
  BY <1>2, <1>4
<1> QED
  BY <1>5

\* A set of numbers that has 0, and the successor of each it has, up to n.
LEMMA Induction ==
  ASSUME NEW n \in Nat, NEW T, 0 \in T,
         \A k \in 1..n : k - 1 \in T => k \in T
  PROVE  0..n \subseteq T
<1> SUFFICES ASSUME ~(0..n \subseteq T) PROVE FALSE
  OBVIOUS
<1> DEFINE Out == {k \in 0..n : k \notin T}
<1>1. Out \in SUBSET Nat /\ Out # {}
  OBVIOUS
<1>2. PICK k \in Out : \A m \in Out : k <= m
  BY <1>1, Least
<1>3. k \in 1..n /\ k - 1 \in 0..n /\ k - 1 \notin Out
  BY <1>2
<1> QED
  BY <1>2, <1>3

\* What a recursive function over 0..n needs to exist: a next value for each.
HasRun(V, first, n, step) ==
  \E r \in [0..n -> V] : r[0] = first /\ \A k \in 1..n : r[k] = step[k][r[k - 1]]

LEMMA Recursion ==
  ASSUME NEW V, NEW first \in V, NEW n \in Nat, NEW step \in [1..n -> [V -> V]]
  PROVE  HasRun(V, first, n, step)
<1> DEFINE Runs(r, m) == r[0] = first /\ \A k \in 1..m : r[k] = step[k][r[k - 1]]
           T == {m \in 0..n : \E r \in [0..m -> V] : Runs(r, m)}
<1>1. 0 \in T
  <2>1. PICK r : r = [k \in {0} |-> first]
    OBVIOUS
  <2>2. 0..0 = {0} /\ 1..0 = {}
    OBVIOUS
  <2>3. r \in [0..0 -> V] /\ r[0] = first
    BY <2>1, <2>2
  <2> QED
    BY <2>2, <2>3
<1>2. ASSUME NEW m \in 1..n, m - 1 \in T PROVE m \in T
  <2>1. PICK r \in [0..(m - 1) -> V] : Runs(r, m - 1)
    BY <1>2
  <2> DEFINE s == [k \in 0..m |-> IF k = m THEN step[m][r[m - 1]] ELSE r[k]]
  <2>2. s \in [0..m -> V] /\ \A k \in 0..(m - 1) : s[k] = r[k]
    <3>1. r[m - 1] \in V /\ step[m] \in [V -> V]
      BY <2>1
    <3>2. step[m][r[m - 1]] \in V
      BY <3>1
    <3>3. ASSUME NEW k \in 0..m, k # m PROVE k \in 0..(m - 1) /\ r[k] \in V
      BY <3>3
    <3> QED
      BY <3>2, <3>3
  <2>3. s[m] = step[m][s[m - 1]]
    BY <2>2
  <2>4. ASSUME NEW k \in 1..m PROVE s[k] = step[k][s[k - 1]]
    <3>1. CASE k = m
      BY <2>3, <3>1
    <3>2. CASE k # m
      <4>1. k \in 1..(m - 1) /\ k \in 0..(m - 1) /\ k - 1 \in 0..(m - 1)
        BY <3>2
      <4>2. s[k] = r[k] /\ s[k - 1] = r[k - 1]
        BY <2>2, <4>1
      <4> QED
        BY <2>1, <4>1, <4>2
    <3> QED
      BY <3>1, <3>2
  <2>5. s[0] = first
    BY <2>1, <2>2
  <2> HIDE DEF s
  <2>6. \E t \in [0..m -> V] : Runs(t, m)
    BY <2>2, <2>4, <2>5
  <2>7. m \in 0..n
    OBVIOUS
  <2> HIDE DEF Runs
  <2> QED
    BY <2>6, <2>7
<1> HIDE DEF T
<1>3. \A k \in 1..n : k - 1 \in T => k \in T
  BY <1>2
<1>4. 0..n \subseteq T
  BY <1>1, <1>3, Induction
<1> QED
  BY <1>4 DEF T, HasRun

\* Two functions that run the same way are the same.
Agree(r, s, n) == \A k \in 0..n : r[k] = s[k]

LEMMA RunsAgree ==
  ASSUME NEW n \in Nat, NEW r, NEW s, r[0] = s[0],
         \A k \in 1..n : r[k - 1] = s[k - 1] => r[k] = s[k]
  PROVE  Agree(r, s, n)
<1> DEFINE T == {k \in 0..n : r[k] = s[k]}
<1>1. 0 \in T /\ \A k \in 1..n : k - 1 \in T => k \in T
  OBVIOUS
<1> HIDE DEF T
<1>2. 0..n \subseteq T
  BY <1>1, Induction
<1> QED
  BY <1>2 DEF T, Agree
-----------------------------------------------------------------------------
LEMMA SeqOfFunction ==
  ASSUME NEW S, NEW n \in Nat, NEW f \in [1..n -> S]
  PROVE  f \in Seq(S) /\ Len(f) = n /\ DOMAIN f = 1..n
<1>1. f \in Seq(S)
  BY SeqDef
<1>2. Len(f) \in Nat /\ 1..Len(f) = 1..n /\ DOMAIN f = 1..n
  BY <1>1, LenProperties
<1>3. ~(Len(f) < n) /\ ~(n < Len(f))
  <2>1. n < Len(f) => Len(f) \in 1..Len(f) /\ Len(f) \notin 1..n
    BY <1>2
  <2>2. Len(f) < n => n \in 1..n /\ n \notin 1..Len(f)
    BY <1>2
  <2> QED
    BY <1>2, <2>1, <2>2
<1>4. Len(f) = n
  BY <1>2, <1>3
<1> QED
  BY <1>1, <1>2, <1>4

-----------------------------------------------------------------------------
(* FlattenSeq, by what it has put together after each part. *)

Flatten(ss) ==
  CHOOSE flatten : flatten =
    [i \in 1..Len(ss) |-> IF i = 1 THEN ss[i] ELSE flatten[i - 1] \o ss[i]]

Joins(r, ss) == r[0] = <<>> /\ \A k \in 1..Len(ss) : r[k] = r[k - 1] \o ss[k]

LEMMA FlattenJoins ==
  ASSUME NEW S, NEW ss \in Seq(Seq(S)), NEW r, Joins(r, ss)
  PROVE  FlattenSeq(ss) = r[Len(ss)]
<1>1. Len(ss) \in Nat
  BY LenProperties
<1>2. CASE Len(ss) = 0
  <2>1. ss = <<>>
    BY <1>2, EmptySeq
  <2> QED
    BY <1>2, <2>1 DEF FlattenSeq, Joins
<1>3. CASE Len(ss) # 0
  <2> DEFINE f == Flatten(ss)
             q == [i \in 1..Len(ss) |-> r[i]]
             T == {k \in 0..Len(ss) : k = 0 \/ f[k] = r[k]}
  <2>1. r[1] = ss[1]
    <3>1. 1 \in 1..Len(ss) /\ 1 - 1 = 0
      BY <1>1, <1>3
    <3>2. ss[1] \in Seq(S)
      BY <3>1, ElementOfSeq
    <3>3. <<>> \o ss[1] = ss[1]
      BY <3>2, ConcatEmptySeq
    <3>4. r[1] = r[1 - 1] \o ss[1] /\ r[0] = <<>>
      BY <3>1 DEF Joins
    <3> QED
      BY <3>1, <3>3, <3>4
  <2>2. q = [i \in 1..Len(ss) |-> IF i = 1 THEN ss[i] ELSE q[i - 1] \o ss[i]]
    <3>1. ASSUME NEW i \in 1..Len(ss)
          PROVE  q[i] = IF i = 1 THEN ss[i] ELSE q[i - 1] \o ss[i]
      <4>1. CASE i = 1
        BY <2>1, <4>1
      <4>2. CASE i # 1
        <5>1. i - 1 \in 1..Len(ss)
          BY <1>1, <4>2
        <5> QED
          BY <4>2, <5>1 DEF Joins
      <4> QED
        BY <4>1, <4>2
    <3>2. q = [i \in 1..Len(ss) |-> q[i]]
      OBVIOUS
    <3> HIDE DEF q
    <3> QED
      BY <3>1, <3>2
  <2>3. f = [i \in 1..Len(ss) |-> IF i = 1 THEN ss[i] ELSE f[i - 1] \o ss[i]]
    <3> HIDE DEF q
    <3> QED
      BY <2>2 DEF Flatten
  <2>4. FlattenSeq(ss) = f[Len(ss)]
    BY <1>3 DEF FlattenSeq, Flatten
  <2> HIDE DEF f, q
  <2>5. ASSUME NEW k \in 1..Len(ss), k - 1 \in T PROVE k \in T
    <3>1. CASE k = 1
      BY <1>1, <2>1, <2>3, <3>1
    <3>2. CASE k # 1
      <4>1. f[k - 1] = r[k - 1] /\ k \in 0..Len(ss)
        BY <1>1, <2>5, <3>2
      <4>2. f[k] = f[k - 1] \o ss[k]
        BY <2>3, <3>2
      <4>3. f[k] = r[k]
        BY <4>1, <4>2 DEF Joins
      <4> QED
        BY <4>1, <4>3
    <3> QED
      BY <3>1, <3>2
  <2>6. 0 \in T
    BY <1>1
  <2> HIDE DEF T
  <2>7. 0..Len(ss) \subseteq T
    <3>1. \A k \in 1..Len(ss) : k - 1 \in T => k \in T
      BY <2>5
    <3> QED
      BY <1>1, <2>6, <3>1, Induction
  <2> QED
    BY <1>1, <1>3, <2>4, <2>7 DEF T
<1> QED
  BY <1>2, <1>3

LEMMA JoinsExists ==
  ASSUME NEW S, NEW ss \in Seq(Seq(S))
  PROVE  \E r \in [0..Len(ss) -> Seq(S)] : Joins(r, ss)
<1> DEFINE step == [k \in 1..Len(ss) |-> [v \in Seq(S) |-> v \o ss[k]]]
<1>1. Len(ss) \in Nat /\ \A k \in 1..Len(ss) : ss[k] \in Seq(S)
  BY LenProperties, ElementOfSeq
<1>2. \A k \in 1..Len(ss) : \A v \in Seq(S) : v \o ss[k] \in Seq(S)
  BY <1>1, ConcatProperties
<1>3. step \in [1..Len(ss) -> [Seq(S) -> Seq(S)]]
  BY <1>2
<1>4. <<>> \in Seq(S)
  BY EmptySeq
<1>5. HasRun(Seq(S), <<>>, Len(ss), step)
  <2> HIDE DEF step
  <2> QED
    BY <1>1, <1>3, <1>4, Recursion
<1>6. PICK r \in [0..Len(ss) -> Seq(S)] :
        r[0] = <<>> /\ \A k \in 1..Len(ss) : r[k] = step[k][r[k - 1]]
  BY <1>5 DEF HasRun
<1>7. \A k \in 1..Len(ss) : r[k] = r[k - 1] \o ss[k]
  <2> SUFFICES ASSUME NEW k \in 1..Len(ss) PROVE r[k] = r[k - 1] \o ss[k]
    OBVIOUS
  <2>1. k - 1 \in 0..Len(ss)
    BY <1>1
  <2>2. r[k - 1] \in Seq(S)
    BY <2>1
  <2> QED
    BY <1>6, <2>2
<1>8. Joins(r, ss)
  BY <1>6, <1>7 DEF Joins
<1> QED
  BY <1>8

LEMMA FlattenAppend ==
  ASSUME NEW S, NEW ss \in Seq(Seq(S)), NEW x \in Seq(S)
  PROVE  /\ FlattenSeq(ss) \in Seq(S)
         /\ FlattenSeq(Append(ss, x)) = FlattenSeq(ss) \o x
<1>1. PICK tt : tt = Append(ss, x)
  OBVIOUS
<1>2. /\ tt \in Seq(Seq(S)) /\ Len(tt) = Len(ss) + 1 /\ Len(ss) \in Nat
      /\ tt[Len(ss) + 1] = x /\ \A k \in 1..Len(ss) : tt[k] = ss[k]
  BY <1>1, AppendProperties, LenProperties
<1>3. PICK r \in [0..Len(tt) -> Seq(S)] : Joins(r, tt)
  BY <1>2, JoinsExists
<1>4. Joins(r, ss)
  <2>1. \A k \in 1..Len(ss) : k \in 1..Len(tt)
    BY <1>2
  <2> QED
    BY <1>2, <1>3, <2>1 DEF Joins
<1>5. FlattenSeq(tt) = r[Len(tt)] /\ FlattenSeq(ss) = r[Len(ss)]
  BY <1>2, <1>3, <1>4, FlattenJoins
<1>6. r[Len(ss)] \in Seq(S)
  BY <1>2, <1>3
<1>7. r[Len(tt)] = r[Len(ss)] \o x
  <2>1. Len(tt) \in 1..Len(tt) /\ Len(tt) - 1 = Len(ss) /\ tt[Len(tt)] = x
    BY <1>2
  <2> QED
    BY <1>3, <2>1 DEF Joins
<1> QED
  BY <1>1, <1>5, <1>6, <1>7
LEMMA FlattenType ==
  ASSUME NEW S, NEW ss \in Seq(Seq(S))
  PROVE  FlattenSeq(ss) \in Seq(S)
<1>1. PICK r \in [0..Len(ss) -> Seq(S)] : Joins(r, ss)
  BY JoinsExists
<1>2. FlattenSeq(ss) = r[Len(ss)] /\ Len(ss) \in 0..Len(ss)
  BY <1>1, FlattenJoins, LenProperties
<1> QED
  BY <1>1, <1>2

Regroups(a, b, c) == (a \o b) \o c = a \o (b \o c)

LEMMA Regroup ==
  ASSUME NEW S, NEW a \in Seq(S), NEW b \in Seq(S), NEW c \in Seq(S)
  PROVE  Regroups(a, b, c)
BY ConcatAssociative DEF Regroups

\* Flattening two lists behind each other is flattening each.
LEMMA FlattenConcat ==
  ASSUME NEW S, NEW ss \in Seq(Seq(S)), NEW tt \in Seq(Seq(S))
  PROVE  FlattenSeq(ss \o tt) = FlattenSeq(ss) \o FlattenSeq(tt)
<1>1. PICK n \in Nat, m \in Nat : n = Len(ss) /\ m = Len(tt)
  BY LenProperties
<1>2. PICK uu : uu = ss \o tt
  OBVIOUS
<1>3. /\ uu \in Seq(Seq(S)) /\ Len(uu) = n + m
      /\ \A k \in 1..(n + m) : uu[k] = IF k <= n THEN ss[k] ELSE tt[k - n]
  BY <1>1, <1>2, ConcatProperties
<1>4. PICK r \in [0..n -> Seq(S)] : Joins(r, ss)
  BY <1>1, JoinsExists
<1>5. PICK q \in [0..m -> Seq(S)] : Joins(q, tt)
  BY <1>1, JoinsExists
<1>6. /\ r[0] = <<>> /\ (\A k \in 1..n : r[k] = r[k - 1] \o ss[k])
      /\ q[0] = <<>> /\ \A k \in 1..m : q[k] = q[k - 1] \o tt[k]
  BY <1>1, <1>4, <1>5 DEF Joins
<1>7. PICK last : last = r[n]
  OBVIOUS
<1>8. last \in Seq(S)
  BY <1>7
<1>9. PICK v : v = [k \in 0..(n + m) |-> IF k <= n THEN r[k] ELSE last \o q[k - n]]
  OBVIOUS
<1>10. \A k \in 0..n : v[k] = r[k]
  BY <1>9
<1>11. ASSUME NEW j \in 0..m PROVE v[n + j] = last \o q[j]
  <2>1. CASE j = 0
    <3>1. n \in 0..n /\ n + j = n
      BY <2>1
    <3>2. last \o <<>> = last
      BY <1>8, ConcatEmptySeq
    <3> QED
      BY <1>6, <1>7, <1>10, <2>1, <3>1, <3>2
  <2>2. CASE j # 0
    <3>1. n + j \in 0..(n + m) /\ ~(n + j <= n) /\ (n + j) - n = j
      BY <2>2
    <3> QED
      BY <1>9, <3>1
  <2> QED
    BY <2>1, <2>2
<1>12. ASSUME NEW k \in 1..(n + m) PROVE v[k] = v[k - 1] \o uu[k]
  <2>1. CASE k <= n
    <3>1. k \in 1..n /\ k \in 0..n /\ k - 1 \in 0..n
      BY <2>1
    <3> QED
      BY <1>3, <1>6, <1>10, <2>1, <3>1
  <2>2. CASE ~(k <= n)
    <3>1. PICK j \in 1..m : k = n + j
      <4>1. k - n \in 1..m /\ k = n + (k - n)
        BY <2>2
      <4> QED
        BY <4>1
    <3>2. j \in 0..m /\ j - 1 \in 0..m /\ k - 1 = n + (j - 1) /\ k - n = j
      BY <3>1
    <3>3. v[k] = last \o (q[j - 1] \o tt[j])
      BY <1>6, <1>11, <3>1, <3>2
    <3>4. v[k - 1] = last \o q[j - 1] /\ uu[k] = tt[j]
      BY <1>3, <1>11, <2>2, <3>2
    <3>5. PICK a, b : a = q[j - 1] /\ b = tt[j]
      OBVIOUS
    <3>6. a \in Seq(S) /\ b \in Seq(S)
      BY <1>1, <3>2, <3>5, ElementOfSeq
    <3>7. (last \o a) \o b = last \o (a \o b)
      <4>1. Regroups(last, a, b)
        BY <1>8, <3>6, Regroup
      <4> QED
        BY <4>1, Zenon DEF Regroups
    <3> QED
      BY <3>3, <3>4, <3>5, <3>7
  <2> QED
    BY <2>1, <2>2
<1>13. Joins(v, uu)
  <2>1. v[0] = <<>>
    BY <1>6, <1>10
  <2> QED
    BY <1>3, <1>12, <2>1 DEF Joins
<1>14. /\ FlattenSeq(uu) = v[n + m] /\ FlattenSeq(ss) = last /\ FlattenSeq(tt) = q[m]
  BY <1>1, <1>3, <1>4, <1>5, <1>7, <1>13, FlattenJoins
<1>15. v[n + m] = last \o q[m]
  BY <1>11
<1> QED
  BY <1>2, <1>14, <1>15

\* Of parts that are empty but for one, that one is left.
LEMMA FlattenOne ==
  ASSUME NEW S, NEW ss \in Seq(Seq(S)), NEW one \in 1..Len(ss),
         \A k \in 1..Len(ss) : k # one => ss[k] = <<>>
  PROVE  FlattenSeq(ss) = ss[one]
<1>1. Len(ss) \in Nat /\ ss[one] \in Seq(S)
  BY LenProperties, ElementOfSeq
<1>2. PICK r : r = [k \in 0..Len(ss) |-> IF k < one THEN <<>> ELSE ss[one]]
  OBVIOUS
<1>3. ASSUME NEW k \in 1..Len(ss) PROVE r[k] = r[k - 1] \o ss[k]
  <2>1. k \in 0..Len(ss) /\ k - 1 \in 0..Len(ss)
    BY <1>1
  <2>2. CASE k = one
    <3>1. r[k] = ss[k] /\ r[k - 1] = <<>>
      BY <1>1, <1>2, <2>1, <2>2
    <3> QED
      BY <1>1, <2>2, <3>1, ConcatEmptySeq
  <2>3. CASE k # one
    <3>1. ss[k] = <<>> /\ r[k] = r[k - 1] /\ r[k] \in Seq(S)
      BY <1>1, <1>2, <2>1, <2>3, EmptySeq
    <3> QED
      BY <3>1, ConcatEmptySeq
  <2> QED
    BY <2>2, <2>3
<1>4. r[0] = <<>> /\ r[Len(ss)] = ss[one]
  BY <1>1, <1>2
<1> QED
  BY <1>3, <1>4, FlattenJoins DEF Joins

LEMMA FlattenNone ==
  ASSUME NEW S, NEW ss \in Seq(Seq(S)), \A k \in 1..Len(ss) : ss[k] = <<>>
  PROVE  FlattenSeq(ss) = <<>>
<1>1. Len(ss) \in Nat /\ <<>> \in Seq(S)
  BY LenProperties, EmptySeq
<1>2. PICK r : r = [k \in 0..Len(ss) |-> <<>>]
  OBVIOUS
<1>3. <<>> \o <<>> = <<>>
  BY <1>1, ConcatEmptySeq
<1>4. r[0] = <<>> /\ r[Len(ss)] = <<>> /\ \A k \in 1..Len(ss) : r[k] = r[k - 1] \o ss[k]
  BY <1>1, <1>2, <1>3
<1> QED
  BY <1>4, FlattenJoins DEF Joins
-----------------------------------------------------------------------------
(* Where the parts of a list lie in it. *)

\* s lies in h behind the first p elements.
Lies(s, h, p) ==
  /\ p \in Nat /\ p + Len(s) <= Len(h)
  /\ \A j \in 1..Len(s) : h[p + j] = s[j]

LEMMA LiesWhole ==
  ASSUME NEW S, NEW s \in Seq(S)
  PROVE  Lies(s, s, 0)
BY LenProperties DEF Lies

LEMMA LiesConcat ==
  ASSUME NEW S, NEW s \in Seq(S), NEW t \in Seq(S), NEW h, NEW p, Lies(s \o t, h, p),
         Len(h) \in Nat
  PROVE  Lies(s, h, p) /\ Lies(t, h, p + Len(s)) /\ Len(s \o t) = Len(s) + Len(t)
<1>1. Len(s) \in Nat /\ Len(t) \in Nat /\ Len(s \o t) = Len(s) + Len(t) /\ p \in Nat
  BY LenProperties, ConcatProperties DEF Lies
<1>2. \A i \in 1..(Len(s) + Len(t)) :
        h[p + i] = IF i <= Len(s) THEN s[i] ELSE t[i - Len(s)]
  BY <1>1, ConcatProperties DEF Lies
<1>3. Lies(s, h, p)
  BY <1>1, <1>2 DEF Lies
<1>4. ASSUME NEW j \in 1..Len(t) PROVE h[p + Len(s) + j] = t[j]
  <2>1. Len(s) + j \in 1..(Len(s) + Len(t)) /\ ~(Len(s) + j <= Len(s))
    BY <1>1
  <2>2. p + (Len(s) + j) = p + Len(s) + j /\ (Len(s) + j) - Len(s) = j
    BY <1>1
  <2> QED
    BY <1>2, <2>1, <2>2
<1>5. p + Len(s) \in Nat /\ p + Len(s) + Len(t) <= Len(h)
  BY <1>1 DEF Lies
<1> QED
  BY <1>1, <1>3, <1>4, <1>5 DEF Lies

LEMMA LiesAt ==
  ASSUME NEW S, NEW s \in Seq(S), NEW h \in Seq(S), NEW p, Lies(s, h, p)
  PROVE  SubSeq(h, p + 1, p + Len(s)) = s
<1>1. Len(s) \in Nat /\ Len(h) \in Nat /\ p \in Nat /\ p + Len(s) <= Len(h)
  BY LenProperties DEF Lies
<1>2. PICK t : t = SubSeq(h, p + 1, p + Len(s))
  OBVIOUS
<1>3. \A i \in (p + 1)..(p + Len(s)) : h[i] \in S
  <2>1. \A i \in (p + 1)..(p + Len(s)) : i \in 1..Len(h)
    BY <1>1
  <2> QED
    BY <2>1, ElementOfSeq
<1>0. PICK m \in Int, n \in Int : m = p + 1 /\ n = p + Len(s)
  BY <1>1
<1>4. /\ t \in Seq(S)
      /\ Len(t) = IF m <= n THEN n - m + 1 ELSE 0
      /\ \A i \in 1..(n - m + 1) : t[i] = h[m + i - 1]
  <2>1. \A i \in m..n : h[i] \in S
    BY <1>0, <1>3
  <2>2. t = SubSeq(h, m, n)
    BY <1>0, <1>2
  <2> QED
    BY <2>1, <2>2, SubSeqProperties
<1>5. Len(t) = Len(s)
  BY <1>0, <1>1, <1>4
<1>6. ASSUME NEW i \in 1..Len(s) PROVE t[i] = s[i]
  <2>1. i \in 1..(n - m + 1) /\ m + i - 1 = p + i
    BY <1>0, <1>1
  <2>2. t[i] = h[p + i]
    BY <1>4, <2>1
  <2> QED
    BY <2>2 DEF Lies
<1> QED
  BY <1>2, <1>4, <1>5, <1>6, SeqEqual

\* at[k] elements come before and with the part k of a list put together.
PartsLie(ss, h, p, at) ==
  /\ at \in [0..Len(ss) -> Nat]
  /\ at[0] = p /\ at[Len(ss)] = p + Len(FlattenSeq(ss))
  /\ \A k \in 1..Len(ss) : at[k] = at[k - 1] + Len(ss[k]) /\ Lies(ss[k], h, at[k - 1])

LEMMA LiesFlatten ==
  ASSUME NEW S, NEW ss \in Seq(Seq(S)), NEW h, NEW p, Lies(FlattenSeq(ss), h, p),
         Len(h) \in Nat
  PROVE  \E at : PartsLie(ss, h, p, at)
<1>1. PICK n \in Nat : n = Len(ss)
  BY LenProperties
<1>2. PICK r \in [0..n -> Seq(S)] : Joins(r, ss)
  BY <1>1, JoinsExists
<1>3. FlattenSeq(ss) = r[n] /\ r[0] = <<>> /\ p \in Nat
  BY <1>1, <1>2, FlattenJoins DEF Joins, Lies
<1>4. ASSUME NEW k \in 1..n, Lies(r[k], h, p)
      PROVE  /\ Lies(r[k - 1], h, p) /\ Lies(ss[k], h, p + Len(r[k - 1]))
             /\ Len(r[k]) = Len(r[k - 1]) + Len(ss[k])
  <2>0. ss[k] \in Seq(S)
    BY <1>1, ElementOfSeq
  <2>1. k - 1 \in 0..n /\ k \in 1..Len(ss)
    BY <1>1
  <2>3. r[k] = r[k - 1] \o ss[k]
    BY <1>2, <2>1 DEF Joins
  <2>2. r[k - 1] \in Seq(S)
    BY <1>2, <2>1
  <2> QED
    BY <1>4, <2>0, <2>2, <2>3, LiesConcat
<1> DEFINE T == {m \in 0..n : Lies(r[n - m], h, p)}
<1>5. 0 \in T
  BY <1>3
<1>6. ASSUME NEW m \in 1..n, m - 1 \in T PROVE m \in T
  <2>1. n - (m - 1) \in 1..n /\ (n - (m - 1)) - 1 = n - m
    OBVIOUS
  <2>2. Lies(r[n - (m - 1)], h, p)
    BY <1>6
  <2>3. Lies(r[(n - (m - 1)) - 1], h, p)
    BY <1>4, <2>1, <2>2
  <2>4. Lies(r[n - m], h, p) /\ m \in 0..n
    BY <2>1, <2>3
  <2> QED
    BY <2>4
<1> HIDE DEF T
<1>7. 0..n \subseteq T
  BY <1>5, <1>6, Induction
<1>8. ASSUME NEW k \in 0..n PROVE Lies(r[k], h, p)
  <2>1. n - k \in T /\ n - (n - k) = k
    BY <1>7
  <2> QED
    BY <2>1 DEF T
<1>9. PICK at : at = [k \in 0..n |-> p + Len(r[k])]
  OBVIOUS
<1>10. \A k \in 0..n : Len(r[k]) \in Nat /\ at[k] \in Nat
  BY <1>2, <1>3, <1>9, LenProperties, SMTT(40)
<1>11. ASSUME NEW k \in 1..n
       PROVE  at[k] = at[k - 1] + Len(ss[k]) /\ Lies(ss[k], h, at[k - 1])
  <2>1. k \in 0..n /\ k - 1 \in 0..n /\ ss[k] \in Seq(S)
    BY <1>1, ElementOfSeq
  <2>2. Len(r[k]) = Len(r[k - 1]) + Len(ss[k]) /\ Lies(ss[k], h, p + Len(r[k - 1]))
    BY <1>4, <1>8, <2>1
  <2>3. Len(r[k - 1]) \in Nat /\ Len(ss[k]) \in Nat
    BY <1>10, <2>1, LenProperties
  <2>4. at[k] = p + Len(r[k]) /\ at[k - 1] = p + Len(r[k - 1])
    BY <1>9, <2>1
  <2>5. PICK a \in Nat, b \in Nat : a = Len(r[k - 1]) /\ b = Len(ss[k])
    BY <2>3
  <2>6. Len(r[k]) = a + b
    BY <2>2, <2>5
  <2>7. at[k] = p + (a + b) /\ at[k - 1] = p + a
    BY <2>4, <2>5, <2>6
  <2>8. at[k] = at[k - 1] + b
    BY <1>3, <2>7
  <2> QED
    BY <2>2, <2>4, <2>5, <2>8
<1>12. at[0] = p /\ at[n] = p + Len(r[n])
  <2>1. Len(r[0]) = 0 /\ 0 \in 0..n /\ n \in 0..n
    BY <1>3, EmptySeq
  <2>2. at[0] = p + Len(r[0]) /\ at[n] = p + Len(r[n])
    BY <1>9, <2>1
  <2>3. at[0] = p + 0
    BY <2>1, <2>2
  <2> QED
    BY <1>3, <2>2, <2>3
<1>13. at \in [0..n -> Nat]
  BY <1>9, <1>10
<1> QED
  BY <1>1, <1>3, <1>11, <1>12, <1>13 DEF PartsLie
=============================================================================
