----------------------------- MODULE SortingProofs -----------------------------
(***************************************************************************)
(* Proofs about the program of module SortingProgram: what is written is   *)
(* what the files hold, and in order where the numbers can be compared     *)
(* and no malloc failed, for any number of files of any length.            *)
(*                                                                         *)
(* The library under the program is the one of module Coro, so what is     *)
(* proved there of all programs is used here.  The rest is built from      *)
(* below: what merge makes of two sequences, what the frames on the stack  *)
(* of a coroutine say of its array, the coroutines, and main.              *)
(***************************************************************************)
EXTENDS SortingProperties, SequenceTheorems, FiniteSetTheorems, NaturalsInduction,
        WellFoundedInduction, TLAPS

\* How often a number is in a sequence.
Places(s, x) == {i \in DOMAIN s : s[i] = x}
Count(s, x) == Cardinality(Places(s, x))

\* The same numbers, each as often.
Same(s, t) == Len(s) = Len(t) /\ \A x \in Int : Count(s, x) = Count(t, x)

LEMMA ItemIsInRange ==
    ASSUME NEW s \in Seq(Int), NEW i \in 1 .. Len(s)
    PROVE  s[i] \in Range(s)
  BY LenProperties, Zenon DEF Range

LEMMA CountFacts ==
    ASSUME NEW s \in Seq(Int), NEW x
    PROVE  /\ IsFiniteSet(Places(s, x)) /\ Count(s, x) \in Nat
           /\ Count(s, x) # 0 <=> x \in Range(s)
<1>1. DOMAIN s = 1 .. Len(s) /\ Len(s) \in Nat
  BY LenProperties
<1>2. IsFiniteSet(1 .. Len(s))
  BY <1>1, FS_Interval
<1>3. Places(s, x) \in SUBSET (1 .. Len(s))
  BY <1>1 DEF Places
<1>4. IsFiniteSet(Places(s, x))
  BY <1>2, <1>3, FS_Subset
<1>5. Count(s, x) \in Nat
  BY <1>4, FS_CardinalityType DEF Count
<1>6. Count(s, x) = 0 <=> Places(s, x) = {}
  BY <1>4, FS_EmptySet DEF Count
<1>7. Places(s, x) # {} <=> x \in Range(s)
  BY DEF Places, Range
<1> QED
  BY <1>4, <1>5, <1>6, <1>7

LEMMA CountConcat ==
    ASSUME NEW s \in Seq(Int), NEW t \in Seq(Int), NEW x
    PROVE  Count(s \o t, x) = Count(s, x) + Count(t, x)
<1> DEFINE n == Len(s)
           A == Places(s, x)
           B == Places(t, x)
           C == {i \in n + 1 .. n + Len(t) : t[i - n] = x}
<1>1. /\ s \o t \in Seq(Int) /\ Len(s \o t) = n + Len(t) /\ n \in Nat /\ Len(t) \in Nat
      /\ DOMAIN s = 1 .. n /\ DOMAIN t = 1 .. Len(t) /\ DOMAIN (s \o t) = 1 .. n + Len(t)
      /\ \A i \in 1 .. n + Len(t) : (s \o t)[i] = IF i <= n THEN s[i] ELSE t[i - n]
  BY ConcatProperties, LenProperties
<1>2. Places(s \o t, x) = A \cup C
  <2>1. ASSUME NEW i \in 1 .. n + Len(t) PROVE i \in Places(s \o t, x) <=> i \in A \cup C
    <3>1. CASE i <= n
      <4>1. i \in 1 .. n /\ i \notin n + 1 .. n + Len(t) /\ (s \o t)[i] = s[i]
        BY <1>1, <3>1
      <4> QED
        BY <1>1, <4>1 DEF Places
    <3>2. CASE ~(i <= n)
      <4>1. i \notin 1 .. n /\ i \in n + 1 .. n + Len(t) /\ (s \o t)[i] = t[i - n]
        BY <1>1, <3>2
      <4> QED
        BY <1>1, <4>1 DEF Places
    <3> QED
      BY <3>1, <3>2
  <2>2. A \cup C \subseteq 1 .. n + Len(t) /\ Places(s \o t, x) \subseteq 1 .. n + Len(t)
    BY <1>1 DEF Places
  <2> QED
    BY <2>1, <2>2
<1>3. A \cap C = {}
  BY <1>1 DEF Places
<1>4. IsFiniteSet(A) /\ IsFiniteSet(B)
  BY CountFacts
<1>5. IsFiniteSet(C) /\ Cardinality(C) = Cardinality(B)
  <2> DEFINE f == [i \in B |-> i + n]
  <2>1. \A i \in B : i \in 1 .. Len(t) /\ t[i] = x
    BY <1>1 DEF Places
  <2>2. \A i \in B : i + n \in C
    <3> SUFFICES ASSUME NEW i \in B PROVE i + n \in C
      OBVIOUS
    <3>1. i \in 1 .. Len(t) /\ t[i] = x /\ i + n - n = i /\ i + n \in n + 1 .. n + Len(t)
      BY <1>1, <2>1
    <3> QED
      BY <3>1
  <2>3. \A j \in C : j - n \in B /\ j - n + n = j
    BY <1>1 DEF Places
  <2>4. f \in [B -> C]
    BY <2>2
  <2>5. \A i, j \in B : f[i] = f[j] => i = j
    BY <1>1, <2>1
  <2>6. \A j \in C : \E i \in B : f[i] = j
    BY <2>3
  <2> HIDE DEF f
  <2>7. f \in Bijection(B, C)
    BY <2>4, <2>5, <2>6 DEF Bijection, Injection, Surjection, IsInjective
  <2>8. ExistsBijection(B, C)
    BY <2>7 DEF ExistsBijection
  <2> QED
    BY <1>4, <2>8, FS_Bijection
<1>6. Cardinality(A \cup C) = Cardinality(A) + Cardinality(C) - Cardinality(A \cap C)
  BY <1>4, <1>5, FS_Union
<1>7. Cardinality(A) \in Nat /\ Cardinality(C) \in Nat
  BY <1>4, <1>5, FS_CardinalityType
<1>8. Cardinality(A \cap C) = 0
  BY <1>3, FS_EmptySet
<1> HIDE DEF A, B, C
<1>9. Cardinality(A \cup C) = Cardinality(A) + Cardinality(B)
  BY <1>5, <1>6, <1>7, <1>8
<1> QED
  BY <1>2, <1>9 DEF Count, A, B

LEMMA SameFacts ==
    ASSUME NEW s \in Seq(Int), NEW t \in Seq(Int), Same(s, t)
    PROVE  /\ Same(t, s) /\ Range(s) = Range(t)
           /\ \A u \in Seq(Int) : Same(t, u) => Same(s, u)
           /\ ToBag(s) = ToBag(t)
<1>1. Same(t, s) /\ \A u \in Seq(Int) : Same(t, u) => Same(s, u)
  BY DEF Same
<1>2. Range(s) \subseteq Int /\ Range(t) \subseteq Int
  BY DEF Range
<1>3. \A x \in Int : x \in Range(s) <=> x \in Range(t)
  BY CountFacts DEF Same
<1>4. Range(s) = Range(t)
  BY <1>2, <1>3
<1>5. \A x \in Range(s) : Count(s, x) = Count(t, x)
  BY <1>2 DEF Same
<1>6. ToBag(s) = ToBag(t)
  BY <1>4, <1>5 DEF ToBag, Count, Places
<1> QED
  BY <1>1, <1>4, <1>6

LEMMA SameConcat ==
    ASSUME NEW s \in Seq(Int), NEW t \in Seq(Int), NEW u \in Seq(Int), NEW v \in Seq(Int),
           Same(s, t), Same(u, v)
    PROVE  Same(s \o u, t \o v)
<1>1. Len(s \o u) = Len(s) + Len(u) /\ Len(t \o v) = Len(t) + Len(v)
  BY ConcatProperties
<1>2. \A x : Count(s \o u, x) = Count(s, x) + Count(u, x) /\ Count(t \o v, x) = Count(t, x) + Count(v, x)
  BY CountConcat
<1> QED
  BY <1>1, <1>2, Zenon DEF Same

LEMMA SameSwap ==
    ASSUME NEW s \in Seq(Int), NEW t \in Seq(Int), NEW u \in Seq(Int)
    PROVE  Same(s \o (t \o u), t \o (s \o u))
<1>1. t \o u \in Seq(Int) /\ s \o u \in Seq(Int)
  BY ConcatProperties
<1>2. /\ Len(t \o u) = Len(t) + Len(u) /\ Len(s \o u) = Len(s) + Len(u)
      /\ Len(s \o (t \o u)) = Len(s) + Len(t \o u) /\ Len(t \o (s \o u)) = Len(t) + Len(s \o u)
  BY <1>1, ConcatProperties
<1>3. Len(s) \in Nat /\ Len(t) \in Nat /\ Len(u) \in Nat
  BY LenProperties
<1>4. Len(s \o (t \o u)) = Len(t \o (s \o u))
  BY <1>2, <1>3
<1>5. ASSUME NEW x PROVE Count(s \o (t \o u), x) = Count(t \o (s \o u), x)
  <2>3. Count(s \o (t \o u), x) = Count(s, x) + Count(t \o u, x)
    <3>1. PICK p \in Seq(Int) : p = t \o u
      BY <1>1, Zenon
    <3>2. Count(s \o p, x) = Count(s, x) + Count(p, x)
      BY CountConcat
    <3> QED
      BY <3>1, <3>2, Zenon
  <2>4. Count(t \o (s \o u), x) = Count(t, x) + Count(s \o u, x)
    <3>1. PICK p \in Seq(Int) : p = s \o u
      BY <1>1, Zenon
    <3>2. Count(t \o p, x) = Count(t, x) + Count(p, x)
      BY CountConcat
    <3> QED
      BY <3>1, <3>2, Zenon
  <2>1. /\ Count(t \o u, x) = Count(t, x) + Count(u, x)
        /\ Count(s \o u, x) = Count(s, x) + Count(u, x)
    BY CountConcat
  <2>2. Count(s, x) \in Nat /\ Count(t, x) \in Nat /\ Count(u, x) \in Nat
    BY CountFacts
  <2> QED
    BY <2>1, <2>2, <2>3, <2>4
<1> QED
  BY <1>4, <1>5 DEF Same

LEMMA LeastNumber ==
    ASSUME NEW S \in SUBSET Nat, S # {}
    PROVE  \E m \in S : \A n \in S : m <= n
<1>1. \E m \in S : \A n \in S : ~(<<n, m>> \in OpToRel(<, Nat))
  BY NatLessThanWellFounded, WFMin
<1>2. ASSUME NEW m \in S, NEW n \in S, ~(<<n, m>> \in OpToRel(<, Nat)) PROVE m <= n
  <2>1. ~(<<n, m>>[1] < <<n, m>>[2])
    BY <1>2 DEF OpToRel
  <2> QED
    BY <2>1
<1> QED
  BY <1>1, <1>2

\* A set of numbers that has 0 and every number's successor up to n is 0 .. n.
LEMMA UpTo ==
    ASSUME NEW n \in Nat, NEW S, 0 \in S, \A i \in 1 .. n : i - 1 \in S => i \in S
    PROVE  \A i \in 0 .. n : i \in S
<1> DEFINE C == {i \in 0 .. n : i \notin S}
<1>1. SUFFICES ASSUME C # {} PROVE FALSE
  OBVIOUS
<1>2. PICK m \in C : \A i \in C : m <= i
  <2>1. C \in SUBSET Nat
    OBVIOUS
  <2> QED
    BY <1>1, <2>1, LeastNumber
<1>3. m # 0 /\ m \in 0 .. n /\ m \notin S
  OBVIOUS
<1>4. m - 1 \notin C /\ m \in 1 .. n /\ m - 1 \in 0 .. n
  BY <1>2, <1>3
<1>5. m - 1 \in S
  BY <1>4
<1> QED
  BY <1>3, <1>4, <1>5

-----------------------------------------------------------------------------
(* What merge makes of two sequences *)

Sorted(s) == IsSorted(s, <=)

\* No difference of two of these numbers overflows.
Fits(E) == \A a, b \in E : ~Overflows(a, b)

\* One comparison, P and Q being what can follow it.
Choice(left, right, i, j, P, Q) ==
    IF i > Len(left) \/ j > Len(right)
    THEN {Rest(left, i, right, j)}
    ELSE UNION {IF le THEN {<<left[i]>> \o s : s \in P} ELSE {<<right[j]>> \o s : s \in Q}
                : le \in NotGreater(left[i], right[j])}

Pairs(left, right) == (1 .. Len(left) + 1) \X (1 .. Len(right) + 1)

IsFrom(f, left, right) ==
    f = [p \in Pairs(left, right) |->
           Choice(left, right, p[1], p[2], f[<<p[1] + 1, p[2]>>], f[<<p[1], p[2] + 1>>])]

LEMMA PairFacts ==
    ASSUME NEW left \in Seq(Int), NEW right \in Seq(Int), NEW p \in Pairs(left, right)
    PROVE  /\ p[1] \in 1 .. Len(left) + 1 /\ p[2] \in 1 .. Len(right) + 1 /\ p = <<p[1], p[2]>>
           /\ ~(p[1] > Len(left) \/ p[2] > Len(right)) =>
                /\ <<p[1] + 1, p[2]>> \in Pairs(left, right) /\ <<p[1], p[2] + 1>> \in Pairs(left, right)
                /\ p[1] \in 1 .. Len(left) /\ p[2] \in 1 .. Len(right)
<1>1. p[1] \in 1 .. Len(left) + 1 /\ p[2] \in 1 .. Len(right) + 1 /\ p = <<p[1], p[2]>>
  BY DEF Pairs
<1>2. Len(left) \in Nat /\ Len(right) \in Nat
  BY LenProperties
<1>3. ASSUME NEW i \in 1 .. Len(left) + 1, NEW j \in 1 .. Len(right) + 1,
             ~(i > Len(left) \/ j > Len(right))
      PROVE  /\ <<i + 1, j>> \in Pairs(left, right) /\ <<i, j + 1>> \in Pairs(left, right)
             /\ i \in 1 .. Len(left) /\ j \in 1 .. Len(right)
  <2>1. i \in 1 .. Len(left) /\ j \in 1 .. Len(right)
    BY <1>2, <1>3, SMTT(60)
  <2>2. i + 1 \in 1 .. Len(left) + 1 /\ j + 1 \in 1 .. Len(right) + 1
    BY <1>2, <2>1
  <2> QED
    BY <2>1, <2>2 DEF Pairs
<1> QED
  BY <1>1, <1>3

LEMMA SumFacts ==
    ASSUME NEW left \in Seq(Int), NEW right \in Seq(Int), NEW p \in Pairs(left, right)
    PROVE  /\ p[1] \in Nat /\ p[2] \in Nat /\ p[1] + p[2] > 0
           /\ p[1] + p[2] <= Len(left) + Len(right) + 2
<1>1. Len(left) \in Nat /\ Len(right) \in Nat
  BY LenProperties
<1>2. p[1] \in 1 .. Len(left) + 1 /\ p[2] \in 1 .. Len(right) + 1
  BY PairFacts
<1> QED
  BY <1>1, <1>2, SMTT(60)

\* The recursion of Merges has a solution: at each pair it looks at larger sums.
LEMMA FromExists ==
    ASSUME NEW left \in Seq(Int), NEW right \in Seq(Int)
    PROVE  \E f : IsFrom(f, left, right)
<1> DEFINE D == Pairs(left, right)
           M == Len(left) + Len(right) + 2
           Body(f, p) == Choice(left, right, p[1], p[2], f[<<p[1] + 1, p[2]>>], f[<<p[1], p[2] + 1>>])
           P(f, k) == \A p \in D : p[1] + p[2] > M - k => f[p] = Body(f, p)
           N == {k \in 0 .. M : \E f : f = [p \in D |-> f[p]] /\ P(f, k)}
<1>0. M \in Nat
  BY LenProperties
<1>1. 0 \in N
  <2> DEFINE f == [p \in D |-> 0]
  <2>1. f = [p \in D |-> f[p]]
    OBVIOUS
  <2>2. \A p \in D : ~(p[1] + p[2] > M - 0)
    <3> SUFFICES ASSUME NEW p \in D PROVE ~(p[1] + p[2] > M - 0)
      OBVIOUS
    <3>1. p[1] \in Nat /\ p[2] \in Nat /\ p[1] + p[2] <= M
      BY SumFacts
    <3> QED
      BY <1>0, <3>1
  <2>3. P(f, 0)
    BY <2>2
  <2> HIDE DEF f, P
  <2> QED
    BY <1>0, <2>1, <2>3
<1>2. ASSUME NEW k \in 1 .. M, k - 1 \in N PROVE k \in N
  <2>1. PICK f : f = [p \in D |-> f[p]] /\ P(f, k - 1)
    BY <1>2
  <2> DEFINE h == [p \in D |-> IF p[1] + p[2] = M - k + 1 THEN Body(f, p) ELSE f[p]]
  <2>2. h = [p \in D |-> h[p]]
    OBVIOUS
  <2>3. ASSUME NEW p \in D, p[1] + p[2] > M - k PROVE h[p] = Body(h, p)
    <3>0. p[1] \in Int /\ p[2] \in Int /\ M \in Int /\ k \in Int
      BY <1>0, SumFacts
    <3>1. h[p] = Body(f, p)
      <4>1. CASE p[1] + p[2] = M - k + 1
        BY <4>1
      <4>2. CASE p[1] + p[2] # M - k + 1
        <5>1. p[1] + p[2] > M - (k - 1)
          <6>1. p[1] + p[2] > M - k /\ p[1] + p[2] # M - k + 1
            BY <2>3, <4>2, Zenon
          <6> HIDE DEF M
          <6> QED
            BY ONLY <3>0, <6>1, SMTT(30)
        <5>2. f[p] = Body(f, p)
          BY <2>1, <5>1
        <5>3. h[p] = f[p]
          BY <4>2
        <5> QED
          BY <5>2, <5>3
      <4> QED
        BY <4>1, <4>2
    <3>2. CASE p[1] > Len(left) \/ p[2] > Len(right)
      <4> HIDE DEF h
      <4>1. Body(h, p) = {Rest(left, p[1], right, p[2])} /\ Body(f, p) = {Rest(left, p[1], right, p[2])}
        BY <3>2 DEF Choice
      <4> QED
        BY <3>1, <4>1
    <3>3. CASE ~(p[1] > Len(left) \/ p[2] > Len(right))
      <4>1. <<p[1] + 1, p[2]>> \in D /\ <<p[1], p[2] + 1>> \in D
        BY <3>3, PairFacts
      <4>2. /\ <<p[1] + 1, p[2]>>[1] + <<p[1] + 1, p[2]>>[2] # M - k + 1
            /\ <<p[1], p[2] + 1>>[1] + <<p[1], p[2] + 1>>[2] # M - k + 1
        BY <2>3, <3>0, SMTT(60)
      <4>3. h[<<p[1] + 1, p[2]>>] = f[<<p[1] + 1, p[2]>>]
        BY <4>1, <4>2
      <4>4. h[<<p[1], p[2] + 1>>] = f[<<p[1], p[2] + 1>>]
        BY <4>1, <4>2
      <4> HIDE DEF h
      <4> QED
        BY <3>1, <4>3, <4>4
    <3> QED
      BY <3>2, <3>3
  <2> HIDE DEF h, Body
  <2>4. P(h, k)
    BY <2>3
  <2> HIDE DEF P
  <2> QED
    BY <2>2, <2>4
<1>3. M \in N
  <2> HIDE DEF N
  <2>1. M \in 0 .. M
    BY <1>0
  <2> HIDE DEF M
  <2> QED
    BY <1>0, <1>1, <1>2, <2>1, UpTo
<1>4. PICK f : f = [p \in D |-> f[p]] /\ P(f, M)
  BY <1>3
<1>5. ASSUME NEW p \in D PROVE f[p] = Body(f, p)
  <2>1. p[1] + p[2] > M - M
    BY <1>0, SumFacts
  <2> QED
    BY <1>4, <2>1
<1>6. f = [p \in D |-> Body(f, p)]
  <2> HIDE DEF Body, D
  <2> QED
    BY <1>4, <1>5, Zenon
<1>7. IsFrom(f, left, right)
  BY <1>6, Zenon DEF IsFrom
<1> QED
  BY <1>7

LEMMA MergesAreFrom ==
    ASSUME NEW left \in Seq(Int), NEW right \in Seq(Int)
    PROVE  \E f : IsFrom(f, left, right) /\ Merges(left, right) = f[<<1, 1>>]
<1>1. \E f : IsFrom(f, left, right)
  BY FromExists
<1> QED
  BY <1>1, Zenon DEF Merges, Choice, Pairs, IsFrom

LEMMA UnionOfChoices ==
    ASSUME NEW B \in SUBSET BOOLEAN, NEW P, NEW Q, NEW s
    PROVE  s \in UNION {IF le THEN P ELSE Q : le \in B}
             <=> (TRUE \in B /\ s \in P) \/ (FALSE \in B /\ s \in Q)
  OBVIOUS

\* What is left of one sequence.
LEMMA SuffixFacts ==
    ASSUME NEW s \in Seq(Int), NEW i \in 1 .. Len(s) + 1
    PROVE  /\ SubSeq(s, i, Len(s)) \in Seq(Int)
           /\ i <= Len(s) => /\ SubSeq(s, i, Len(s)) = <<s[i]>> \o SubSeq(s, i + 1, Len(s))
                             /\ s[i] \in Int /\ <<s[i]>> \in Seq(Int)
           /\ i > Len(s) => SubSeq(s, i, Len(s)) = <<>>
           /\ \A x \in Range(SubSeq(s, i, Len(s))) : \E k \in i .. Len(s) : x = s[k]
           /\ Sorted(s) => Sorted(SubSeq(s, i, Len(s)))
<1> DEFINE u == SubSeq(s, i, Len(s))
<1>1. PICK n \in Nat : n = Len(s)
  BY LenProperties
<1>2. u \in Seq(Int) /\ Len(u) = n - i + 1 /\ \A k \in 1 .. n - i + 1 : u[k] = s[i + k - 1]
  BY <1>1
<1>3. ASSUME i <= Len(s)
      PROVE  u = <<s[i]>> \o SubSeq(s, i + 1, Len(s)) /\ s[i] \in Int /\ <<s[i]>> \in Seq(Int)
  <2>1. i \in 1 .. Len(s) /\ Len(s) \in i .. Len(s)
    BY <1>1, <1>3
  <2> QED
    BY <2>1, SubSeqRecursiveFirst
<1>4. i > Len(s) => u = <<>>
  BY <1>1, SubSeqEmpty
<1> HIDE DEF u
<1>5. ASSUME NEW x \in Range(u) PROVE \E k \in i .. Len(s) : x = s[k]
  <2>1. PICK k \in 1 .. n - i + 1 : x = u[k]
    BY <1>2 DEF Range
  <2>2. x = s[i + k - 1] /\ i + k - 1 \in i .. n
    BY <1>2, <2>1
  <2> QED
    BY <1>1, <2>2
<1>6. ASSUME Sorted(s) PROVE Sorted(u)
  <2>1. SUFFICES ASSUME NEW a \in 1 .. n - i + 1, NEW b \in 1 .. n - i + 1, a < b PROVE u[a] <= u[b]
    BY <1>2 DEF Sorted, IsSorted
  <2>2. i + a - 1 \in 1 .. n /\ i + b - 1 \in 1 .. n /\ i + a - 1 < i + b - 1
    BY <1>1, <2>1
  <2>3. s[i + a - 1] <= s[i + b - 1]
    BY <1>1, <1>6, <2>2 DEF Sorted, IsSorted
  <2> QED
    BY <1>2, <2>3
<1> QED
  BY <1>2, <1>3, <1>4, <1>5, <1>6 DEF u

LEMMA RestFacts ==
    ASSUME NEW left \in Seq(Int), NEW right \in Seq(Int), NEW i \in 1 .. Len(left) + 1,
           NEW j \in 1 .. Len(right) + 1
    PROVE  /\ Rest(left, i, right, j) \in Seq(Int)
           /\ \A x \in Range(Rest(left, i, right, j)) :
                \/ \E k \in i .. Len(left) : x = left[k]
                \/ \E k \in j .. Len(right) : x = right[k]
           /\ i > Len(left) => Rest(left, i, right, j) = SubSeq(right, j, Len(right))
           /\ j > Len(right) => Rest(left, i, right, j) = SubSeq(left, i, Len(left))
           /\ i = 1 /\ j = 1 => Rest(left, i, right, j) = left \o right
<1> DEFINE u == SubSeq(left, i, Len(left))
           v == SubSeq(right, j, Len(right))
<1>1. u \in Seq(Int) /\ v \in Seq(Int)
  BY SuffixFacts
<1>2. ASSUME NEW x \in Range(u \o v) PROVE x \in Range(u) \/ x \in Range(v)
  <2>1. Count(u \o v, x) # 0
    <3>1. u \o v \in Seq(Int)
      BY <1>1, ConcatProperties
    <3> QED
      BY <1>2, <3>1, CountFacts
  <2>2. Count(u \o v, x) = Count(u, x) + Count(v, x)
    <3>1. PICK p \in Seq(Int) : p = u
      BY <1>1, Zenon
    <3>2. PICK q \in Seq(Int) : q = v
      BY <1>1, Zenon
    <3>3. Count(p \o q, x) = Count(p, x) + Count(q, x)
      BY ONLY CountConcat, p \in Seq(Int), q \in Seq(Int)
    <3> QED
      BY <3>1, <3>2, <3>3, Zenon
  <2>3. Count(u, x) # 0 \/ Count(v, x) # 0
    BY <2>1, <2>2
  <2> QED
    BY <1>1, <2>3, CountFacts
<1>3. \A x \in Range(u) : \E k \in i .. Len(left) : x = left[k]
  BY SuffixFacts
<1>4. \A x \in Range(v) : \E k \in j .. Len(right) : x = right[k]
  BY SuffixFacts
<1>5. (i > Len(left) => u = <<>>) /\ (j > Len(right) => v = <<>>)
  BY SuffixFacts
<1>6. (i = 1 => u = left) /\ (j = 1 => v = right)
  BY SubSeqFull
<1> HIDE DEF u, v
<1>7. u \o v \in Seq(Int) /\ u \o <<>> = u /\ <<>> \o v = v
  BY <1>1, ConcatProperties, ConcatEmptySeq
<1>8. Rest(left, i, right, j) = u \o v
  BY DEF Rest, u, v
<1>9. /\ i > Len(left) => u \o v = v
      /\ j > Len(right) => u \o v = u
      /\ i = 1 /\ j = 1 => u \o v = left \o right
  BY <1>5, <1>6, <1>7
<1> QED
  BY <1>2, <1>3, <1>4, <1>7, <1>8, <1>9 DEF u, v

LEMMA ConsSorted ==
    ASSUME NEW s \in Seq(Int), NEW a \in Int, Sorted(s), \A x \in Range(s) : a <= x
    PROVE  Sorted(<<a>> \o s)
<1>1. PICK n \in Nat : n = Len(s) /\ DOMAIN s = 1 .. n
  BY LenProperties
<1>2. /\ Len(<<a>> \o s) = n + 1
      /\ \A k \in 1 .. n + 1 : (<<a>> \o s)[k] = IF k = 1 THEN a ELSE s[k - 1]
  BY <1>1
<1>3. SUFFICES ASSUME NEW k \in 1 .. n + 1, NEW m \in 1 .. n + 1, k < m
               PROVE  (<<a>> \o s)[k] <= (<<a>> \o s)[m]
  BY <1>2 DEF Sorted, IsSorted
<1>4. m # 1 /\ m - 1 \in 1 .. n /\ s[m - 1] \in Range(s)
  BY <1>1, <1>3, SMTT(60) DEF Range
<1>5. CASE k = 1
  BY <1>2, <1>4, <1>5
<1>6. CASE k # 1
  <2>1. k - 1 \in 1 .. n /\ k - 1 < m - 1
    BY <1>3, <1>6
  <2>2. s[k - 1] <= s[m - 1]
    BY <1>1, <1>4, <2>1 DEF Sorted, IsSorted
  <2> QED
    BY <1>2, <1>4, <1>6, <2>2
<1> QED
  BY <1>5, <1>6

\* What is true of everything that the two sequences can become.
Good(left, right, i, j, s) ==
    /\ s \in Seq(Int)
    /\ Same(s, Rest(left, i, right, j))
    /\ Fits(Range(left) \cup Range(right)) /\ Sorted(left) /\ Sorted(right) => Sorted(s)

LEMMA GoodAtEnd ==
    ASSUME NEW left \in Seq(Int), NEW right \in Seq(Int), NEW i \in 1 .. Len(left) + 1,
           NEW j \in 1 .. Len(right) + 1, i > Len(left) \/ j > Len(right)
    PROVE  Good(left, right, i, j, Rest(left, i, right, j))
<1>1. Rest(left, i, right, j) \in Seq(Int)
  BY RestFacts
<1>2. Same(Rest(left, i, right, j), Rest(left, i, right, j))
  BY DEF Same
<1>3. Sorted(left) /\ Sorted(right) =>
        Sorted(SubSeq(left, i, Len(left))) /\ Sorted(SubSeq(right, j, Len(right)))
  BY SuffixFacts
<1>4. Rest(left, i, right, j) \in {SubSeq(left, i, Len(left)), SubSeq(right, j, Len(right))}
  BY RestFacts, SMTT(60)
<1> QED
  BY <1>1, <1>2, <1>3, <1>4 DEF Good

IsAssociative(s, t, u) == (s \o t) \o u = s \o (t \o u)

LEMMA Associates ==
    ASSUME NEW s \in Seq(Int), NEW t \in Seq(Int), NEW u \in Seq(Int)
    PROVE  IsAssociative(s, t, u)
<1>1. ASSUME NEW S, NEW x \in Seq(S), NEW y \in Seq(S), NEW v \in Seq(S)
      PROVE  IsAssociative(x, y, v)
  BY ONLY ConcatAssociative, x \in Seq(S), y \in Seq(S), v \in Seq(S), SMTT(120) DEF IsAssociative
<1> QED
  BY <1>1, Zenon

\* The smaller number of the left sequence comes first.
LEMMA GoodFromLeft ==
    ASSUME NEW left \in Seq(Int), NEW right \in Seq(Int), NEW i \in 1 .. Len(left),
           NEW j \in 1 .. Len(right), TRUE \in NotGreater(left[i], right[j]),
           NEW t, Good(left, right, i + 1, j, t)
    PROVE  Good(left, right, i, j, <<left[i]>> \o t)
<1> DEFINE u == SubSeq(left, i + 1, Len(left))
           v == SubSeq(right, j, Len(right))
           r == Rest(left, i + 1, right, j)
<1>0. Len(left) \in Nat /\ Len(right) \in Nat
  BY LenProperties
<1>1. /\ i \in 1 .. Len(left) + 1 /\ i + 1 \in 1 .. Len(left) + 1 /\ i <= Len(left)
      /\ j \in 1 .. Len(right) + 1 /\ j <= Len(right)
  BY <1>0, SMTT(60)
<1>2. PICK a \in Int : a = left[i]
  OBVIOUS
<1>3. PICK b \in Int : b = right[j]
  OBVIOUS
<1>4. t \in Seq(Int) /\ r \in Seq(Int) /\ u \in Seq(Int) /\ v \in Seq(Int) /\ <<a>> \in Seq(Int)
  <2>1. t \in Seq(Int)
    BY DEF Good
  <2>2. r \in Seq(Int)
    BY <1>1, RestFacts
  <2>3. u \in Seq(Int) /\ v \in Seq(Int)
    BY <1>1, SuffixFacts
  <2> QED
    BY <2>1, <2>2, <2>3, SMTT(60)
<1>5. r = u \o v /\ Rest(left, i, right, j) = (<<a>> \o u) \o v
  <2>1. SubSeq(left, i, Len(left)) = <<a>> \o u
    BY <1>1, <1>2, SuffixFacts
  <2> QED
    BY <2>1 DEF Rest
<1>6. Same(<<a>> \o t, Rest(left, i, right, j))
  <2>1. Same(t, r) /\ Same(<<a>>, <<a>>)
    BY DEF Good, Same
  <2> HIDE DEF r, u, v
  <2>2. Same(<<a>> \o t, <<a>> \o r)
    BY <1>4, <2>1, SameConcat
  <2>3. <<a>> \o r = Rest(left, i, right, j)
    <3>1. (<<a>> \o u) \o v = <<a>> \o (u \o v)
      <4>1. IsAssociative(<<a>>, u, v)
        BY <1>4, Associates, Zenon
      <4> QED
        BY <4>1, Zenon DEF IsAssociative
    <3> QED
      BY <1>5, <3>1
  <2> QED
    BY <2>2, <2>3
<1>7. ASSUME Fits(Range(left) \cup Range(right)), Sorted(left), Sorted(right)
      PROVE  Sorted(<<a>> \o t)
  <2>1. a \in Range(left) /\ b \in Range(right)
    BY <1>2, <1>3, ItemIsInRange, Zenon
  <2>2. ~Overflows(a, b)
    BY <1>7, <2>1 DEF Fits
  <2>3. a <= b
    BY <1>2, <1>3, <2>2 DEF NotGreater
  <2>4. ASSUME NEW x \in Range(t) PROVE a <= x
    <3>1. x \in Range(r)
      <4>1. Same(t, r)
        BY DEF Good
      <4> HIDE DEF r
      <4> QED
        BY <1>4, <4>1, SameFacts
    <3>2. \/ \E k \in i + 1 .. Len(left) : x = left[k]
          \/ \E k \in j .. Len(right) : x = right[k]
      BY <1>1, <3>1, RestFacts, ZenonT(60)
    <3>3. ASSUME NEW k \in i + 1 .. Len(left), x = left[k] PROVE a <= x
      BY <1>0, <1>2, <1>7, <3>3 DEF Sorted, IsSorted
    <3>4. ASSUME NEW k \in j .. Len(right), x = right[k] PROVE a <= x
      <4>1. CASE k = j
        BY <1>3, <2>3, <3>4, <4>1
      <4>2. CASE k # j
        <5>1. k \in 1 .. Len(right) /\ j < k /\ right[k] \in Int
          BY <1>0, <4>2
        <5>2. right[j] <= right[k]
          BY <1>7, <5>1 DEF Sorted, IsSorted
        <5> QED
          BY <1>3, <2>3, <3>4, <5>1, <5>2, SMTT(60)
      <4> QED
        BY <4>1, <4>2
    <3> QED
      BY <3>2, <3>3, <3>4
  <2>5. Sorted(t)
    BY <1>7 DEF Good
  <2> QED
    BY <1>4, <2>4, <2>5, ConsSorted
<1>8. <<a>> \o t \in Seq(Int)
  BY <1>4, ConcatProperties
<1> QED
  BY <1>2, <1>6, <1>7, <1>8 DEF Good

\* Or the one of the right sequence.
LEMMA GoodFromRight ==
    ASSUME NEW left \in Seq(Int), NEW right \in Seq(Int), NEW i \in 1 .. Len(left),
           NEW j \in 1 .. Len(right), FALSE \in NotGreater(left[i], right[j]),
           NEW t, Good(left, right, i, j + 1, t)
    PROVE  Good(left, right, i, j, <<right[j]>> \o t)
<1> DEFINE u == SubSeq(left, i, Len(left))
           v == SubSeq(right, j + 1, Len(right))
           r == Rest(left, i, right, j + 1)
<1>0. Len(left) \in Nat /\ Len(right) \in Nat
  BY LenProperties
<1>1. /\ i \in 1 .. Len(left) + 1 /\ j + 1 \in 1 .. Len(right) + 1 /\ i <= Len(left)
      /\ j \in 1 .. Len(right) + 1 /\ j <= Len(right)
  BY <1>0, SMTT(60)
<1>2. PICK a \in Int : a = left[i]
  OBVIOUS
<1>3. PICK b \in Int : b = right[j]
  OBVIOUS
<1>4. t \in Seq(Int) /\ r \in Seq(Int) /\ u \in Seq(Int) /\ v \in Seq(Int) /\ <<b>> \in Seq(Int)
  <2>1. t \in Seq(Int)
    BY DEF Good
  <2>2. r \in Seq(Int)
    BY <1>1, RestFacts
  <2>3. u \in Seq(Int) /\ v \in Seq(Int)
    BY <1>1, SuffixFacts
  <2> QED
    BY <2>1, <2>2, <2>3, SMTT(60)
<1>5. r = u \o v /\ Rest(left, i, right, j) = u \o (<<b>> \o v)
  <2>1. SubSeq(right, j, Len(right)) = <<b>> \o v
    BY <1>1, <1>3, SuffixFacts
  <2> QED
    BY <2>1 DEF Rest
<1>6. Same(<<b>> \o t, Rest(left, i, right, j))
  <2>1. Same(t, r) /\ Same(<<b>>, <<b>>)
    BY DEF Good, Same
  <2> HIDE DEF r, u, v
  <2>2. Same(<<b>> \o t, <<b>> \o r)
    BY <1>4, <2>1, SameConcat
  <2>3. Same(<<b>> \o r, Rest(left, i, right, j))
    BY <1>4, <1>5, SameSwap
  <2> QED
    BY <2>2, <2>3 DEF Same
<1>7. ASSUME Fits(Range(left) \cup Range(right)), Sorted(left), Sorted(right)
      PROVE  Sorted(<<b>> \o t)
  <2>1. a \in Range(left) /\ b \in Range(right)
    BY <1>2, <1>3, ItemIsInRange, Zenon
  <2>2. ~Overflows(a, b)
    BY <1>7, <2>1 DEF Fits
  <2>3. b < a
    <3>1. NotGreater(a, b) = {a <= b} /\ FALSE \in NotGreater(a, b)
      BY <1>2, <1>3, <2>2 DEF NotGreater
    <3>2. ~(a <= b)
      BY <3>1, Zenon
    <3> QED
      BY <3>2
  <2>4. ASSUME NEW x \in Range(t) PROVE b <= x
    <3>1. x \in Range(r)
      <4>1. Same(t, r)
        BY DEF Good
      <4> HIDE DEF r
      <4> QED
        BY <1>4, <4>1, SameFacts
    <3>2. \/ \E k \in i .. Len(left) : x = left[k]
          \/ \E k \in j + 1 .. Len(right) : x = right[k]
      BY <1>1, <3>1, RestFacts, ZenonT(60)
    <3>3. ASSUME NEW k \in j + 1 .. Len(right), x = right[k] PROVE b <= x
      BY <1>0, <1>3, <1>7, <3>3 DEF Sorted, IsSorted
    <3>4. ASSUME NEW k \in i .. Len(left), x = left[k] PROVE b <= x
      <4>1. CASE k = i
        BY <1>2, <2>3, <3>4, <4>1
      <4>2. CASE k # i
        <5>1. k \in 1 .. Len(left) /\ i < k /\ left[k] \in Int
          BY <1>0, <4>2
        <5>2. left[i] <= left[k]
          BY <1>7, <5>1 DEF Sorted, IsSorted
        <5> QED
          BY <1>2, <2>3, <3>4, <5>1, <5>2, SMTT(60)
      <4> QED
        BY <4>1, <4>2
    <3> QED
      BY <3>2, <3>3, <3>4
  <2>5. Sorted(t)
    BY <1>7 DEF Good
  <2> QED
    BY <1>4, <2>4, <2>5, ConsSorted
<1>8. <<b>> \o t \in Seq(Int)
  BY <1>4, ConcatProperties
<1> QED
  BY <1>3, <1>6, <1>7, <1>8 DEF Good

\* What merge makes of two sequences are their numbers, each as often; and in
\* order, if both are and no comparison overflows.
LEMMA MergesFacts ==
    ASSUME NEW left \in Seq(Int), NEW right \in Seq(Int), NEW s \in Merges(left, right)
    PROVE  /\ s \in Seq(Int) /\ Same(s, left \o right)
           /\ Fits(Range(left) \cup Range(right)) /\ Sorted(left) /\ Sorted(right) => Sorted(s)
<1>1. PICK f : IsFrom(f, left, right) /\ Merges(left, right) = f[<<1, 1>>]
  BY MergesAreFrom
<1> DEFINE D == Pairs(left, right)
           M == Len(left) + Len(right) + 2
           AllGood(p) == \A z \in f[p] : Good(left, right, p[1], p[2], z)
           S == {k \in 0 .. M : \A p \in D : p[1] + p[2] = M - k => AllGood(p)}
<1>2. M \in Nat
  BY LenProperties
<1>3. ASSUME NEW p \in D,
             \A q \in D : q[1] + q[2] = p[1] + p[2] + 1 => AllGood(q)
      PROVE  AllGood(p)
  <2>1. p[1] \in 1 .. Len(left) + 1 /\ p[2] \in 1 .. Len(right) + 1
    BY PairFacts
  <2>2. f[p] = Choice(left, right, p[1], p[2], f[<<p[1] + 1, p[2]>>], f[<<p[1], p[2] + 1>>])
    BY <1>1 DEF IsFrom
  <2>3. SUFFICES ASSUME NEW z \in f[p] PROVE Good(left, right, p[1], p[2], z)
    OBVIOUS
  <2>4. CASE p[1] > Len(left) \/ p[2] > Len(right)
    <3>1. z = Rest(left, p[1], right, p[2])
      BY <2>2, <2>3, <2>4 DEF Choice
    <3> QED
      BY <2>1, <2>4, <3>1, GoodAtEnd
  <2>5. CASE ~(p[1] > Len(left) \/ p[2] > Len(right))
    <3> DEFINE p1 == <<p[1] + 1, p[2]>>
               p2 == <<p[1], p[2] + 1>>
               B == NotGreater(left[p[1]], right[p[2]])
               P == {<<left[p[1]]>> \o t : t \in f[p1]}
               Q == {<<right[p[2]]>> \o t : t \in f[p2]}
    <3>1. p1 \in D /\ p2 \in D /\ p[1] \in 1 .. Len(left) /\ p[2] \in 1 .. Len(right)
      BY <2>5, PairFacts
    <3>2. p1[1] + p1[2] = p[1] + p[2] + 1 /\ p2[1] + p2[2] = p[1] + p[2] + 1
      <4>1. p1[1] = p[1] + 1 /\ p1[2] = p[2] /\ p2[1] = p[1] /\ p2[2] = p[2] + 1
        OBVIOUS
      <4>2. p[1] \in Nat /\ p[2] \in Nat
        BY SumFacts
      <4> HIDE DEF p1, p2
      <4>3. p1[1] + p1[2] = (p[1] + 1) + p[2] /\ p2[1] + p2[2] = p[1] + (p[2] + 1)
        BY <4>1, Zenon
      <4>4. (p[1] + 1) + p[2] = p[1] + p[2] + 1 /\ p[1] + (p[2] + 1) = p[1] + p[2] + 1
        <5>1. PICK x \in Nat : x = p[1]
          BY <4>2
        <5>2. PICK y \in Nat : y = p[2]
          BY <4>2
        <5>3. (x + 1) + y = x + y + 1 /\ x + (y + 1) = x + y + 1
          OBVIOUS
        <5> QED
          BY <5>1, <5>2, <5>3, Zenon
      <4> QED
        BY <4>3, <4>4, Zenon
    <3>3. AllGood(p1) /\ AllGood(p2)
      BY <1>3, <3>1, <3>2
    <3>4. B \in SUBSET BOOLEAN
      BY DEF NotGreater
    <3>5. z \in UNION {IF le THEN P ELSE Q : le \in B}
      BY <2>2, <2>3, <2>5 DEF Choice
    <3>6. (TRUE \in B /\ z \in P) \/ (FALSE \in B /\ z \in Q)
      <4> HIDE DEF B, P, Q
      <4> QED
        BY <3>4, <3>5, UnionOfChoices
    <3>7. CASE TRUE \in B /\ z \in P
      <4>1. PICK t \in f[p1] : z = <<left[p[1]]>> \o t
        BY <3>7
      <4>2. Good(left, right, p[1] + 1, p[2], t)
        BY <3>3
      <4> QED
        BY <3>1, <3>7, <4>1, <4>2, GoodFromLeft
    <3>8. CASE FALSE \in B /\ z \in Q
      <4>1. PICK t \in f[p2] : z = <<right[p[2]]>> \o t
        BY <3>8
      <4>2. Good(left, right, p[1], p[2] + 1, t)
        BY <3>3
      <4> QED
        BY <3>1, <3>8, <4>1, <4>2, GoodFromRight
    <3> QED
      BY <3>6, <3>7, <3>8
  <2> QED
    BY <2>4, <2>5
<1>4. 0 \in S
  <2>1. ASSUME NEW p \in D, p[1] + p[2] = M - 0 PROVE AllGood(p)
    <3>1. \A q \in D : q[1] + q[2] # p[1] + p[2] + 1
      <4> SUFFICES ASSUME NEW q \in D PROVE q[1] + q[2] # p[1] + p[2] + 1
        OBVIOUS
      <4>1. q[1] \in Nat /\ q[2] \in Nat /\ q[1] + q[2] <= M
        BY SumFacts
      <4>2. p[1] \in Nat /\ p[2] \in Nat
        BY SumFacts
      <4> QED
        BY <1>2, <2>1, <4>1, <4>2
    <3> HIDE DEF AllGood, D
    <3> QED
      BY <1>3, <3>1
  <2> HIDE DEF AllGood, D
  <2> QED
    BY <1>2, <2>1
<1>5. ASSUME NEW k \in 1 .. M, k - 1 \in S PROVE k \in S
  <2>1. ASSUME NEW p \in D, p[1] + p[2] = M - k PROVE AllGood(p)
    <3>1. p[1] + p[2] + 1 = M - (k - 1)
      <4>1. p[1] \in Nat /\ p[2] \in Nat
        BY SumFacts
      <4> QED
        BY <1>2, <2>1, <4>1
    <3>2. \A q \in D : q[1] + q[2] = p[1] + p[2] + 1 => AllGood(q)
      <4> HIDE DEF AllGood, D
      <4> QED
        BY <1>5, <3>1
    <3> HIDE DEF AllGood, D
    <3> QED
      BY <1>3, <3>2
  <2> HIDE DEF AllGood, D
  <2> QED
    BY <2>1
<1>6. \A k \in 0 .. M : k \in S
  <2> HIDE DEF S, M
  <2> QED
    BY <1>2, <1>4, <1>5, UpTo
<1>7. <<1, 1>> \in D /\ <<1, 1>>[1] + <<1, 1>>[2] = M - (M - 2) /\ M - 2 \in 0 .. M
  <2>1. Len(left) \in Nat /\ Len(right) \in Nat
    BY LenProperties
  <2> QED
    BY <2>1 DEF Pairs
<1>8. AllGood(<<1, 1>>)
  <2> HIDE DEF AllGood, D, M
  <2> QED
    BY <1>6, <1>7
<1>9. Good(left, right, 1, 1, s)
  BY <1>1, <1>8
<1>10. Rest(left, 1, right, 1) = left \o right
  <2>1. 1 \in 1 .. Len(left) + 1 /\ 1 \in 1 .. Len(right) + 1
    BY LenProperties
  <2> QED
    BY <2>1, RestFacts, SMTT(60)
<1> QED
  BY <1>9, <1>10 DEF Good

-----------------------------------------------------------------------------
(* All the numbers of several files *)

\* f joins the first i of the sequences, for each i.
Joins(f, s) == f = [i \in 1 .. Len(s) |-> IF i = 1 THEN s[i] ELSE f[i - 1] \o s[i]]

LEMMA JoinsExist ==
    ASSUME NEW s \in Seq(Seq(Int))
    PROVE  \E f : Joins(f, s)
<1> DEFINE n == Len(s)
           E(f, i) == f[i] = IF i = 1 THEN s[i] ELSE f[i - 1] \o s[i]
           N == {k \in 0 .. n : \E f : f = [i \in 1 .. n |-> f[i]] /\ \A i \in 1 .. k : E(f, i)}
<1>0. n \in Nat
  BY LenProperties
<1> HIDE DEF n
<1>1. 0 \in N
  <2> DEFINE f == [i \in 1 .. n |-> 0]
  <2>1. f = [i \in 1 .. n |-> f[i]]
    OBVIOUS
  <2> HIDE DEF f
  <2> QED
    BY <1>0, <2>1, SMTT(60)
<1>2. ASSUME NEW k \in 1 .. n, k - 1 \in N PROVE k \in N
  <2>1. PICK f : f = [i \in 1 .. n |-> f[i]] /\ \A i \in 1 .. k - 1 : E(f, i)
    BY <1>2
  <2> DEFINE h == [i \in 1 .. n |-> IF i = k THEN IF i = 1 THEN s[i] ELSE f[i - 1] \o s[i] ELSE f[i]]
  <2>2. h = [i \in 1 .. n |-> h[i]]
    OBVIOUS
  <2>3. ASSUME NEW i \in 1 .. k PROVE E(h, i)
    <3>1. i \in 1 .. n /\ (i # 1 => i - 1 \in 1 .. n /\ i - 1 # k)
      BY <1>0, <2>3
    <3>2. i # 1 => h[i - 1] = f[i - 1]
      BY <3>1
    <3>3. h[i] = IF i = 1 THEN s[i] ELSE f[i - 1] \o s[i]
      <4>1. CASE i = k
        BY <3>1, <4>1
      <4>2. CASE i # k
        <5>1. i \in 1 .. k - 1
          BY <1>0, <4>2
        <5>2. E(f, i)
          BY <2>1, <5>1
        <5>3. h[i] = f[i]
          BY <3>1, <4>2
        <5> QED
          BY <5>2, <5>3
      <4> QED
        BY <4>1, <4>2
    <3> HIDE DEF h
    <3> QED
      BY <3>2, <3>3
  <2> HIDE DEF h, E
  <2> QED
    BY <1>0, <2>2, <2>3, SMTT(60)
<1>3. n \in N
  <2> HIDE DEF N
  <2>1. n \in 0 .. n
    BY <1>0
  <2> QED
    BY <1>0, <1>1, <1>2, <2>1, UpTo
<1>4. PICK f : f = [i \in 1 .. n |-> f[i]] /\ \A i \in 1 .. n : E(f, i)
  BY <1>3
<1>5. f = [i \in 1 .. n |-> IF i = 1 THEN s[i] ELSE f[i - 1] \o s[i]]
  BY <1>4, Zenon
<1> QED
  BY <1>5, Zenon DEF Joins, n

LEMMA FlattenIsLast ==
    ASSUME NEW s \in Seq(Seq(Int)), Len(s) # 0
    PROVE  \E f : Joins(f, s) /\ FlattenSeq(s) = f[Len(s)]
<1>1. \E f : Joins(f, s)
  BY JoinsExist
<1> QED
  BY <1>1, Zenon DEF FlattenSeq, Joins

\* What is joined from the first k of the sequences.
FirstOf(s, k) == FlattenSeq(SubSeq(s, 1, k))

LEMMA FirstOfIs ==
    ASSUME NEW s \in Seq(Seq(Int)), NEW f, Joins(f, s), NEW k \in 1 .. Len(s)
    PROVE  FirstOf(s, k) = f[k]
<1> DEFINE p == SubSeq(s, 1, k)
<1>0. Len(s) \in Nat /\ k \in Nat /\ k # 0 /\ k <= Len(s)
  BY LenProperties
<1>1. p \in Seq(Seq(Int)) /\ Len(p) = k /\ \A i \in 1 .. k : p[i] = s[i]
  BY <1>0
<1> HIDE DEF p
<1>2. PICK g : Joins(g, p) /\ FlattenSeq(p) = g[k]
  BY <1>0, <1>1, FlattenIsLast
<1> DEFINE S == {i \in 0 .. k : i = 0 \/ f[i] = g[i]}
<1>3. 0 \in S
  BY <1>0
<1>4. ASSUME NEW i \in 1 .. k, i - 1 \in S PROVE i \in S
  <2>1. g[i] = IF i = 1 THEN p[i] ELSE g[i - 1] \o p[i]
    BY <1>1, <1>2 DEF Joins
  <2>2. f[i] = IF i = 1 THEN s[i] ELSE f[i - 1] \o s[i]
    <3>1. i \in 1 .. Len(s)
      BY <1>0
    <3> QED
      BY <3>1 DEF Joins
  <2>3. i # 1 => f[i - 1] = g[i - 1]
    BY <1>4
  <2>4. f[i] = g[i]
    BY <1>1, <2>1, <2>2, <2>3
  <2> QED
    BY <1>0, <2>4
<1>5. \A i \in 0 .. k : i \in S
  <2> HIDE DEF S
  <2> QED
    BY <1>0, <1>3, <1>4, UpTo
<1>6. k \in S
  BY <1>0, <1>5
<1>7. f[k] = g[k]
  BY <1>0, <1>6
<1> QED
  BY <1>2, <1>7 DEF FirstOf, p

LEMMA FirstOfFacts ==
    ASSUME NEW s \in Seq(Seq(Int))
    PROVE  /\ FirstOf(s, 0) = <<>>
           /\ FirstOf(s, Len(s)) = FlattenSeq(s)
           /\ \A k \in 0 .. Len(s) : FirstOf(s, k) \in Seq(Int)
           /\ \A k \in 1 .. Len(s) : FirstOf(s, k) = FirstOf(s, k - 1) \o s[k]
<1>0. Len(s) \in Nat
  BY LenProperties
<1>1. FirstOf(s, 0) = <<>>
  <2>1. SubSeq(s, 1, 0) = <<>>
    BY SubSeqEmpty
  <2>2. Len(<<>>) = 0
    OBVIOUS
  <2> QED
    BY <2>1, <2>2, Zenon DEF FirstOf, FlattenSeq
<1>2. FirstOf(s, Len(s)) = FlattenSeq(s)
  BY SubSeqFull DEF FirstOf
<1>3. PICK f : Joins(f, s)
  BY JoinsExist
<1>4. \A k \in 1 .. Len(s) : FirstOf(s, k) = f[k] /\ s[k] \in Seq(Int)
  BY <1>3, FirstOfIs
<1>5. ASSUME NEW k \in 1 .. Len(s) PROVE FirstOf(s, k) = FirstOf(s, k - 1) \o s[k]
  <2>1. f[k] = IF k = 1 THEN s[k] ELSE f[k - 1] \o s[k]
    BY <1>3 DEF Joins
  <2>2. CASE k = 1
    <3>1. <<>> \o s[k] = s[k]
      BY <1>4, ConcatEmptySeq
    <3> QED
      BY <1>1, <1>4, <2>1, <2>2, <3>1, SMTT(60)
  <2>3. CASE k # 1
    <3>1. k - 1 \in 1 .. Len(s)
      BY <1>0, <2>3
    <3> QED
      BY <1>4, <2>1, <2>3, <3>1
  <2> QED
    BY <2>2, <2>3
<1> DEFINE S == {k \in 0 .. Len(s) : FirstOf(s, k) \in Seq(Int)}
<1>6. 0 \in S
  <2>1. <<>> \in Seq(Int)
    BY EmptySeq
  <2>2. FirstOf(s, 0) \in Seq(Int)
    BY <1>1, <2>1, Zenon
  <2> QED
    BY <1>0, <2>2
<1>7. ASSUME NEW k \in 1 .. Len(s), k - 1 \in S PROVE k \in S
  <2>1. PICK r \in Seq(Int) : r = FirstOf(s, k - 1)
    BY <1>7
  <2>2. PICK t \in Seq(Int) : t = s[k]
    BY <1>4
  <2>3. r \o t \in Seq(Int)
    BY ConcatProperties
  <2>4. FirstOf(s, k) \in Seq(Int)
    BY <1>5, <2>1, <2>2, <2>3, Zenon
  <2>5. k \in 0 .. Len(s)
    BY <1>0
  <2> QED
    BY <2>4, <2>5
<1>8. \A k \in 0 .. Len(s) : k \in S
  <2> HIDE DEF S
  <2> QED
    BY <1>0, <1>6, <1>7, UpTo
<1> QED
  BY <1>1, <1>2, <1>5, <1>8

LEMMA RangeOfConcat ==
    ASSUME NEW s \in Seq(Int), NEW t \in Seq(Int)
    PROVE  Range(s \o t) = Range(s) \cup Range(t)
<1>1. s \o t \in Seq(Int)
  BY ConcatProperties
<1>2. ASSUME NEW x PROVE x \in Range(s \o t) <=> x \in Range(s) \/ x \in Range(t)
  <2>1. Count(s \o t, x) = Count(s, x) + Count(t, x)
    BY CountConcat
  <2>2. Count(s, x) \in Nat /\ Count(t, x) \in Nat
    BY CountFacts
  <2>3. Count(s \o t, x) # 0 <=> Count(s, x) # 0 \/ Count(t, x) # 0
    BY <2>1, <2>2
  <2> QED
    BY <1>1, <2>3, CountFacts
<1> QED
  BY <1>2

\* Each of the sequences is in what is joined.
LEMMA EachIsJoined ==
    ASSUME NEW s \in Seq(Seq(Int)), NEW k \in 1 .. Len(s)
    PROVE  /\ \A m \in k .. Len(s) : Range(s[k]) \subseteq Range(FirstOf(s, m))
           /\ Range(s[k]) \subseteq Range(FlattenSeq(s))
<1>0. Len(s) \in Nat /\ k \in Nat /\ k # 0 /\ k <= Len(s) /\ s[k] \in Seq(Int)
  BY LenProperties
<1> DEFINE S == {m \in 0 .. Len(s) : m < k \/ Range(s[k]) \subseteq Range(FirstOf(s, m))}
<1>1. 0 \in S
  BY <1>0
<1>2. ASSUME NEW m \in 1 .. Len(s), m - 1 \in S PROVE m \in S
  <2>1. FirstOf(s, m) = FirstOf(s, m - 1) \o s[m] /\ FirstOf(s, m - 1) \in Seq(Int) /\ s[m] \in Seq(Int)
    <3>1. m - 1 \in 0 .. Len(s)
      BY <1>0
    <3>2. FirstOf(s, m) = FirstOf(s, m - 1) \o s[m]
      BY FirstOfFacts
    <3>3. FirstOf(s, m - 1) \in Seq(Int)
      BY <3>1, FirstOfFacts
    <3>4. s[m] \in Seq(Int)
      OBVIOUS
    <3> QED
      BY <3>2, <3>3, <3>4
  <2>2. Range(FirstOf(s, m)) = Range(FirstOf(s, m - 1)) \cup Range(s[m])
    BY <2>1, RangeOfConcat
  <2>3. m < k \/ m = k \/ ~(m - 1 < k)
    BY <1>0
  <2>4. m \in 0 .. Len(s)
    BY <1>0
  <2> QED
    BY <1>2, <2>2, <2>3, <2>4
<1>3. \A m \in 0 .. Len(s) : m \in S
  <2> HIDE DEF S
  <2> QED
    BY <1>0, <1>1, <1>2, UpTo
<1>4. ASSUME NEW m \in k .. Len(s) PROVE Range(s[k]) \subseteq Range(FirstOf(s, m))
  <2>1. m \in 0 .. Len(s) /\ ~(m < k)
    BY <1>0
  <2> QED
    BY <1>3, <2>1
<1>5. Len(s) \in k .. Len(s)
  BY <1>0
<1> QED
  BY <1>4, <1>5, FirstOfFacts

-----------------------------------------------------------------------------
(* A part of an array *)

\* The part of k elements from a on is in order.
Ordered(nums, a, k) == \A i, j \in a .. a + k - 1 : i < j => nums[i] <= nums[j]

\* The array with another part in its place: what Put makes of it.
Replaced(nums, a, k, s) == SubSeq(nums, 1, a - 1) \o s \o SubSeq(nums, a + k, Len(nums))

LEMMA PartFacts ==
    ASSUME NEW nums \in Seq(Int), NEW a \in Nat \ {0}, NEW k \in Nat, a + k <= Len(nums) + 1
    PROVE  LET u == SubSeq(nums, a, a + k - 1)
           IN  /\ u \in Seq(Int) /\ Len(u) = k /\ Range(u) \subseteq Range(nums)
               /\ \A i \in 1 .. k : u[i] = nums[a + i - 1]
               /\ Ordered(nums, a, k) => Sorted(u)
<1> DEFINE u == SubSeq(nums, a, a + k - 1)
<1>1. PICK n \in Nat : n = Len(nums) /\ DOMAIN nums = 1 .. n
  BY LenProperties
<1>2. a + k <= n + 1
  BY <1>1
<1>3. \A i \in a .. a + k - 1 : i \in 1 .. n /\ nums[i] \in Int
  BY <1>1, <1>2
<1>4. u \in Seq(Int) /\ Len(u) = k /\ \A i \in 1 .. k : u[i] = nums[a + i - 1]
  <2>1. a \in Int /\ a + k - 1 \in Int /\ (a + k - 1) - a + 1 = k
    OBVIOUS
  <2>2. (a <= a + k - 1 <=> k > 0) /\ k \in Nat
    OBVIOUS
  <2>3. u \in Seq(Int) /\ Len(u) = (IF a <= a + k - 1 THEN (a + k - 1) - a + 1 ELSE 0)
        /\ \A i \in 1 .. (a + k - 1) - a + 1 : u[i] = nums[a + i - 1]
    BY <1>3, <2>1, SubSeqProperties
  <2> HIDE DEF u
  <2> QED
    BY <2>1, <2>2, <2>3
<1> HIDE DEF u
<1>5. \A i \in 1 .. k : a + i - 1 \in 1 .. n
  BY <1>2
<1>6. Range(u) \subseteq Range(nums)
  <2>1. DOMAIN u = 1 .. k
    BY <1>4
  <2> QED
    BY <1>1, <1>4, <1>5, <2>1 DEF Range
<1>7. ASSUME Ordered(nums, a, k) PROVE Sorted(u)
  <2>1. SUFFICES ASSUME NEW i \in 1 .. k, NEW j \in 1 .. k, i < j PROVE u[i] <= u[j]
    BY <1>4 DEF Sorted, IsSorted
  <2>2. a + i - 1 \in a .. a + k - 1 /\ a + j - 1 \in a .. a + k - 1 /\ a + i - 1 < a + j - 1
    BY <2>1
  <2>3. nums[a + i - 1] <= nums[a + j - 1]
    BY <1>7, <2>2 DEF Ordered
  <2> QED
    BY <1>4, <2>3
<1> QED
  BY <1>4, <1>6, <1>7 DEF u

LEMMA ReplacedFacts ==
    ASSUME NEW nums \in Seq(Int), NEW a \in Nat \ {0}, NEW k \in Nat, a + k <= Len(nums) + 1,
           NEW s \in Seq(Int), Same(s, SubSeq(nums, a, a + k - 1))
    PROVE  LET z == Replaced(nums, a, k, s)
           IN  /\ z \in Seq(Int) /\ Len(z) = Len(nums) /\ Same(z, nums)
               /\ \A i \in 1 .. Len(nums) : i < a \/ i >= a + k => z[i] = nums[i]
               /\ Sorted(s) => Ordered(z, a, k)
<1> DEFINE p == SubSeq(nums, 1, a - 1)
           u == SubSeq(nums, a, a + k - 1)
           q == SubSeq(nums, a + k, Len(nums))
           z == (p \o s) \o q
<1>1. PICK n \in Nat : n = Len(nums) /\ DOMAIN nums = 1 .. n
  BY LenProperties
<1>2. a + k <= n + 1
  BY <1>1
<1>3. /\ p \in Seq(Int) /\ Len(p) = a - 1 /\ \A i \in 1 .. a - 1 : p[i] = nums[i]
  BY <1>1, <1>2
<1>4. u \in Seq(Int) /\ Len(u) = k
  BY PartFacts, ZenonT(60)
<1>5. q \in Seq(Int) /\ Len(q) = n + 1 - (a + k) /\ \A i \in 1 .. n + 1 - (a + k) : q[i] = nums[a + k + i - 1]
  <2> PICK b \in Nat \ {0} : b = a + k
    OBVIOUS
  <2>2. b \in Int /\ n \in Int /\ b <= n + 1 /\ \A i \in b .. n : nums[i] \in Int
    BY <1>1, <1>2
  <2>3. (IF b <= n THEN n - b + 1 ELSE 0) = n + 1 - b /\ n - b + 1 = n + 1 - b
    BY <2>2
  <2>4. /\ SubSeq(nums, b, n) \in Seq(Int)
        /\ Len(SubSeq(nums, b, n)) = IF b <= n THEN n - b + 1 ELSE 0
        /\ \A i \in 1 .. n - b + 1 : SubSeq(nums, b, n)[i] = nums[b + i - 1]
    BY ONLY <2>2, SubSeqProperties, SMTT(60)
  <2>1. SubSeq(nums, b, n) \in Seq(Int) /\ Len(SubSeq(nums, b, n)) = n + 1 - b
        /\ \A i \in 1 .. n + 1 - b : SubSeq(nums, b, n)[i] = nums[b + i - 1]
    BY <2>3, <2>4
  <2> QED
    BY <1>1, <2>1
<1>6. nums = (p \o u) \o q
  <2>1. p \o u = SubSeq(nums, 1, a + k - 1)
    <3>1. /\ 1 \in 1 .. Len(nums) + 1 /\ a - 1 \in 1 - 1 .. Len(nums)
          /\ a + k - 1 \in a - 1 .. Len(nums) /\ a - 1 + 1 = a
      BY <1>1, <1>2
    <3> QED
      BY <3>1, ConcatAdjacentSubSeq
  <2>2. SubSeq(nums, 1, a + k - 1) \o q = SubSeq(nums, 1, Len(nums))
    <3>1. /\ 1 \in 1 .. Len(nums) + 1 /\ a + k - 1 \in 1 - 1 .. Len(nums)
          /\ Len(nums) \in a + k - 1 .. Len(nums) /\ a + k - 1 + 1 = a + k
      BY <1>1, <1>2
    <3> QED
      BY <3>1, ConcatAdjacentSubSeq
  <2>3. SubSeq(nums, 1, Len(nums)) = nums
    BY SubSeqFull
  <2> QED
    BY <2>1, <2>2, <2>3, ZenonT(60)
<1>7. Same(s, u)
  OBVIOUS
<1>8. Replaced(nums, a, k, s) = z
  BY DEF Replaced
<1> HIDE DEF p, u, q
<1>9. Len(s) = k
  BY <1>4, <1>7 DEF Same
<1>10. p \o s \in Seq(Int) /\ Len(p \o s) = a - 1 + k
       /\ \A i \in 1 .. a - 1 + k : (p \o s)[i] = IF i <= a - 1 THEN p[i] ELSE s[i - (a - 1)]
  <2>1. PICK m \in Nat : m = a - 1
    OBVIOUS
  <2>2. Len(p) = m
    BY <1>3, <2>1
  <2>3. p \o s \in Seq(Int) /\ Len(p \o s) = m + k
        /\ \A i \in 1 .. m + k : (p \o s)[i] = IF i <= m THEN p[i] ELSE s[i - m]
    <3>1. /\ p \o s \in Seq(Int) /\ Len(p \o s) = Len(p) + Len(s)
          /\ \A i \in 1 .. Len(p) + Len(s) : (p \o s)[i] = IF i <= Len(p) THEN p[i] ELSE s[i - Len(p)]
      BY <1>3, ConcatProperties, ZenonT(60)
    <3> QED
      BY <1>9, <2>2, <3>1, Zenon
  <2> QED
    BY <2>1, <2>3
<1>11. z \in Seq(Int) /\ Len(z) = n
       /\ \A i \in 1 .. n : z[i] = IF i <= a - 1 + k THEN (p \o s)[i] ELSE q[i - (a - 1 + k)]
  <2> PICK w \in Seq(Int) : w = p \o s
    BY <1>10
  <2>1. w \o q \in Seq(Int) /\ Len(w \o q) = n
        /\ \A i \in 1 .. n : (w \o q)[i] = IF i <= a - 1 + k THEN w[i] ELSE q[i - (a - 1 + k)]
    <3>1. Len(w) = a - 1 + k /\ a - 1 + k \in Nat /\ Len(q) = n + 1 - (a + k) /\ n + 1 - (a + k) \in Nat
          /\ (a - 1 + k) + (n + 1 - (a + k)) = n
      BY <1>2, <1>5, <1>10, SMTT(60)
    <3>2. PICK m \in Nat : m = a - 1 + k
      BY <3>1
    <3>3. PICK l \in Nat : l = n + 1 - (a + k)
      BY <3>1
    <3>4. w \o q \in Seq(Int) /\ Len(w \o q) = m + l
          /\ \A i \in 1 .. m + l : (w \o q)[i] = IF i <= m THEN w[i] ELSE q[i - m]
      <4>1. Len(w) = m /\ Len(q) = l /\ q \in Seq(Int)
        BY <1>5, <3>1, <3>2, <3>3
      <4> QED
        <5>1. /\ w \o q \in Seq(Int) /\ Len(w \o q) = Len(w) + Len(q)
              /\ \A i \in 1 .. Len(w) + Len(q) : (w \o q)[i] = IF i <= Len(w) THEN w[i] ELSE q[i - Len(w)]
          BY <4>1, ConcatProperties, ZenonT(120)
        <5> QED
          BY <4>1, <5>1, Zenon
    <3>5. m + l = n
      BY <3>1, <3>2, <3>3
    <3> QED
      BY <3>2, <3>4, <3>5, Zenon
  <2> QED
    BY <2>1
<1>12. Same(z, nums)
  <2>1. Same(p \o s, p \o u) /\ p \o u \in Seq(Int)
    <3>1. Same(p, p)
      BY DEF Same
    <3> QED
      BY <1>3, <1>4, <1>7, <3>1, SameConcat, ConcatProperties
  <2>2. Same(q, q)
    BY DEF Same
  <2>3. Same((p \o s) \o q, (p \o u) \o q)
    BY <1>5, <1>10, <2>1, <2>2, SameConcat
  <2> QED
    BY <1>6, <2>3, Zenon
<1> HIDE DEF z
<1>13. ASSUME NEW i \in 1 .. n, i < a \/ i >= a + k PROVE z[i] = nums[i]
  <2>1. CASE i < a
    <3>1. i \in 1 .. a - 1 /\ i \in 1 .. a - 1 + k /\ i <= a - 1 /\ i <= a - 1 + k
      BY <2>1
    <3>2. z[i] = (p \o s)[i] /\ (p \o s)[i] = p[i] /\ p[i] = nums[i]
      BY <1>3, <1>10, <1>11, <3>1
    <3> QED
      BY <3>2
  <2>2. CASE i >= a + k
    <3>1. ~(i <= a - 1 + k) /\ i - (a - 1 + k) \in 1 .. n + 1 - (a + k)
          /\ a + k + (i - (a - 1 + k)) - 1 = i
      BY <1>2, <2>2
    <3>2. z[i] = q[i - (a - 1 + k)]
      BY <1>11, <3>1
    <3>3. q[i - (a - 1 + k)] = nums[a + k + (i - (a - 1 + k)) - 1]
      BY <1>5, <3>1
    <3> QED
      BY <3>1, <3>2, <3>3
  <2> QED
    BY <1>13, <2>1, <2>2
<1>14. ASSUME Sorted(s) PROVE Ordered(z, a, k)
  <2>1. ASSUME NEW i \in a .. a + k - 1 PROVE z[i] = s[i - (a - 1)] /\ i - (a - 1) \in 1 .. k
    <3>1. i \in 1 .. n /\ i \in 1 .. a - 1 + k /\ ~(i <= a - 1) /\ i <= a - 1 + k /\ i - (a - 1) \in 1 .. k
      BY <1>2
    <3>2. z[i] = (p \o s)[i] /\ (p \o s)[i] = s[i - (a - 1)]
      BY <1>10, <1>11, <3>1
    <3> QED
      BY <3>1, <3>2
  <2>2. SUFFICES ASSUME NEW i \in a .. a + k - 1, NEW j \in a .. a + k - 1, i < j PROVE z[i] <= z[j]
    BY DEF Ordered
  <2>3. i - (a - 1) < j - (a - 1)
    BY <2>2
  <2>4. s[i - (a - 1)] <= s[j - (a - 1)]
    BY <1>9, <1>14, <2>1, <2>3 DEF Sorted, IsSorted
  <2> QED
    BY <2>1, <2>4
<1> QED
  BY <1>1, <1>8, <1>11, <1>12, <1>13, <1>14 DEF z

-----------------------------------------------------------------------------
(* The library under this program *)

\* The program is one on the library: what is proved of all programs holds of it.
Library == INSTANCE CoroProofs WITH MaxCalls <- 0, calls <- [c \in Coros |-> 0]

LEMMA Assumptions == Library!CoroAssumption /\ Library!CallsAssumption
  BY CoroAssumption DEF Library!CoroAssumption, Library!CallsAssumption, CoroAssumption

LEMMA LibraryInit == Init => Library!CoroInit
  BY DEF Init, CoroInit, Library!CoroInit

LEMMA LibraryUnchanged == UNCHANGED coroVars => UNCHANGED Library!coroVars
  BY DEF coroVars, listVars, timeVars, Library!coroVars, Library!listVars, Library!timeVars

LEMMA LibraryNew == \A c \in Coros : New(c) => Library!New(c)
  BY DEF New, ListAdd, LinkedToFirst, timeVars, Library!New, Library!ListAdd,
         Library!LinkedToFirst, Library!timeVars

LEMMA SameReached == FirstFinished = Library!FirstFinished
  BY DEF FirstFinished, Reached, Finished, Library!FirstFinished, Library!Reached, Library!Finished

LEMMA LibrarySchedReturns == \A c \in Coros : SchedReturns(c) => Library!SchedReturns(c)
  BY SameReached
     DEF SchedReturns, ListDelete, HeadMoves, timeVars,
         Library!SchedReturns, Library!ListDelete, Library!HeadMoves, Library!timeVars

LEMMA LibrarySchedWaits == SchedWaits => Library!SchedWaits
  BY SameReached
     DEF SchedWaits, SwitchTo, WaitsUntilBack, Restamped, listVars,
         Library!SchedWaits, Library!SwitchTo, Library!WaitsUntilBack, Library!Restamped,
         Library!listVars

LEMMA LibraryTick == \A c \in Coros : Tick(c) => Library!Tick(c)
  BY DEF Tick, listVars, timeVars, Library!Tick, Library!listVars, Library!timeVars

LEMMA LibraryPeriodEnd == \A c \in Coros : PeriodEnd(c) => Library!PeriodEnd(c)
  BY DEF PeriodEnd, Charge, SwitchTo, WaitsUntilBack, Restamped, Successor, listVars,
         Library!PeriodEnd, Library!Charge, Library!SwitchTo, Library!WaitsUntilBack,
         Library!Restamped, Library!Successor, Library!listVars

LEMMA LibraryReturn == \A c \in Coros : Return(c) => Library!Return(c)
  BY DEF Return, Charge, SwitchTo, WaitsUntilBack, listVars,
         Library!Return, Library!Charge, Library!SwitchTo, Library!WaitsUntilBack, Library!listVars

LEMMA LibraryNext == [Next]_vars => [Library!CoroNext]_Library!coroVars
<1> SUFFICES ASSUME [Next]_vars PROVE Library!CoroNext \/ UNCHANGED Library!coroVars
  OBVIOUS
<1>1. CASE UNCHANGED coroVars
  BY <1>1, LibraryUnchanged
<1>2. ASSUME NEW c \in Coros, New(c) \/ SchedReturns(c) \/ Tick(c) \/ PeriodEnd(c) \/ Return(c)
      PROVE  Library!CoroNext
  BY <1>2, LibraryNew, LibrarySchedReturns, LibraryTick, LibraryPeriodEnd, LibraryReturn
     DEF Library!CoroNext
<1>3. CASE SchedWaits
  BY <1>3, LibrarySchedWaits DEF Library!CoroNext
<1>4. CASE UNCHANGED vars
  BY <1>1, <1>4 DEF vars
<1>5. CASE MainWaits
  BY <1>2, <1>3, <1>5 DEF MainWaits
<1>6. CASE MainMerges \/ MainWrites
  BY <1>1, <1>6 DEF MainMerges, MainWrites
<1>7. ASSUME NEW c \in Coros, MainCreates(c) \/ Tick(c) PROVE Library!CoroNext
  BY <1>2, <1>7 DEF MainCreates
<1>8. ASSUME NEW c \in Coros, Coroutine(c) PROVE Library!CoroNext \/ UNCHANGED Library!coroVars
  <2>1. CASE Read(c) \/ ReadFails(c) \/ SortCalls(c) \/ SortReturns(c) \/ SortMerges(c) \/ SortMallocFails(c)
    BY <1>1, <2>1 DEF Read, ReadFails, SortCalls, SortReturns, SortMerges, SortMallocFails
  <2>2. CASE Sort(c) \/ SortYields(c) \/ End(c)
    BY <1>2, <2>2 DEF Sort, SortYields, End
  <2> QED
    BY <1>8, <2>1, <2>2 DEF Coroutine
<1> QED
  BY <1>4, <1>5, <1>6, <1>7, <1>8 DEF Next, Run

LEMMA LibraryInvariance == Spec => []Library!CoroInv
<1>1. Init => Library!CoroInv
  BY LibraryInit, Library!CoroInvInit, Assumptions
<1>2. Library!CoroInv /\ [Next]_vars => Library!CoroInv'
  BY LibraryNext, Library!CoroInvNext, Assumptions
<1> QED
  BY <1>1, <1>2, PTL DEF Spec

\* When coro_sched_wait returns NULL, every coroutine has been returned.
LEMMA AllReturned ==
    ASSUME Library!CoroInv, NoneIsLeft, NEW c \in Coros
    PROVE  phase[c] = "returned"
<1>1. Library!Walked({})
  BY DEF NoneIsLeft, Library!Walked
<1>2. Library!Listed = {}
  BY <1>1 DEF Library!CoroInv, Library!NoneIsMissed
<1>3. phase[c] \in {"absent", "alive", "finished", "returned"}
  BY DEF Library!CoroInv, Library!TypeOK
<1> QED
  BY <1>2, <1>3 DEF Library!Listed, NoneIsLeft, Created

-----------------------------------------------------------------------------
(* The calls of mergesort of one coroutine *)

FramePlaces ==
    {"start", "left", "yield after left", "right", "yield after right", "merge",
     "returns 0", "returns -1"}
Frames == [first : Nat \ {0}, size : Nat, at : FramePlaces]

\* Frame g is that of the call that f waits for.
IsCalledBy(g, f) ==
    \/ f.at = "left" /\ g.first = f.first /\ g.size = Middle(f)
    \/ f.at = "right" /\ g.first = f.first + Middle(f) /\ g.size = f.size - Middle(f)

Within(g, f) == f.first <= g.first /\ g.first + g.size <= f.first + f.size

\* Only a part of two numbers or more is divided.
IsDivided(f) == f.at \notin {"start", "returns 0"} => f.size > 1

\* The calls in st, the outermost of which is for n numbers.
Nested(st, n) ==
    /\ st # <<>> => st[1].first = 1 /\ st[1].size = n
    /\ \A k \in 1 .. Len(st) - 1 : IsCalledBy(st[k + 1], st[k])
    /\ \A k, m \in 1 .. Len(st) : k <= m => Within(st[m], st[k])
    /\ \A k \in 1 .. Len(st) : IsDivided(st[k])

\* What a call has put in order so far.
PutInOrder(f, nums) ==
    /\ f.at # "returns -1"
    /\ f.at \in {"yield after left", "right", "yield after right", "merge"} =>
         Ordered(nums, f.first, Middle(f))
    /\ f.at \in {"yield after right", "merge"} =>
         Ordered(nums, f.first + Middle(f), f.size - Middle(f))
    /\ f.at = "returns 0" => Ordered(nums, f.first, f.size)

\* Two stacks differ in the call they end with, and g is the one of the second.
EndsWith(z, st, g) ==
    /\ z \in Seq(Frames) /\ Len(z) \in 1 .. Len(st) /\ z[Len(z)] = g
    /\ \A k \in 1 .. Len(z) - 1 : z[k] = st[k]
    /\ g.first = st[Len(z)].first /\ g.size = st[Len(z)].size

LEMMA MiddleFacts ==
    ASSUME NEW f \in Frames
    PROVE  /\ Middle(f) \in Nat /\ Middle(f) <= f.size /\ f.size - Middle(f) \in Nat
           /\ f.first \in Nat \ {0} /\ f.size \in Nat /\ f.at \in FramePlaces
           /\ f.size > 1 => Middle(f) > 0 /\ Middle(f) < f.size
  BY DEF Middle, Frames

LEMMA MovedFacts ==
    ASSUME NEW f \in Frames, NEW w \in FramePlaces
    PROVE  LET g == [f EXCEPT !.at = w]
           IN  g \in Frames /\ g.first = f.first /\ g.size = f.size /\ g.at = w /\ Middle(g) = Middle(f)
  BY DEF Middle, Frames

LEMMA HalfFacts ==
    ASSUME NEW f \in Frames
    PROVE  /\ LeftHalf(f) \in Frames /\ RightHalf(f) \in Frames
           /\ LeftHalf(f).first = f.first /\ LeftHalf(f).size = Middle(f) /\ LeftHalf(f).at = "start"
           /\ RightHalf(f).first = f.first + Middle(f) /\ RightHalf(f).size = f.size - Middle(f)
           /\ RightHalf(f).at = "start"
           /\ Within(LeftHalf(f), f) /\ Within(RightHalf(f), f)
<1>1. /\ Middle(f) \in Nat /\ Middle(f) <= f.size /\ f.size - Middle(f) \in Nat
      /\ f.first \in Nat \ {0} /\ f.size \in Nat
  BY MiddleFacts
<1>2. /\ LeftHalf(f) = [first |-> f.first, size |-> Middle(f), at |-> "start"]
      /\ RightHalf(f) = [first |-> f.first + Middle(f), size |-> f.size - Middle(f), at |-> "start"]
  BY DEF LeftHalf, RightHalf, Frame
<1>3. f.first + Middle(f) \in Nat \ {0} /\ "start" \in FramePlaces
  BY <1>1 DEF FramePlaces
<1>4. LeftHalf(f) \in Frames /\ RightHalf(f) \in Frames
  BY <1>1, <1>2, <1>3 DEF Frames
<1>5. /\ LeftHalf(f).first = f.first /\ LeftHalf(f).size = Middle(f) /\ LeftHalf(f).at = "start"
      /\ RightHalf(f).first = f.first + Middle(f) /\ RightHalf(f).size = f.size - Middle(f)
      /\ RightHalf(f).at = "start"
  BY <1>2
<1>6. Within(LeftHalf(f), f) /\ Within(RightHalf(f), f)
  <2>1. PICK a \in Nat : a = f.first
    BY <1>1
  <2>2. PICK m \in Nat : m = Middle(f)
    BY <1>1
  <2>3. PICK l \in Nat : l = f.size
    BY <1>1
  <2>4. a <= a /\ a + m <= a + l /\ a <= a + m /\ (a + m) + (l - m) <= a + l
    BY <1>1, <2>2, <2>3
  <2> QED
    BY <1>5, <2>1, <2>2, <2>3, <2>4, Zenon DEF Within
<1> QED
  BY <1>4, <1>5, <1>6

\* The innermost call moves on.
LEMMA TopMoves ==
    ASSUME NEW st \in Seq(Frames), st # <<>>, NEW w \in FramePlaces
    PROVE  LET g == [Last(st) EXCEPT !.at = w]
               z == Front(st) \o <<g>> \o <<>>
           IN  Len(z) = Len(st) /\ EndsWith(z, st, g)
<1> DEFINE g == [Last(st) EXCEPT !.at = w]
           z == Front(st) \o <<g>>
<1>1. PICK n \in Nat \ {0} : n = Len(st) /\ DOMAIN st = 1 .. n
  BY EmptySeq
<1>2. st[n] \in Frames /\ Last(st) = st[n]
  BY <1>1 DEF Last
<1>3. g \in Frames /\ g.first = st[n].first /\ g.size = st[n].size
  BY <1>2, MovedFacts
<1> HIDE DEF g
<1>4. Front(st) \in Seq(Frames) /\ Len(Front(st)) = n - 1 /\ \A k \in 1 .. n - 1 : Front(st)[k] = st[k]
  BY <1>1 DEF Front
<1>5. PICK p \in Seq(Frames) : p = Front(st)
  BY <1>4
<1>6. p \o <<g>> \in Seq(Frames) /\ Len(p \o <<g>>) = n /\ (p \o <<g>>)[n] = g
      /\ \A k \in 1 .. n - 1 : (p \o <<g>>)[k] = st[k]
  BY <1>3, <1>4, <1>5
<1>7. z = p \o <<g>>
  BY <1>5
<1>8. z \o <<>> = z
  BY <1>6, <1>7, ConcatEmptySeq
<1> HIDE DEF z
<1>9. Len(z) = Len(st) /\ EndsWith(z, st, g)
  <2>1. n \in 1 .. n /\ Len(z) = n
    BY <1>6, <1>7
  <2> QED
    BY <1>1, <1>3, <1>6, <1>7, <2>1 DEF EndsWith
<1> QED
  BY <1>8, <1>9 DEF z, g

\* The innermost call makes a call.
LEMMA TopCalls ==
    ASSUME NEW st \in Seq(Frames), st # <<>>, NEW w \in FramePlaces, NEW h \in Frames
    PROVE  LET g == [Last(st) EXCEPT !.at = w]
               y == Front(st) \o <<g>> \o <<>>
               z == Front(st) \o <<g>> \o <<h>>
           IN  EndsWith(y, st, g) /\ Len(y) = Len(st) /\ z = Append(y, h)
<1> DEFINE g == [Last(st) EXCEPT !.at = w]
           y == Front(st) \o <<g>> \o <<>>
<1>1. EndsWith(y, st, g) /\ Len(y) = Len(st)
  BY TopMoves
<1>2. PICK n \in Nat \ {0} : n = Len(st) /\ DOMAIN st = 1 .. n
  BY EmptySeq
<1>3. g \in Frames
  BY <1>2, MovedFacts DEF Last
<1> HIDE DEF g
<1>4. Front(st) \o <<g>> \in Seq(Frames)
  <2>1. Front(st) \in Seq(Frames)
    BY <1>2 DEF Front
  <2> QED
    BY <1>3, <2>1
<1>5. PICK p \in Seq(Frames) : p = Front(st) \o <<g>>
  BY <1>4
<1>6. p \o <<>> = p /\ Append(p, h) = p \o <<h>>
  BY ConcatEmptySeq, AppendIsConcat
<1> QED
  BY <1>1, <1>5, <1>6, Zenon DEF g

\* The innermost call returns and the one around it moves on.
LEMMA TopReturns ==
    ASSUME NEW st \in Seq(Frames), st # <<>>, Front(st) # <<>>, NEW w \in FramePlaces
    PROVE  LET g == [Last(Front(st)) EXCEPT !.at = w]
               z == Front(Front(st)) \o <<g>>
           IN  /\ Len(z) = Len(st) - 1 /\ EndsWith(z, st, g)
               /\ Len(st) \in Nat /\ Len(st) > 1 /\ Last(Front(st)) = st[Len(st) - 1]
<1>1. PICK n \in Nat \ {0} : n = Len(st) /\ DOMAIN st = 1 .. n
  BY EmptySeq
<1>2. PICK p \in Seq(Frames) : /\ p = Front(st) /\ Len(p) = n - 1 /\ \A k \in 1 .. n - 1 : p[k] = st[k]
  <2>1. Front(st) \in Seq(Frames) /\ Len(Front(st)) = n - 1 /\ \A k \in 1 .. n - 1 : Front(st)[k] = st[k]
    BY <1>1 DEF Front
  <2> QED
    BY <2>1
<1> DEFINE g == [Last(p) EXCEPT !.at = w]
           y == Front(p) \o <<g>> \o <<>>
<1>3. Len(y) = Len(p) /\ EndsWith(y, p, g)
  BY <1>2, TopMoves
<1>4. y = Front(p) \o <<g>>
  <2>1. Front(p) \o <<g>> \in Seq(Frames)
    <3>1. PICK m \in Nat \ {0} : m = Len(p) /\ DOMAIN p = 1 .. m
      BY <1>2, EmptySeq
    <3>2. g \in Frames
      BY <3>1, MovedFacts DEF Last
    <3> HIDE DEF g
    <3>3. Front(p) \in Seq(Frames)
      BY <3>1 DEF Front
    <3> QED
      BY <3>2, <3>3
  <2> HIDE DEF g
  <2> QED
    BY <2>1, ConcatEmptySeq
<1>5. n > 1 /\ Last(p) = st[n - 1]
  <2>1. Len(p) # 0
    BY <1>2, EmptySeq
  <2>2. n > 1 /\ n - 1 \in 1 .. n - 1
    BY <1>2, <2>1
  <2> QED
    BY <1>2, <2>2 DEF Last
<1> HIDE DEF g, y
<1>6. EndsWith(y, st, g) /\ Len(y) = n - 1
  <2>1. Len(y) = n - 1 /\ n - 1 \in 1 .. n /\ n - 1 \in 1 .. n - 1
    BY <1>2, <1>3, <1>5
  <2>2. \A k \in 1 .. n - 1 - 1 : k \in 1 .. n - 1
    BY <1>1
  <2> QED
    BY <1>1, <1>2, <1>3, <2>1, <2>2 DEF EndsWith
<1>7. /\ Front(Front(st)) \o <<[Last(Front(st)) EXCEPT !.at = w]>> = y
      /\ [Last(Front(st)) EXCEPT !.at = w] = g
  BY <1>2, <1>4 DEF g
<1> QED
  BY <1>1, <1>2, <1>5, <1>6, <1>7, Zenon

\* The nesting depends on first and size only, but for the place of the last one.
LEMMA NestedEnds ==
    ASSUME NEW st \in Seq(Frames), NEW n, Nested(st, n), NEW z, NEW g \in Frames, EndsWith(z, st, g),
           IsDivided(g)
    PROVE  Nested(z, n)
<1>1. PICK m \in Nat : m = Len(st)
  BY LenProperties
<1>2. PICK l \in Nat : l = Len(z) /\ 1 <= l /\ l <= m
  <2>1. Len(z) \in 1 .. m
    BY <1>1 DEF EndsWith
  <2> QED
    BY <2>1
<1>3. z \in Seq(Frames) /\ z[l] = g /\ \A k \in 1 .. l - 1 : z[k] = st[k]
  BY <1>2 DEF EndsWith
<1>4. ASSUME NEW k \in 1 .. l PROVE z[k].first = st[k].first /\ z[k].size = st[k].size /\ k \in 1 .. m
  <2>1. k \in 1 .. m /\ (k = l \/ k \in 1 .. l - 1)
    BY <1>1, <1>2
  <2> QED
    BY <1>2, <1>3, <2>1 DEF EndsWith
<1>5. z # <<>> => z[1].first = 1 /\ z[1].size = n
  <2>1. 1 \in 1 .. l /\ st # <<>>
    <3>1. 1 \in 1 .. l /\ m # 0
      BY <1>1, <1>2
    <3> QED
      BY <1>1, <3>1, EmptySeq
  <2> QED
    BY <1>4, <2>1 DEF Nested
<1>6. ASSUME NEW k \in 1 .. l - 1 PROVE IsCalledBy(z[k + 1], z[k])
  <2>1. k \in 1 .. l /\ k + 1 \in 1 .. l /\ k \in 1 .. m - 1
    BY <1>1, <1>2
  <2>2. IsCalledBy(st[k + 1], st[k])
    BY <1>1, <2>1 DEF Nested
  <2>3. z[k] = st[k] /\ z[k + 1].first = st[k + 1].first /\ z[k + 1].size = st[k + 1].size
    BY <1>3, <1>4, <2>1
  <2> QED
    BY <2>2, <2>3, Zenon DEF IsCalledBy
<1>7. ASSUME NEW k \in 1 .. l, NEW j \in 1 .. l, k <= j PROVE Within(z[j], z[k])
  <2>1. Within(st[j], st[k])
    BY <1>1, <1>4, <1>7 DEF Nested
  <2> QED
    BY <1>4, <2>1 DEF Within
<1>8. ASSUME NEW k \in 1 .. l PROVE IsDivided(z[k])
  <2>1. CASE k = l
    BY <1>3, <2>1
  <2>2. CASE k # l
    <3>1. k \in 1 .. l - 1 /\ k \in 1 .. m
      BY <1>1, <1>2, <2>2
    <3> QED
      BY <1>1, <1>3, <3>1 DEF Nested
  <2> QED
    BY <2>1, <2>2
<1> QED
  BY <1>2, <1>5, <1>6, <1>7, <1>8 DEF Nested

LEMMA NestedCalls ==
    ASSUME NEW st \in Seq(Frames), st # <<>>, NEW n, Nested(st, n), NEW h \in Frames,
           IsCalledBy(h, Last(st)), Within(h, Last(st)), h.at = "start"
    PROVE  Nested(Append(st, h), n)
<1>1. PICK m \in Nat \ {0} : m = Len(st) /\ DOMAIN st = 1 .. m
  BY EmptySeq
<1>2. PICK z \in Seq(Frames) : z = Append(st, h)
  BY AppendProperties
<1>3. Len(z) = m + 1 /\ z[m + 1] = h /\ (\A k \in 1 .. m : z[k] = st[k]) /\ Last(st) = st[m]
  BY <1>1, <1>2, AppendProperties DEF Last
<1>4. z[1].first = 1 /\ z[1].size = n
  <2>1. 1 \in 1 .. m
    OBVIOUS
  <2> QED
    BY <1>3, <2>1 DEF Nested
<1>5. ASSUME NEW k \in 1 .. m PROVE IsCalledBy(z[k + 1], z[k])
  <2>1. CASE k = m
    BY <1>3, <2>1
  <2>2. CASE k # m
    <3>1. k \in 1 .. m - 1 /\ k + 1 \in 1 .. m
      BY <2>2
    <3> QED
      BY <1>1, <1>3, <3>1 DEF Nested
  <2> QED
    BY <2>1, <2>2
<1>6. ASSUME NEW k \in 1 .. m + 1, NEW j \in 1 .. m + 1, k <= j PROVE Within(z[j], z[k])
  <2>1. CASE j \in 1 .. m
    <3>1. k \in 1 .. m
      BY <1>6, <2>1
    <3> QED
      BY <1>1, <1>3, <1>6, <2>1, <3>1 DEF Nested
  <2>2. CASE j = m + 1 /\ k \in 1 .. m
    <3>1. Within(h, st[m])
      BY <1>3
    <3>2. m \in 1 .. Len(st) /\ k \in 1 .. Len(st) /\ k <= m
      BY <1>1, <2>2
    <3>3. Within(st[m], st[k])
      BY <3>2 DEF Nested
    <3>4. st[m] \in Frames /\ st[k] \in Frames /\ h \in Frames
      BY <3>2
    <3>5. ASSUME NEW f \in Frames, NEW g \in Frames, Within(h, f), Within(f, g) PROVE Within(h, g)
      <4>1. /\ f.first \in Int /\ g.first \in Int /\ h.first \in Int
            /\ f.size \in Int /\ g.size \in Int /\ h.size \in Int
        BY DEF Frames
      <4>2. f.first <= h.first /\ h.first + h.size <= f.first + f.size
        BY <3>5, Zenon DEF Within
      <4>3. g.first <= f.first /\ f.first + f.size <= g.first + g.size
        BY <3>5, Zenon DEF Within
      <4>4. g.first <= h.first /\ h.first + h.size <= g.first + g.size
        BY ONLY <4>1, <4>2, <4>3, SMTT(60)
      <4> QED
        BY <4>4, Zenon DEF Within
    <3>6. Within(h, st[k])
      BY <3>1, <3>3, <3>4, <3>5
    <3> QED
      BY <1>3, <2>2, <3>6
  <2>3. CASE j = m + 1 /\ k = m + 1
    <3>1. z[j] = h /\ z[k] = h
      BY <1>3, <2>3, Zenon
    <3>2. h.first \in Nat /\ h.size \in Nat
      BY DEF Frames
    <3>3. Within(h, h)
      BY ONLY <3>2 DEF Within
    <3> QED
      BY <3>1, <3>3, Zenon
  <2> QED
    BY <1>6, <2>1, <2>2, <2>3
<1>7. ASSUME NEW k \in 1 .. m + 1 PROVE IsDivided(z[k])
  <2>1. CASE k = m + 1
    BY <1>3, <2>1 DEF IsDivided
  <2>2. CASE k # m + 1
    <3>1. k \in 1 .. m
      BY <2>2
    <3> QED
      BY <1>1, <1>3, <3>1 DEF Nested
  <2> QED
    BY <2>1, <2>2
<1>8. Len(z) - 1 = m
  BY <1>3
<1> QED
  BY <1>2, <1>3, <1>4, <1>5, <1>6, <1>7, <1>8 DEF Nested

LEMMA OneIsInOrder ==
    ASSUME NEW nums, NEW a \in Nat, NEW k \in Nat, k <= 1
    PROVE  Ordered(nums, a, k)
<1>1. \A i, j \in a .. a + k - 1 : ~(i < j)
  OBVIOUS
<1> QED
  BY <1>1 DEF Ordered

\* The other calls have in order what they had.
LEMMA OrderEnds ==
    ASSUME NEW st \in Seq(Frames), NEW z, NEW g, EndsWith(z, st, g), NEW nums, PutInOrder(g, nums),
           \A k \in 1 .. Len(st) - 1 : PutInOrder(st[k], nums)
    PROVE  \A k \in 1 .. Len(z) : PutInOrder(z[k], nums)
<1>1. PICK m \in Nat : m = Len(st)
  BY LenProperties
<1>2. PICK l \in Nat : l = Len(z) /\ 1 <= l /\ l <= m
  <2>1. Len(z) \in 1 .. m
    BY <1>1 DEF EndsWith
  <2> QED
    BY <2>1
<1>3. z[l] = g /\ \A k \in 1 .. l - 1 : z[k] = st[k]
  BY <1>2 DEF EndsWith
<1>4. SUFFICES ASSUME NEW k \in 1 .. l PROVE PutInOrder(z[k], nums)
  BY <1>2
<1>5. k = l \/ (k \in 1 .. l - 1 /\ k \in 1 .. m - 1)
  BY <1>2
<1> QED
  BY <1>1, <1>3, <1>5

LEMMA OrderCalls ==
    ASSUME NEW st \in Seq(Frames), NEW h \in Frames, h.at = "start", NEW nums,
           \A k \in 1 .. Len(st) : PutInOrder(st[k], nums)
    PROVE  \A k \in 1 .. Len(Append(st, h)) : PutInOrder(Append(st, h)[k], nums)
<1>1. PICK m \in Nat : m = Len(st)
  BY LenProperties
<1>2. Len(Append(st, h)) = m + 1 /\ Append(st, h)[m + 1] = h /\ \A k \in 1 .. m : Append(st, h)[k] = st[k]
  BY <1>1, AppendProperties
<1>3. PutInOrder(h, nums)
  BY DEF PutInOrder
<1>4. SUFFICES ASSUME NEW k \in 1 .. m + 1 PROVE PutInOrder(Append(st, h)[k], nums)
  BY <1>2
<1>5. k = m + 1 \/ k \in 1 .. m
  OBVIOUS
<1> QED
  BY <1>1, <1>2, <1>3, <1>5

\* Where the parts of the calls are.
LEMMA NestedFacts ==
    ASSUME NEW st \in Seq(Frames), st # <<>>, NEW n \in Nat, Nested(st, n)
    PROVE  /\ Last(st) \in Frames /\ Len(st) \in 1 .. Len(st) /\ Last(st) = st[Len(st)]
           /\ Last(st).first + Last(st).size <= n + 1
           /\ IsDivided(Last(st))
           /\ \A k \in 1 .. Len(st) - 1 : /\ st[k] \in Frames /\ st[k].at \in {"left", "right"}
                                          /\ IsDivided(st[k])
                                          /\ st[k].at = "right" =>
                                               st[k].first + Middle(st[k]) <= Last(st).first
<1>1. PICK m \in Nat \ {0} : m = Len(st) /\ DOMAIN st = 1 .. m
  BY EmptySeq
<1>2. Last(st) = st[m] /\ st[m] \in Frames
  BY <1>1 DEF Last
<1>3. st[m].first + st[m].size <= n + 1
  <2>1. 1 \in 1 .. m /\ m \in 1 .. m /\ 1 <= m
    OBVIOUS
  <2>2. Within(st[m], st[1]) /\ st[1].first = 1 /\ st[1].size = n
    BY <1>1, <2>1 DEF Nested
  <2>3. st[m].first + st[m].size <= 1 + n
    BY <2>2 DEF Within
  <2>4. st[m].first + st[m].size \in Nat
    BY <1>2, SMTT(60) DEF Frames
  <2> QED
    BY <2>3, <2>4
<1>4. ASSUME NEW k \in 1 .. m - 1
      PROVE  /\ st[k] \in Frames /\ st[k].at \in {"left", "right"} /\ IsDivided(st[k])
             /\ st[k].at = "right" => st[k].first + Middle(st[k]) <= st[m].first
  <2>1. k \in 1 .. m /\ k + 1 \in 1 .. m /\ k + 1 <= m
    OBVIOUS
  <2>2. IsCalledBy(st[k + 1], st[k]) /\ IsDivided(st[k]) /\ st[k] \in Frames
    BY <1>1, <2>1 DEF Nested
  <2>3. Within(st[m], st[k + 1])
    BY <1>1, <2>1 DEF Nested
  <2>4. st[k].at = "right" => st[k + 1].first = st[k].first + Middle(st[k])
    BY <2>2 DEF IsCalledBy
  <2>5. st[k + 1].first <= st[m].first
    BY <2>3 DEF Within
  <2>6. st[k].at \in {"left", "right"}
    BY <2>2 DEF IsCalledBy
  <2> QED
    BY <2>2, <2>4, <2>5, <2>6
<1>5. IsDivided(st[m]) /\ m \in 1 .. m
  BY <1>1 DEF Nested
<1> QED
  BY <1>1, <1>2, <1>3, <1>4, <1>5

\* The halves of a part are the part.
LEMMA HalvesAreAll ==
    ASSUME NEW nums \in Seq(Int), NEW f \in Frames, f.first + f.size <= Len(nums) + 1
    PROVE  LET u == SubSeq(nums, LeftHalf(f).first, LeftHalf(f).first + LeftHalf(f).size - 1)
               v == SubSeq(nums, RightHalf(f).first, RightHalf(f).first + RightHalf(f).size - 1)
           IN  /\ u \in Seq(Int) /\ v \in Seq(Int)
               /\ u \o v = SubSeq(nums, f.first, f.first + f.size - 1)
               /\ Range(u) \cup Range(v) \subseteq Range(nums)
               /\ Ordered(nums, f.first, Middle(f)) => Sorted(u)
               /\ Ordered(nums, f.first + Middle(f), f.size - Middle(f)) => Sorted(v)
<1>1. PICK n \in Nat : n = Len(nums)
  BY LenProperties
<1>2. PICK a \in Nat \ {0} : a = f.first
  BY MiddleFacts
<1>3. PICK k \in Nat : k = f.size
  BY MiddleFacts
<1>4. PICK m \in Nat : m = Middle(f)
  BY MiddleFacts
<1>5. m <= k /\ a + k <= n + 1
  <2>1. Middle(f) <= f.size
    BY MiddleFacts
  <2> QED
    BY <1>1, <1>2, <1>3, <1>4, <2>1, Zenon
<1> DEFINE b == a + m
           l == k - m
           u == SubSeq(nums, a, a + m - 1)
           v == SubSeq(nums, b, b + l - 1)
<1>6. b \in Nat \ {0} /\ l \in Nat /\ b + l <= n + 1 /\ a + m <= n + 1 /\ b + l - 1 = a + k - 1
  BY <1>5
<1>7. u \in Seq(Int) /\ Range(u) \subseteq Range(nums) /\ (Ordered(nums, a, m) => Sorted(u))
  BY <1>1, <1>6, PartFacts
<1>8. v \in Seq(Int) /\ Range(v) \subseteq Range(nums) /\ (Ordered(nums, b, l) => Sorted(v))
  <2> HIDE DEF b, l
  <2> QED
    BY <1>1, <1>6, PartFacts
<1>9. u \o v = SubSeq(nums, a, a + k - 1)
  <2>1. /\ a \in 1 .. Len(nums) + 1 /\ a + m - 1 \in a - 1 .. Len(nums)
        /\ a + k - 1 \in a + m - 1 .. Len(nums) /\ a + m - 1 + 1 = b
    BY <1>1, <1>5
  <2>2. SubSeq(nums, a, a + m - 1) \o SubSeq(nums, a + m - 1 + 1, a + k - 1) = SubSeq(nums, a, a + k - 1)
    BY <2>1, ConcatAdjacentSubSeq
  <2> QED
    BY <1>6, <2>1, <2>2
<1>10. /\ LeftHalf(f).first = a /\ LeftHalf(f).size = m
       /\ RightHalf(f).first = a + m /\ RightHalf(f).size = k - m
  BY <1>2, <1>3, <1>4, HalfFacts
<1> QED
  BY <1>2, <1>3, <1>4, <1>7, <1>8, <1>9, <1>10, Zenon

\* A merge puts the part of its call in order and leaves the parts alone that the
\* calls around it have in order.
LEMMA MergeKeepsOrder ==
    ASSUME NEW nums \in Seq(Int), NEW st \in Seq(Frames), st # <<>>, Nested(st, Len(nums)),
           Last(st).at = "merge",
           NEW s \in Merges(SubSeq(nums, LeftHalf(Last(st)).first,
                                   LeftHalf(Last(st)).first + LeftHalf(Last(st)).size - 1),
                            SubSeq(nums, RightHalf(Last(st)).first,
                                   RightHalf(Last(st)).first + RightHalf(Last(st)).size - 1))
    PROVE  LET y == Replaced(nums, Last(st).first, Last(st).size, s)
           IN  /\ y \in Seq(Int) /\ Len(y) = Len(nums) /\ Same(y, nums)
               /\ Fits(Range(nums)) /\ (\A k \in 1 .. Len(st) : PutInOrder(st[k], nums)) =>
                    /\ Ordered(y, Last(st).first, Last(st).size)
                    /\ \A k \in 1 .. Len(st) - 1 : PutInOrder(st[k], y)
<1> DEFINE f == Last(st)
           u == SubSeq(nums, LeftHalf(f).first, LeftHalf(f).first + LeftHalf(f).size - 1)
           v == SubSeq(nums, RightHalf(f).first, RightHalf(f).first + RightHalf(f).size - 1)
           y == Replaced(nums, f.first, f.size, s)
<1>1. Len(nums) \in Nat
  BY LenProperties
<1>2. /\ f \in Frames /\ f.first + f.size <= Len(nums) + 1
      /\ Len(st) \in 1 .. Len(st) /\ f = st[Len(st)]
      /\ \A k \in 1 .. Len(st) - 1 : /\ st[k] \in Frames /\ st[k].at \in {"left", "right"}
                                     /\ st[k].at = "right" => st[k].first + Middle(st[k]) <= f.first
  BY <1>1, NestedFacts
<1>3. s \in Merges(u, v)
  OBVIOUS
<1> HIDE DEF f
<1>4. /\ u \in Seq(Int) /\ v \in Seq(Int)
      /\ u \o v = SubSeq(nums, f.first, f.first + f.size - 1)
      /\ Range(u) \cup Range(v) \subseteq Range(nums)
      /\ Ordered(nums, f.first, Middle(f)) => Sorted(u)
      /\ Ordered(nums, f.first + Middle(f), f.size - Middle(f)) => Sorted(v)
  BY <1>2, HalvesAreAll, ZenonT(120)
<1> HIDE DEF u, v
<1>5. /\ s \in Seq(Int) /\ Same(s, u \o v)
      /\ Fits(Range(u) \cup Range(v)) /\ Sorted(u) /\ Sorted(v) => Sorted(s)
  BY <1>3, <1>4, MergesFacts
<1>6. f.first \in Nat \ {0} /\ f.size \in Nat
  BY <1>2, MiddleFacts
<1>7. /\ y \in Seq(Int) /\ Len(y) = Len(nums) /\ Same(y, nums)
      /\ \A i \in 1 .. Len(nums) : i < f.first \/ i >= f.first + f.size => y[i] = nums[i]
      /\ Sorted(s) => Ordered(y, f.first, f.size)
  <2>1. Same(s, SubSeq(nums, f.first, f.first + f.size - 1))
    BY <1>4, <1>5
  <2> QED
    BY <1>2, <1>5, <1>6, <2>1, ReplacedFacts
<1> HIDE DEF y
<1>8. ASSUME Fits(Range(nums)), \A k \in 1 .. Len(st) : PutInOrder(st[k], nums)
      PROVE  /\ Ordered(y, f.first, f.size)
             /\ \A k \in 1 .. Len(st) - 1 : PutInOrder(st[k], y)
  <2>1. Ordered(y, f.first, f.size)
    <3>1. PutInOrder(f, nums) /\ f.at = "merge"
      BY <1>2, <1>8 DEF f
    <3>2. Sorted(u) /\ Sorted(v)
      BY <1>4, <3>1 DEF PutInOrder
    <3>3. Fits(Range(u) \cup Range(v))
      BY <1>4, <1>8 DEF Fits
    <3> QED
      BY <1>5, <1>7, <3>2, <3>3
  <2>2. ASSUME NEW k \in 1 .. Len(st) - 1 PROVE PutInOrder(st[k], y)
    <3>1. CASE st[k].at = "left"
      BY <3>1 DEF PutInOrder
    <3>2. CASE st[k].at = "right"
      <4>1. PICK a \in Nat \ {0} : a = st[k].first
        BY <1>2, MiddleFacts
      <4>2. PICK m \in Nat : m = Middle(st[k])
        BY <1>2, MiddleFacts
      <4>3. k \in 1 .. Len(st)
        BY LenProperties
      <4>4. Ordered(nums, a, m)
        BY <1>8, <3>2, <4>1, <4>2, <4>3 DEF PutInOrder
      <4>5. a + m <= f.first
        BY <1>2, <3>2, <4>1, <4>2
      <4>6. ASSUME NEW i \in a .. a + m - 1 PROVE y[i] = nums[i]
        <5>1. i < f.first /\ i \in 1 .. Len(nums)
          BY <1>1, <1>2, <1>6, <4>5, SMTT(60)
        <5> QED
          BY <1>7, <5>1
      <4>7. Ordered(y, a, m)
        BY <4>4, <4>6 DEF Ordered
      <4> QED
        BY <3>2, <4>1, <4>2, <4>7 DEF PutInOrder
    <3> QED
      BY <1>2, <3>1, <3>2
  <2> QED
    BY <2>1, <2>2
<1> QED
  BY <1>7, <1>8 DEF f, y

-----------------------------------------------------------------------------
(* One coroutine *)

\* A coroutine with these numbers read from this file, here, in these calls; good
\* says that the numbers are comparable and no malloc has failed.
Works(nums, file, place, st, good) ==
    /\ nums = Unset => place \in {"read", "end"}
    /\ nums # Unset => Same(nums, file)
    /\ place # "sort" => st = <<>>
    /\ st # <<>> => Nested(st, Len(nums))
    /\ good => /\ \A k \in 1 .. Len(st) : PutInOrder(st[k], nums)
               /\ place = "end" /\ nums # Unset => Sorted(nums)

LEMMA WholeIsOrdered ==
    ASSUME NEW nums \in Seq(Int), Ordered(nums, 1, Len(nums))
    PROVE  Sorted(nums)
<1>1. PICK n \in Nat : n = Len(nums) /\ DOMAIN nums = 1 .. n
  BY LenProperties
<1>2. 1 + n - 1 = n
  OBVIOUS
<1> QED
  BY <1>1, <1>2 DEF Ordered, Sorted, IsSorted

LEMMA EmptyWorks ==
    ASSUME NEW nums, NEW file, NEW place, nums = Unset => place \in {"read", "end"},
           nums # Unset => Same(nums, file), NEW good,
           good /\ place = "end" /\ nums # Unset => Sorted(nums)
    PROVE  Works(nums, file, place, <<>>, good)
<1>1. \A k \in 1 .. Len(<<>>) : FALSE
  OBVIOUS
<1> QED
  BY <1>1, Zenon DEF Works

\* The innermost call moves on.
LEMMA WorksMoves ==
    ASSUME NEW nums \in Seq(Int), NEW file, NEW st \in Seq(Frames), st # <<>>,
           NEW good, Works(nums, file, "sort", st, good), NEW still, still => good,
           NEW w \in FramePlaces, IsDivided([Last(st) EXCEPT !.at = w]),
           still /\ PutInOrder(Last(st), nums) => PutInOrder([Last(st) EXCEPT !.at = w], nums)
    PROVE  LET z == Front(st) \o <<[Last(st) EXCEPT !.at = w]>> \o <<>>
           IN  z \in Seq(Frames) /\ Works(nums, file, "sort", z, still)
<1> DEFINE g == [Last(st) EXCEPT !.at = w]
           z == Front(st) \o <<g>> \o <<>>
<1>1. PICK m \in Nat \ {0} : m = Len(st) /\ DOMAIN st = 1 .. m
  BY EmptySeq
<1>2. Last(st) = st[m] /\ Last(st) \in Frames
  BY <1>1 DEF Last
<1>3. g \in Frames
  BY <1>2, MovedFacts
<1>4. EndsWith(z, st, g) /\ Len(z) = Len(st)
  BY TopMoves
<1>5. nums # Unset
  BY SortingAssumption
<1> HIDE DEF g, z
<1>6. Nested(z, Len(nums)) /\ z \in Seq(Frames)
  <2>1. Nested(st, Len(nums)) /\ IsDivided(g)
    BY DEF Works, g
  <2> QED
    BY <1>3, <1>4, <2>1, NestedEnds DEF EndsWith
<1>7. ASSUME still PROVE \A k \in 1 .. Len(z) : PutInOrder(z[k], nums)
  <2>1. \A k \in 1 .. m : PutInOrder(st[k], nums)
    BY <1>1, <1>7 DEF Works
  <2>2. PutInOrder(g, nums)
    <3>1. m \in 1 .. m
      OBVIOUS
    <3> QED
      BY <1>2, <1>7, <2>1, <3>1 DEF g
  <2>3. \A k \in 1 .. m - 1 : PutInOrder(st[k], nums)
    BY <2>1
  <2> QED
    BY <1>1, <1>4, <2>2, <2>3, OrderEnds
<1>8. Same(nums, file)
  BY <1>5 DEF Works
<1> QED
  BY <1>5, <1>6, <1>7, <1>8 DEF Works, z, g

\* The innermost call makes one.
LEMMA WorksCalls ==
    ASSUME NEW nums \in Seq(Int), NEW file, NEW st \in Seq(Frames), st # <<>>,
           NEW good, Works(nums, file, "sort", st, good),
           NEW w \in FramePlaces, IsDivided([Last(st) EXCEPT !.at = w]),
           PutInOrder(Last(st), nums) => PutInOrder([Last(st) EXCEPT !.at = w], nums),
           NEW h, \/ w = "left" /\ h = LeftHalf(Last(st))
                  \/ w = "right" /\ h = RightHalf(Last(st))
    PROVE  LET z == Front(st) \o <<[Last(st) EXCEPT !.at = w]>> \o <<h>>
           IN  z \in Seq(Frames) /\ Works(nums, file, "sort", z, good)
<1> DEFINE g == [Last(st) EXCEPT !.at = w]
           y == Front(st) \o <<g>> \o <<>>
           z == Front(st) \o <<g>> \o <<h>>
<1>1. PICK m \in Nat \ {0} : m = Len(st) /\ DOMAIN st = 1 .. m
  BY EmptySeq
<1>2. Last(st) \in Frames
  BY <1>1 DEF Last
<1>3. g \in Frames /\ g.first = Last(st).first /\ g.size = Last(st).size /\ g.at = w /\ Middle(g) = Middle(Last(st))
  BY <1>2, MovedFacts
<1>4. h \in Frames /\ h.at = "start" /\ Within(h, Last(st)) /\ IsCalledBy(h, g)
  <2>1. CASE w = "left" /\ h = LeftHalf(Last(st))
    BY <1>2, <1>3, <2>1, HalfFacts DEF IsCalledBy
  <2>2. CASE w = "right" /\ h = RightHalf(Last(st))
    BY <1>2, <1>3, <2>2, HalfFacts DEF IsCalledBy
  <2> QED
    BY <2>1, <2>2
<1>5. y \in Seq(Frames) /\ Works(nums, file, "sort", y, good)
  BY WorksMoves
<1>6. EndsWith(y, st, g) /\ Len(y) = Len(st) /\ z = Append(y, h)
  BY <1>4, TopCalls
<1>7. Within(h, g)
  BY <1>3, <1>4 DEF Within
<1> HIDE DEF g, y, z
<1>8. y # <<>> /\ Last(y) = g
  <2>1. Len(y) # 0
    BY <1>1, <1>6
  <2> QED
    BY <1>5, <1>6, <2>1, EmptySeq DEF EndsWith, Last
<1>9. Nested(z, Len(nums)) /\ z \in Seq(Frames)
  <2>1. Nested(y, Len(nums))
    BY <1>5, <1>8 DEF Works
  <2>2. Nested(Append(y, h), Len(nums))
    BY <1>4, <1>5, <1>7, <1>8, <2>1, NestedCalls
  <2> QED
    BY <1>4, <1>5, <1>6, <2>2, AppendProperties
<1>10. ASSUME good PROVE \A k \in 1 .. Len(z) : PutInOrder(z[k], nums)
  <2>1. \A k \in 1 .. Len(y) : PutInOrder(y[k], nums)
    BY <1>5, <1>10 DEF Works
  <2> QED
    BY <1>4, <1>5, <1>6, <2>1, OrderCalls
<1>11. Same(nums, file) /\ nums # Unset
  BY SortingAssumption DEF Works
<1> QED
  BY <1>9, <1>10, <1>11 DEF Works, z, g

\* The innermost call and the one around it.
LEMMA Innermost ==
    ASSUME NEW st \in Seq(Frames), st # <<>>
    PROVE  /\ Len(st) \in 1 .. Len(st) /\ Last(st) = st[Len(st)] /\ Last(st) \in Frames
           /\ Front(st) = <<>> => Len(st) = 1
           /\ Front(st) # <<>> =>
                /\ Len(st) - 1 \in 1 .. Len(st) - 1 /\ Len(st) - 1 \in 1 .. Len(st)
                /\ Last(Front(st)) = st[Len(st) - 1] /\ Last(Front(st)) \in Frames
<1>1. PICK m \in Nat \ {0} : m = Len(st) /\ DOMAIN st = 1 .. m
  BY EmptySeq
<1>2. st[m] \in Frames /\ Last(st) = st[m] /\ m \in 1 .. m
  BY <1>1 DEF Last
<1>3. Front(st) \in Seq(Frames) /\ Len(Front(st)) = m - 1
  BY <1>1 DEF Front
<1>4. ASSUME Front(st) = <<>> PROVE m = 1
  BY <1>3, <1>4
<1>5. ASSUME Front(st) # <<>>
      PROVE  /\ m - 1 \in 1 .. m - 1 /\ m - 1 \in 1 .. m
             /\ Last(Front(st)) = st[m - 1] /\ st[m - 1] \in Frames
  <2>1. "left" \in FramePlaces
    BY DEF FramePlaces
  <2>2. Len(st) > 1 /\ Last(Front(st)) = st[Len(st) - 1]
    BY <1>5, <2>1, TopReturns
  <2>3. m > 1
    BY <1>1, <2>2
  <2>4. m - 1 \in 1 .. m - 1 /\ m - 1 \in 1 .. m
    BY <2>3
  <2> QED
    BY <1>1, <2>2, <2>4
<1> QED
  BY <1>1, <1>2, <1>4, <1>5, Zenon

\* Who is called by whom, and what a call has in order when it returns.
LEMMA CallersFacts ==
    ASSUME NEW n, NEW st \in Seq(Frames), Nested(st, n), Len(st) - 1 \in 1 .. Len(st) - 1
    PROVE  IsCalledBy(st[Len(st)], st[Len(st) - 1]) /\ IsDivided(st[Len(st) - 1])
<1>1. PICK m \in Nat : m = Len(st)
  BY LenProperties
<1>2. m - 1 \in 1 .. m - 1
  BY <1>1, Zenon
<1>3. m - 1 \in 1 .. m /\ (m - 1) + 1 = m
  BY ONLY m \in Nat, <1>2
<1>4. IsCalledBy(st[(m - 1) + 1], st[m - 1])
  BY <1>1, <1>2, Zenon DEF Nested
<1>5. IsDivided(st[m - 1])
  BY <1>1, <1>3, Zenon DEF Nested
<1>6. IsCalledBy(st[m], st[m - 1])
  BY <1>3, <1>4, Zenon
<1> QED
  BY <1>1, <1>5, <1>6, Zenon

LEMMA AfterFacts ==
    ASSUME NEW nums, NEW f \in Frames, NEW h \in Frames, IsCalledBy(h, f), IsDivided(f),
           h.at \in {"returns 0", "returns -1"}
    PROVE  LET w == After(f, h.at)
               g == [f EXCEPT !.at = w]
           IN  /\ w \in FramePlaces /\ IsDivided(g)
               /\ PutInOrder(f, nums) /\ PutInOrder(h, nums) => PutInOrder(g, nums)
<1> DEFINE w == After(f, h.at)
           g == [f EXCEPT !.at = w]
<1>1. f.at \in {"left", "right"}
  BY DEF IsCalledBy
<1>2. w \in {"returns -1", "yield after left", "yield after right"}
      /\ (f.at = "right" => w = "yield after right")
      /\ (f.at = "left" /\ h.at = "returns 0" => w = "yield after left")
  BY <1>1 DEF After
<1>3. w \in FramePlaces
  BY <1>2 DEF FramePlaces
<1> HIDE DEF w
<1>4. g \in Frames /\ g.first = f.first /\ g.size = f.size /\ g.at = w /\ Middle(g) = Middle(f)
  BY <1>3, MovedFacts
<1> HIDE DEF g
<1>5. IsDivided(g)
  <2>1. f.at \notin {"start", "returns 0"}
    BY <1>1
  <2> QED
    BY <1>4, <2>1, Zenon DEF IsDivided
<1>6. ASSUME PutInOrder(f, nums), PutInOrder(h, nums) PROVE PutInOrder(g, nums)
  <2>1. h.at = "returns 0"
    BY <1>6, Zenon DEF PutInOrder
  <2>2. Ordered(nums, h.first, h.size)
    BY <1>6, <2>1, Zenon DEF PutInOrder
  <2>3. CASE f.at = "left"
    <3>1. w = "yield after left"
      BY <1>2, <2>1, <2>3
    <3>2. h.first = f.first /\ h.size = Middle(f)
      BY <2>3, Zenon DEF IsCalledBy
    <3>3. Ordered(nums, f.first, Middle(f))
      BY <2>2, <3>2, Zenon
    <3> QED
      BY <1>4, <3>1, <3>3 DEF PutInOrder
  <2>4. CASE f.at = "right"
    <3>1. w = "yield after right"
      BY <1>2, <2>4
    <3>2. h.first = f.first + Middle(f) /\ h.size = f.size - Middle(f)
      BY <2>4, Zenon DEF IsCalledBy
    <3>3. Ordered(nums, f.first + Middle(f), f.size - Middle(f))
      BY <2>2, <3>2, Zenon
    <3>4. Ordered(nums, f.first, Middle(f))
      BY <1>6, <2>4 DEF PutInOrder
    <3> QED
      BY <1>4, <3>1, <3>3, <3>4 DEF PutInOrder
  <2> QED
    BY <1>1, <2>3, <2>4
<1> QED
  BY <1>3, <1>5, <1>6 DEF w, g

\* It returns to the one around it.
LEMMA WorksReturns ==
    ASSUME NEW nums \in Seq(Int), NEW file, NEW st \in Seq(Frames), st # <<>>, Front(st) # <<>>,
           NEW good, Works(nums, file, "sort", st, good),
           Last(st).at \in {"returns 0", "returns -1"}
    PROVE  LET z == Front(Front(st)) \o
                    <<[Last(Front(st)) EXCEPT !.at = After(Last(Front(st)), Last(st).at)]>>
           IN  z \in Seq(Frames) /\ Works(nums, file, "sort", z, good)
<1> DEFINE f == Last(Front(st))
           w == After(f, Last(st).at)
           g == [f EXCEPT !.at = w]
           z == Front(Front(st)) \o <<g>>
<1>1. /\ Len(st) \in 1 .. Len(st) /\ Last(st) = st[Len(st)] /\ Last(st) \in Frames
      /\ Len(st) - 1 \in 1 .. Len(st) - 1 /\ Len(st) - 1 \in 1 .. Len(st)
      /\ f = st[Len(st) - 1] /\ f \in Frames
  BY Innermost, Zenon
<1>2. Nested(st, Len(nums)) /\ nums # Unset /\ Same(nums, file)
  BY SortingAssumption, Zenon DEF Works
<1>3. IsCalledBy(Last(st), f) /\ IsDivided(f)
  <2>1. IsCalledBy(st[Len(st)], st[Len(st) - 1]) /\ IsDivided(st[Len(st) - 1])
    BY <1>1, <1>2, CallersFacts, Zenon
  <2> QED
    BY <1>1, <2>1, Zenon
<1>4. f \in Frames /\ Last(st) \in Frames
  BY <1>1, Zenon
<1>5. /\ w \in FramePlaces /\ IsDivided(g)
      /\ PutInOrder(f, nums) /\ PutInOrder(Last(st), nums) => PutInOrder(g, nums)
  BY <1>3, <1>4, AfterFacts, Zenon
<1>6. Len(z) = Len(st) - 1 /\ EndsWith(z, st, g)
  BY <1>5, TopReturns, Zenon
<1>7. g \in Frames
  BY <1>4, <1>5, MovedFacts, Zenon
<1>8. Nested(z, Len(nums)) /\ z \in Seq(Frames)
  BY <1>2, <1>5, <1>6, <1>7, NestedEnds, Zenon DEF EndsWith
<1>9. ASSUME good PROVE \A k \in 1 .. Len(z) : PutInOrder(z[k], nums)
  <2>1. \A k \in 1 .. Len(st) : PutInOrder(st[k], nums)
    BY <1>9, Zenon DEF Works
  <2>2. PutInOrder(f, nums) /\ PutInOrder(Last(st), nums)
    BY <1>1, <2>1, Zenon
  <2>3. PutInOrder(g, nums)
    BY <1>5, <2>2, Zenon
  <2>4. \A k \in 1 .. Len(st) - 1 : PutInOrder(st[k], nums)
    BY ONLY <2>1, LenProperties, st \in Seq(Frames)
  <2> QED
    BY <1>6, <2>3, <2>4, OrderEnds, Zenon
<1> HIDE DEF z
<1>10. Works(nums, file, "sort", z, good)
  BY <1>2, <1>8, <1>9, Zenon DEF Works
<1> QED
  BY <1>8, <1>10 DEF z

\* The outermost call returns.
LEMMA WorksEnds ==
    ASSUME NEW nums \in Seq(Int), NEW file, NEW st \in Seq(Frames), st # <<>>, Front(st) = <<>>,
           NEW good, Works(nums, file, "sort", st, good),
           Last(st).at \in {"returns 0", "returns -1"}
    PROVE  Works(nums, file, "end", <<>>, good)
<1>1. Len(st) \in 1 .. Len(st) /\ Last(st) = st[Len(st)] /\ Len(st) = 1
  BY Innermost, Zenon
<1>2. 1 \in 1 .. Len(st) /\ Last(st) = st[1]
  BY <1>1, Zenon
<1>3. nums # Unset /\ Same(nums, file) /\ Nested(st, Len(nums))
  BY SortingAssumption, Zenon DEF Works
<1>4. Last(st).first = 1 /\ Last(st).size = Len(nums)
  BY <1>2, <1>3, Zenon DEF Nested
<1>5. ASSUME good PROVE Sorted(nums)
  <2>1. PutInOrder(Last(st), nums)
    BY <1>2, <1>5, Zenon DEF Works
  <2>2. Last(st).at = "returns 0"
    BY <2>1, Zenon DEF PutInOrder
  <2>3. Ordered(nums, 1, Len(nums))
    BY <1>4, <2>1, <2>2, Zenon DEF PutInOrder
  <2> QED
    BY ONLY <2>3, nums \in Seq(Int), WholeIsOrdered, Zenon
<1> QED
  BY <1>3, <1>5, EmptyWorks, Zenon

\* The innermost call merges.
LEMMA WorksMerges ==
    ASSUME NEW nums \in Seq(Int), NEW file \in Seq(Int), NEW st \in Seq(Frames), st # <<>>,
           NEW good, Works(nums, file, "sort", st, good), good => Fits(Range(file)),
           Last(st).at = "merge",
           NEW s \in Merges(SubSeq(nums, LeftHalf(Last(st)).first,
                                   LeftHalf(Last(st)).first + LeftHalf(Last(st)).size - 1),
                            SubSeq(nums, RightHalf(Last(st)).first,
                                   RightHalf(Last(st)).first + RightHalf(Last(st)).size - 1))
    PROVE  LET z == Front(st) \o <<[Last(st) EXCEPT !.at = "returns 0"]>> \o <<>>
               y == Replaced(nums, Last(st).first, Last(st).size, s)
           IN  z \in Seq(Frames) /\ y \in Seq(Int) /\ Works(y, file, "sort", z, good)
<1> DEFINE g == [Last(st) EXCEPT !.at = "returns 0"]
           z == Front(st) \o <<g>> \o <<>>
           y == Replaced(nums, Last(st).first, Last(st).size, s)
<1>0. "returns 0" \in FramePlaces
  BY DEF FramePlaces
<1>1. PICK m \in Nat \ {0} : m = Len(st) /\ DOMAIN st = 1 .. m
  BY EmptySeq
<1>2. Last(st) \in Frames
  BY <1>1 DEF Last
<1>3. g \in Frames /\ g.first = Last(st).first /\ g.size = Last(st).size /\ g.at = "returns 0"
  BY <1>0, <1>2, MovedFacts
<1>4. EndsWith(z, st, g)
  BY <1>0, TopMoves
<1>5. nums # Unset /\ Same(nums, file) /\ Nested(st, Len(nums))
  BY SortingAssumption DEF Works
<1>6. /\ y \in Seq(Int) /\ Len(y) = Len(nums) /\ Same(y, nums)
      /\ Fits(Range(nums)) /\ (\A k \in 1 .. Len(st) : PutInOrder(st[k], nums)) =>
           /\ Ordered(y, Last(st).first, Last(st).size)
           /\ \A k \in 1 .. Len(st) - 1 : PutInOrder(st[k], y)
  BY <1>5, MergeKeepsOrder
<1> HIDE DEF g, z, y
<1>7. Same(y, file) /\ y # Unset
  BY <1>5, <1>6, SameFacts, SortingAssumption
<1>8. Nested(z, Len(y)) /\ z \in Seq(Frames)
  <2>1. IsDivided(g)
    BY <1>3 DEF IsDivided
  <2> QED
    BY <1>3, <1>4, <1>5, <1>6, <2>1, NestedEnds DEF EndsWith
<1>9. ASSUME good PROVE \A k \in 1 .. Len(z) : PutInOrder(z[k], y)
  <2>1. \A k \in 1 .. Len(st) : PutInOrder(st[k], nums)
    BY <1>9 DEF Works
  <2>2. Fits(Range(nums))
    BY <1>5, <1>9, SameFacts
  <2>3. /\ Ordered(y, Last(st).first, Last(st).size)
        /\ \A k \in 1 .. Len(st) - 1 : PutInOrder(st[k], y)
    BY <1>6, <2>1, <2>2
  <2>4. PutInOrder(g, y)
    BY <1>3, <2>3 DEF PutInOrder
  <2> QED
    BY <1>4, <2>3, <2>4, OrderEnds
<1> QED
  BY <1>6, <1>7, <1>8, <1>9 DEF Works, z, y, g

-----------------------------------------------------------------------------
(* The steps of a coroutine, by what they do to its calls *)

LEMMA WorksWeaker ==
    ASSUME NEW nums, NEW file, NEW place, NEW st, NEW good, NEW still, still => good,
           Works(nums, file, place, st, good)
    PROVE  Works(nums, file, place, st, still)
  BY Zenon DEF Works

LEMMA WorksStarts ==
    ASSUME NEW nums \in Seq(Int), NEW file, Same(nums, file), NEW good
    PROVE  LET st == <<Frame(1, Len(nums))>>
           IN  st \in Seq(Frames) /\ Works(nums, file, "sort", st, good)
<1> DEFINE f == Frame(1, Len(nums))
           st == <<f>>
<1>1. f \in Frames /\ f.first = 1 /\ f.size = Len(nums) /\ f.at = "start"
  <2>1. Len(nums) \in Nat /\ 1 \in Nat \ {0} /\ "start" \in FramePlaces
    BY LenProperties DEF FramePlaces
  <2> QED
    BY <2>1 DEF Frame, Frames
<1> HIDE DEF f
<1>2. st \in Seq(Frames) /\ Len(st) = 1 /\ st[1] = f
  BY <1>1
<1>3. Nested(st, Len(nums))
  <2>1. Within(f, f) /\ IsDivided(f)
    BY <1>1 DEF Within, IsDivided, Frames
  <2>2. \A k \in 1 .. Len(st) : k = 1
    BY <1>2
  <2>3. \A k \in 1 .. Len(st) - 1 : FALSE
    BY <1>2
  <2> QED
    BY <1>1, <1>2, <2>1, <2>2, <2>3, Zenon DEF Nested
<1>4. \A k \in 1 .. Len(st) : PutInOrder(st[k], nums)
  <2>1. PutInOrder(f, nums)
    BY <1>1 DEF PutInOrder
  <2>2. \A k \in 1 .. Len(st) : k = 1
    BY <1>2
  <2> QED
    BY <1>2, <2>1, <2>2
<1>5. nums # Unset
  BY SortingAssumption
<1> HIDE DEF st
<1> QED
  BY <1>2, <1>3, <1>4, <1>5 DEF Works, st, f

\* What holds of the innermost call of a stack.
LEMMA WorksInnermost ==
    ASSUME NEW nums \in Seq(Int), NEW file, NEW st \in Seq(Frames), st # <<>>,
           NEW good, Works(nums, file, "sort", st, good)
    PROVE  Last(st) \in Frames /\ IsDivided(Last(st))
<1>1. Nested(st, Len(nums)) /\ Len(nums) \in Nat
  BY LenProperties DEF Works
<1> QED
  BY <1>1, NestedFacts

LEMMA Divided ==
    ASSUME NEW f \in Frames, NEW w \in FramePlaces, ~(f.size <= 1)
    PROVE  IsDivided([f EXCEPT !.at = w])
<1>1. [f EXCEPT !.at = w].size = f.size
  BY MovedFacts
<1>2. f.size > 1
  BY MiddleFacts
<1> QED
  BY <1>1, <1>2, Zenon DEF IsDivided

LEMMA StillDivided ==
    ASSUME NEW f \in Frames, NEW w \in FramePlaces, IsDivided(f), f.at \notin {"start", "returns 0"}
    PROVE  IsDivided([f EXCEPT !.at = w])
<1>1. [f EXCEPT !.at = w].size = f.size
  BY MovedFacts
<1> QED
  BY <1>1, Zenon DEF IsDivided

LEMMA WorksIsShort ==
    ASSUME NEW nums \in Seq(Int), NEW file, NEW st \in Seq(Frames), st # <<>>,
           NEW good, Works(nums, file, "sort", st, good),
           Last(st).at = "start", Last(st).size <= 1
    PROVE  LET z == Front(st) \o <<[Last(st) EXCEPT !.at = "returns 0"]>> \o <<>>
           IN  z \in Seq(Frames) /\ Works(nums, file, "sort", z, good)
<1> DEFINE g == [Last(st) EXCEPT !.at = "returns 0"]
<1>1. "returns 0" \in FramePlaces
  BY DEF FramePlaces
<1>2. Last(st) \in Frames
  BY WorksInnermost, Zenon
<1>3. g.first = Last(st).first /\ g.size = Last(st).size /\ g.at = "returns 0"
  BY <1>1, <1>2, MovedFacts, Zenon
<1>4. IsDivided(g)
  BY <1>3 DEF IsDivided
<1>5. Ordered(nums, Last(st).first, Last(st).size)
  <2>1. Last(st).first \in Nat /\ Last(st).size \in Nat
    BY <1>2 DEF Frames
  <2> QED
    BY <2>1, OneIsInOrder
<1>6. PutInOrder(g, nums)
  BY <1>3, <1>5 DEF PutInOrder
<1> HIDE DEF g
<1>7. good => good
  OBVIOUS
<1> QED
  BY <1>1, <1>4, <1>6, <1>7, WorksMoves, Zenon DEF g

LEMMA WorksCallsLeft ==
    ASSUME NEW nums \in Seq(Int), NEW file, NEW st \in Seq(Frames), st # <<>>,
           NEW good, Works(nums, file, "sort", st, good),
           Last(st).at = "start", ~(Last(st).size <= 1)
    PROVE  LET z == Front(st) \o <<[Last(st) EXCEPT !.at = "left"]>> \o <<LeftHalf(Last(st))>>
           IN  z \in Seq(Frames) /\ Works(nums, file, "sort", z, good)
<1>1. "left" \in FramePlaces
  BY DEF FramePlaces
<1>2. Last(st) \in Frames
  BY WorksInnermost, Zenon
<1>3. IsDivided([Last(st) EXCEPT !.at = "left"])
  BY <1>1, <1>2, Divided, Zenon
<1>4. [Last(st) EXCEPT !.at = "left"].at = "left"
  BY <1>1, <1>2, MovedFacts, Zenon
<1>5. PutInOrder([Last(st) EXCEPT !.at = "left"], nums)
  BY <1>4 DEF PutInOrder
<1> QED
  BY <1>1, <1>3, <1>5, WorksCalls, Zenon

LEMMA WorksCallsRight ==
    ASSUME NEW nums \in Seq(Int), NEW file, NEW st \in Seq(Frames), st # <<>>,
           NEW good, Works(nums, file, "sort", st, good), Last(st).at = "yield after left"
    PROVE  LET z == Front(st) \o <<[Last(st) EXCEPT !.at = "right"]>> \o <<RightHalf(Last(st))>>
           IN  z \in Seq(Frames) /\ Works(nums, file, "sort", z, good)
<1> DEFINE g == [Last(st) EXCEPT !.at = "right"]
<1>1. "right" \in FramePlaces
  BY DEF FramePlaces
<1>2. Last(st) \in Frames /\ IsDivided(Last(st))
  BY WorksInnermost, Zenon
<1>3. IsDivided(g)
  <2>1. Last(st).at \notin {"start", "returns 0"}
    OBVIOUS
  <2> QED
    BY <1>1, <1>2, <2>1, StillDivided, Zenon
<1>4. g.at = "right" /\ g.first = Last(st).first /\ Middle(g) = Middle(Last(st))
  BY <1>1, <1>2, MovedFacts, Zenon
<1> HIDE DEF g
<1>5. PutInOrder(Last(st), nums) => PutInOrder(g, nums)
  BY <1>4 DEF PutInOrder
<1> QED
  BY <1>1, <1>3, <1>5, WorksCalls, Zenon DEF g

LEMMA WorksGoesToMerge ==
    ASSUME NEW nums \in Seq(Int), NEW file, NEW st \in Seq(Frames), st # <<>>,
           NEW good, Works(nums, file, "sort", st, good), Last(st).at = "yield after right"
    PROVE  LET z == Front(st) \o <<[Last(st) EXCEPT !.at = "merge"]>> \o <<>>
           IN  z \in Seq(Frames) /\ Works(nums, file, "sort", z, good)
<1> DEFINE g == [Last(st) EXCEPT !.at = "merge"]
<1>1. "merge" \in FramePlaces
  BY DEF FramePlaces
<1>2. Last(st) \in Frames /\ IsDivided(Last(st))
  BY WorksInnermost, Zenon
<1>3. IsDivided(g)
  <2>1. Last(st).at \notin {"start", "returns 0"}
    OBVIOUS
  <2> QED
    BY <1>1, <1>2, <2>1, StillDivided, Zenon
<1>4. g.at = "merge" /\ g.first = Last(st).first /\ g.size = Last(st).size /\ Middle(g) = Middle(Last(st))
  BY <1>1, <1>2, MovedFacts, Zenon
<1> HIDE DEF g
<1>5. PutInOrder(Last(st), nums) => PutInOrder(g, nums)
  <2>1. ASSUME PutInOrder(Last(st), nums) PROVE PutInOrder(g, nums)
    <3>1. Ordered(nums, Last(st).first, Middle(Last(st)))
      BY <2>1 DEF PutInOrder
    <3>2. Ordered(nums, Last(st).first + Middle(Last(st)), Last(st).size - Middle(Last(st)))
      BY <2>1 DEF PutInOrder
    <3>3. Ordered(nums, g.first, Middle(g)) /\ Ordered(nums, g.first + Middle(g), g.size - Middle(g))
      BY <1>4, <3>1, <3>2, Zenon
    <3> QED
      BY <1>4, <3>3 DEF PutInOrder
  <2> QED
    BY <2>1
<1>6. good => good
  OBVIOUS
<1> QED
  BY <1>1, <1>3, <1>5, <1>6, WorksMoves, Zenon DEF g

LEMMA WorksFails ==
    ASSUME NEW nums \in Seq(Int), NEW file, NEW st \in Seq(Frames), st # <<>>,
           NEW good, Works(nums, file, "sort", st, good), Last(st).at = "merge"
    PROVE  LET z == Front(st) \o <<[Last(st) EXCEPT !.at = "returns -1"]>> \o <<>>
           IN  z \in Seq(Frames) /\ Works(nums, file, "sort", z, FALSE)
<1> DEFINE g == [Last(st) EXCEPT !.at = "returns -1"]
<1>1. "returns -1" \in FramePlaces
  BY DEF FramePlaces
<1>2. Last(st) \in Frames /\ IsDivided(Last(st))
  BY WorksInnermost, Zenon
<1>3. IsDivided(g)
  <2>1. Last(st).at \notin {"start", "returns 0"}
    OBVIOUS
  <2> QED
    BY <1>1, <1>2, <2>1, StillDivided, Zenon
<1>4. (FALSE => good) /\ (FALSE /\ PutInOrder(Last(st), nums) => PutInOrder(g, nums))
  OBVIOUS
<1> HIDE DEF g
<1> QED
  BY <1>1, <1>3, <1>4, WorksMoves, Zenon DEF g

-----------------------------------------------------------------------------
(* What is in the files *)

LEMMA FilesFacts ==
    ASSUME files \in Inputs
    PROVE  /\ files \in Seq(Seq(Int)) /\ Len(files) = Cardinality(Coros)
           /\ Cardinality(Coros) \in Nat /\ Coros = 1 .. Cardinality(Coros)
           /\ \A c \in Coros : files[c] \in Seq(Int) /\ Range(files[c]) \subseteq IntMin .. IntMax
<1>1. Cardinality(Coros) \in Nat
  BY SortingAssumption, FS_CardinalityType
<1>2. PICK n \in Nat : n = Cardinality(Coros)
  BY <1>1
<1>3. Coros = 1 .. n
  BY <1>2, SortingAssumption, Zenon
<1>4. files \in [1 .. n -> Seq(IntMin .. IntMax)]
  BY <1>3, SortingAssumption
<1>5. ASSUME NEW t \in Seq(IntMin .. IntMax)
      PROVE  t \in Seq(Int) /\ Range(t) \subseteq IntMin .. IntMax
  <2>1. DOMAIN t = 1 .. Len(t) /\ \A i \in 1 .. Len(t) : t[i] \in IntMin .. IntMax
    BY LenProperties, ElementOfSeq, Zenon
  <2>2. Range(t) \subseteq IntMin .. IntMax
    BY <2>1 DEF Range
  <2>3. \A i \in 1 .. Len(t) : t[i] \in Int
    BY <2>1, SortingAssumption
  <2> QED
    BY <2>2, <2>3
<1>6. files \in [1 .. n -> Seq(Int)]
  BY <1>4, <1>5
<1>7. files \in Seq(Seq(Int)) /\ Len(files) = n
  BY <1>6
<1> QED
  BY <1>1, <1>2, <1>3, <1>4, <1>5, <1>7

LEMMA FirstOfRanges ==
    ASSUME files \in Inputs, NEW k \in 0 .. Cardinality(Coros)
    PROVE  /\ FirstOf(files, k) \in Seq(Int)
           /\ Range(FirstOf(files, k)) \subseteq IntMin .. IntMax
           /\ Range(FirstOf(files, k)) \subseteq Range(AllNumbers)
<1>1. PICK n \in Nat : n = Cardinality(Coros)
  BY FilesFacts
<1>2. files \in Seq(Seq(Int)) /\ Len(files) = n /\ Coros = 1 .. n
  BY <1>1, FilesFacts
<1>3. /\ FirstOf(files, 0) = <<>> /\ FirstOf(files, n) = AllNumbers
      /\ \A i \in 0 .. n : FirstOf(files, i) \in Seq(Int)
      /\ \A i \in 1 .. n : FirstOf(files, i) = FirstOf(files, i - 1) \o files[i]
  BY <1>2, FirstOfFacts DEF AllNumbers
<1>4. ASSUME NEW i \in 1 .. n
      PROVE  Range(FirstOf(files, i)) = Range(FirstOf(files, i - 1)) \cup Range(files[i])
  <2>1. i - 1 \in 0 .. n
    OBVIOUS
  <2>2. files[i] \in Seq(Int) /\ FirstOf(files, i - 1) \in Seq(Int)
    <3>1. i \in Coros
      BY <1>2
    <3> QED
      BY <1>3, <2>1, <3>1, FilesFacts
  <2> QED
    BY <1>3, <2>2, RangeOfConcat
<1> DEFINE S == {i \in 0 .. n : Range(FirstOf(files, i)) \subseteq IntMin .. IntMax}
           T == {i \in 0 .. n : Range(FirstOf(files, n - i)) \subseteq Range(AllNumbers)}
<1>5. \A i \in 0 .. n : i \in S
  <2>1. 0 \in S
    BY <1>3 DEF Range
  <2>2. ASSUME NEW i \in 1 .. n, i - 1 \in S PROVE i \in S
    <3>1. Range(files[i]) \subseteq IntMin .. IntMax
      BY <1>2, FilesFacts
    <3> QED
      BY <1>4, <2>2, <3>1
  <2> HIDE DEF S
  <2> QED
    BY <2>1, <2>2, UpTo
<1>6. \A i \in 0 .. n : i \in T
  <2>1. 0 \in T
    <3>1. n - 0 = n
      OBVIOUS
    <3> QED
      BY <1>3, <3>1
  <2>2. ASSUME NEW i \in 1 .. n, i - 1 \in T PROVE i \in T
    <3>1. n - (i - 1) \in 1 .. n /\ (n - (i - 1)) - 1 = n - i /\ i \in 0 .. n
      OBVIOUS
    <3>2. Range(FirstOf(files, n - i)) \subseteq Range(FirstOf(files, n - (i - 1)))
      BY <1>4, <3>1
    <3>3. Range(FirstOf(files, n - (i - 1))) \subseteq Range(AllNumbers)
      BY <2>2
    <3> QED
      BY <3>1, <3>2, <3>3
  <2> HIDE DEF T
  <2> QED
    BY <2>1, <2>2, UpTo
<1>7. k \in 0 .. n /\ n - k \in 0 .. n /\ n - (n - k) = k
  BY <1>1
<1>8. Range(FirstOf(files, n - (n - k))) \subseteq Range(AllNumbers)
  BY <1>6, <1>7
<1> QED
  BY <1>3, <1>5, <1>7, <1>8

\* Where the numbers are comparable, those of each file are.
LEMMA ComparableFits ==
    ASSUME files \in Inputs, Comparable
    PROVE  Fits(Range(AllNumbers)) /\ \A c \in Coros : Fits(Range(files[c]))
<1>1. Fits(Range(AllNumbers))
  BY DEF Fits, Comparable, Range
<1>2. ASSUME NEW c \in Coros PROVE Range(files[c]) \subseteq Range(AllNumbers)
  BY FilesFacts, EachIsJoined DEF AllNumbers
<1> QED
  BY <1>1, <1>2 DEF Fits

LEMMA SameTyped ==
    ASSUME NEW s \in Seq(Int), NEW t \in Seq(Int), Same(s, t), NEW S, Range(t) \subseteq S
    PROVE  s \in Seq(S)
<1>1. Range(s) \subseteq S
  BY SameFacts
<1>2. \A i \in 1 .. Len(s) : s[i] \in S
  BY <1>1 DEF Range
<1>3. Len(s) \in Nat /\ s = [i \in 1 .. Len(s) |-> s[i]]
  BY LenProperties
<1> QED
  BY ONLY <1>2, <1>3

\* One round of main's loop.
LEMMA MergedFacts ==
    ASSUME files \in Inputs, NEW m \in 0 .. Cardinality(Coros), m < Cardinality(Coros),
           NEW r \in Seq(Int), Same(r, FirstOf(files, m)),
           NEW n \in Seq(Int), Same(n, files[m + 1]), NEW s \in Merges(r, n)
    PROVE  /\ s \in Seq(Int) /\ Same(s, FirstOf(files, m + 1))
           /\ Comparable /\ Sorted(r) /\ Sorted(n) => Sorted(s)
<1>1. m + 1 \in Coros /\ m + 1 \in 0 .. Cardinality(Coros) /\ m + 1 \in 1 .. Cardinality(Coros) /\ (m + 1) - 1 = m
  BY FilesFacts
<1>2. /\ FirstOf(files, m) \in Seq(Int) /\ FirstOf(files, m + 1) \in Seq(Int)
      /\ Range(FirstOf(files, m + 1)) \subseteq Range(AllNumbers)
  BY <1>1, FirstOfRanges
<1>3. FirstOf(files, m + 1) = FirstOf(files, m) \o files[m + 1] /\ files[m + 1] \in Seq(Int)
  <2>1. files \in Seq(Seq(Int)) /\ Len(files) = Cardinality(Coros) /\ files[m + 1] \in Seq(Int)
    BY <1>1, FilesFacts
  <2>2. FirstOf(files, m + 1) = FirstOf(files, (m + 1) - 1) \o files[m + 1]
    BY <1>1, <2>1, FirstOfFacts
  <2> QED
    BY <1>1, <2>1, <2>2
<1>4. /\ s \in Seq(Int) /\ Same(s, r \o n)
      /\ Fits(Range(r) \cup Range(n)) /\ Sorted(r) /\ Sorted(n) => Sorted(s)
  BY MergesFacts
<1>5. r \o n \in Seq(Int)
  BY ConcatProperties
<1>6. Same(s, FirstOf(files, m + 1))
  <2>1. Same(r \o n, FirstOf(files, m) \o files[m + 1])
    BY <1>2, <1>3, SameConcat
  <2>2. Same(r \o n, FirstOf(files, m + 1))
    BY <1>3, <2>1, Zenon
  <2>3. \A u \in Seq(Int) : Same(r \o n, u) => Same(s, u)
    BY <1>4, <1>5, SameFacts, Zenon
  <2> QED
    BY <1>2, <2>2, <2>3, Zenon
<1>7. ASSUME Comparable PROVE Fits(Range(r) \cup Range(n))
  <2>1. Range(r) = Range(FirstOf(files, m)) /\ Range(n) = Range(files[m + 1])
    BY <1>2, <1>3, SameFacts
  <2>2. Range(FirstOf(files, m + 1)) = Range(FirstOf(files, m)) \cup Range(files[m + 1])
    BY <1>2, <1>3, RangeOfConcat
  <2>3. Fits(Range(AllNumbers))
    BY <1>7, ComparableFits
  <2> QED
    BY <1>2, <2>1, <2>2, <2>3 DEF Fits
<1> QED
  BY <1>4, <1>6, <1>7

-----------------------------------------------------------------------------
(* The invariant *)

\* The numbers can be compared and no malloc of mergesort has failed.
Sound == ~starved /\ Comparable

Ended == {"finished", "returned"}

SortTyped ==
    /\ files \in Inputs
    /\ numbers \in [Coros -> Seq(Int) \cup {Unset}]
    /\ at \in [Coros -> {"read", "yield", "sort", "end"}]
    /\ stack \in [Coros -> Seq(Frames)]
    /\ starved \in BOOLEAN

CoroutineIsInOrder(c) ==
    /\ Works(numbers[c], files[c], at[c], stack[c], Sound)
    /\ at[c] = "read" => numbers[c] = Unset
    /\ phase[c] \in Ended => at[c] = "end"

CoroutinesInv == SortTyped /\ \A c \in Coros : CoroutineIsInOrder(c)

MainInv ==
    /\ merged \in 0 .. Cardinality(Coros)
    /\ result # Unset => /\ result \in Seq(Int)
                         /\ Same(result, FirstOf(files, merged))
                         /\ Sound => Sorted(result)
    /\ written \in {"no", "yes", "failed"}
    /\ written # "no" => merged = Cardinality(Coros) /\ result # Unset

SortingInv == CoroutinesInv /\ MainInv

\* The invariant holds at first: nothing has been read and nothing merged.
LEMMA SortingInit == Init => SortingInv
<1> SUFFICES ASSUME Init PROVE SortingInv
  OBVIOUS
<1>1. SortTyped
  <2>1. <<>> \in Seq(Frames)
    OBVIOUS
  <2> QED
    BY <2>1 DEF Init, SortTyped
<1>2. ASSUME NEW c \in Coros PROVE CoroutineIsInOrder(c)
  <2>1. /\ numbers[c] = Unset /\ at[c] = "read" /\ stack[c] = <<>> /\ phase[c] = "absent"
    BY DEF Init, CoroInit
  <2>2. Works(numbers[c], files[c], at[c], <<>>, Sound)
    BY <2>1, EmptyWorks
  <2> QED
    BY <2>1, <2>2 DEF CoroutineIsInOrder, Ended
<1>3. MainInv
  <2>1. result = <<>> /\ merged = 0 /\ written = "no" /\ files \in Inputs
    BY DEF Init
  <2>2. Cardinality(Coros) \in Nat /\ files \in Seq(Seq(Int))
    BY <2>1, FilesFacts
  <2>3. FirstOf(files, 0) = <<>>
    BY <2>2, FirstOfFacts
  <2>4. <<>> \in Seq(Int) /\ Sorted(<<>>) /\ Same(<<>>, <<>>)
    BY DEF Sorted, IsSorted, Same
  <2> QED
    BY <2>1, <2>2, <2>3, <2>4 DEF MainInv
<1> QED
  BY <1>1, <1>2, <1>3 DEF SortingInv, CoroutinesInv

\* Soundness is lost, never won.
LEMMA SoundBefore ==
    ASSUME files' = files, starved => starved'
    PROVE  Sound' => Sound
  BY DEF Sound, Comparable, AllNumbers

\* The phases of the coroutines change in three ways.
LEMMA PhaseSteps ==
    ASSUME Library!CoroInv, NEW c \in Coros, NEW p \in {"alive", "finished", "returned"},
           phase' = [phase EXCEPT ![c] = p],
           p = "alive" \/ phase[c] = "finished" \/ at[c] = "end"
    PROVE  \A b \in Coros : phase'[b] \in Ended => phase[b] \in Ended \/ at[b] = "end"
  BY DEF Library!CoroInv, Library!TypeOK, Ended

\* The library, the clock and main leave alone what the coroutines work on.
LEMMA OthersStep ==
    ASSUME CoroutinesInv, UNCHANGED <<files, sortVars>>,
           \A b \in Coros : phase'[b] \in Ended => phase[b] \in Ended \/ at[b] = "end"
    PROVE  CoroutinesInv'
<1>1. files' = files /\ numbers' = numbers /\ at' = at /\ stack' = stack /\ starved' = starved
  BY DEF sortVars
<1>2. Sound' => Sound
  BY <1>1, SoundBefore
<1>3. SortTyped'
  BY <1>1 DEF CoroutinesInv, SortTyped
<1>4. ASSUME NEW b \in Coros PROVE CoroutineIsInOrder(b)'
  <2>1. CoroutineIsInOrder(b)
    BY DEF CoroutinesInv
  <2>2. Works(numbers[b], files[b], at[b], stack[b], Sound')
    BY <1>2, <2>1, WorksWeaker, Zenon DEF CoroutineIsInOrder
  <2>3. phase'[b] \in Ended => at[b] = "end"
    BY <2>1 DEF CoroutineIsInOrder
  <2> QED
    BY <1>1, <2>1, <2>2, <2>3 DEF CoroutineIsInOrder
<1> QED
  BY <1>3, <1>4 DEF CoroutinesInv

\* A coroutine that has not come to its end goes on; the others do not.
LEMMA CoroutineStep ==
    ASSUME CoroutinesInv, NEW c \in Coros, at[c] # "end",
           NEW n \in Seq(Int) \cup {Unset}, NEW place \in {"yield", "sort", "end"},
           NEW st \in Seq(Frames),
           numbers' = [numbers EXCEPT ![c] = n], at' = [at EXCEPT ![c] = place],
           stack' = [stack EXCEPT ![c] = st], starved' \in BOOLEAN, starved => starved',
           files' = files, phase' = phase,
           Works(n, files[c], place, st, Sound')
    PROVE  CoroutinesInv'
<1>1. Sound' => Sound
  BY SoundBefore
<1>2. SortTyped'
  BY DEF CoroutinesInv, SortTyped
<1>3. ASSUME NEW b \in Coros PROVE CoroutineIsInOrder(b)'
  <2>1. CoroutineIsInOrder(b)
    BY DEF CoroutinesInv
  <2>2. CASE b = c
    <3>1. numbers'[b] = n /\ at'[b] = place /\ stack'[b] = st /\ place # "read"
      BY <2>2 DEF CoroutinesInv, SortTyped
    <3>2. phase'[b] \notin Ended
      BY <2>1, <2>2 DEF CoroutineIsInOrder
    <3> QED
      BY <2>2, <3>1, <3>2 DEF CoroutineIsInOrder
  <2>3. CASE b # c
    <3>1. numbers'[b] = numbers[b] /\ at'[b] = at[b] /\ stack'[b] = stack[b]
      BY <2>3 DEF CoroutinesInv, SortTyped
    <3>2. Works(numbers[b], files[b], at[b], stack[b], Sound')
      BY <1>1, <2>1, WorksWeaker, Zenon DEF CoroutineIsInOrder
    <3> QED
      BY <2>1, <3>1, <3>2 DEF CoroutineIsInOrder
  <2> QED
    BY <2>2, <2>3
<1> QED
  BY <1>2, <1>3 DEF CoroutinesInv

-----------------------------------------------------------------------------
(* The steps of a coroutine before it sorts *)

LEMMA InvRead ==
    ASSUME CoroutinesInv, NEW c \in Coros, Read(c) \/ ReadFails(c)
    PROVE  CoroutinesInv'
<1>1. /\ files[c] \in Seq(Int) /\ stack \in [Coros -> Seq(Frames)] /\ starved \in BOOLEAN
      /\ numbers \in [Coros -> Seq(Int) \cup {Unset}]
  BY FilesFacts DEF CoroutinesInv, SortTyped
<1>2. at[c] = "read" /\ phase' = phase /\ files' = files /\ starved' = starved /\ stack' = stack
  BY DEF Read, ReadFails, coroVars, sortVars
<1>3. numbers[c] = Unset /\ stack[c] = <<>>
  BY <1>2 DEF CoroutinesInv, CoroutineIsInOrder, Works
<1>4. stack' = [stack EXCEPT ![c] = <<>>] /\ <<>> \in Seq(Frames)
  BY <1>1, <1>2, <1>3
<1>5. CASE Read(c)
  <2>1. numbers' = [numbers EXCEPT ![c] = files[c]] /\ at' = [at EXCEPT ![c] = "yield"]
    BY <1>5 DEF Read
  <2>2. Works(files[c], files[c], "yield", <<>>, Sound')
    <3>1. Same(files[c], files[c]) /\ files[c] # Unset
      BY <1>1, SortingAssumption DEF Same
    <3> QED
      BY <3>1, EmptyWorks
  <2> QED
    BY <1>1, <1>2, <1>4, <2>1, <2>2, CoroutineStep
<1>6. CASE ReadFails(c)
  <2>1. numbers' = [numbers EXCEPT ![c] = Unset] /\ at' = [at EXCEPT ![c] = "end"]
    BY <1>1, <1>3, <1>6 DEF ReadFails
  <2>2. Works(Unset, files[c], "end", <<>>, Sound')
    BY EmptyWorks
  <2> QED
    BY <1>1, <1>2, <1>4, <2>1, <2>2, CoroutineStep
<1> QED
  BY <1>5, <1>6

LEMMA InvSort ==
    ASSUME CoroutinesInv, NEW c \in Coros, Sort(c)
    PROVE  CoroutinesInv'
<1>1. starved \in BOOLEAN /\ numbers \in [Coros -> Seq(Int) \cup {Unset}]
  BY DEF CoroutinesInv, SortTyped
<1>2. /\ at[c] = "yield" /\ phase' = phase /\ files' = files /\ starved' = starved /\ numbers' = numbers
      /\ at' = [at EXCEPT ![c] = "sort"]
      /\ stack' = [stack EXCEPT ![c] = <<Frame(1, Len(numbers[c]))>>]
  BY DEF Sort, PeriodEnd
<1>3. Works(numbers[c], files[c], "yield", stack[c], Sound)
  BY <1>2 DEF CoroutinesInv, CoroutineIsInOrder
<1>4. numbers[c] # Unset /\ Same(numbers[c], files[c])
  BY <1>3 DEF Works
<1>5. numbers[c] \in Seq(Int) /\ numbers' = [numbers EXCEPT ![c] = numbers[c]]
  BY <1>1, <1>2, <1>4
<1> DEFINE st == <<Frame(1, Len(numbers[c]))>>
<1>6. st \in Seq(Frames) /\ Works(numbers[c], files[c], "sort", st, Sound')
  BY <1>4, <1>5, WorksStarts
<1> HIDE DEF st
<1>7. stack' = [stack EXCEPT ![c] = st]
  BY <1>2 DEF st
<1> QED
  BY <1>1, <1>2, <1>5, <1>6, <1>7, CoroutineStep

-----------------------------------------------------------------------------
(* The steps of mergesort *)

LEMMA InSortFacts ==
    ASSUME CoroutinesInv, NEW c \in Coros, NEW W, InSort(c, W)
    PROVE  /\ at[c] = "sort" /\ at = [at EXCEPT ![c] = "sort"]
           /\ numbers[c] \in Seq(Int) /\ numbers = [numbers EXCEPT ![c] = numbers[c]]
           /\ stack[c] \in Seq(Frames) /\ stack[c] # <<>>
           /\ Last(stack[c]).at \in W
           /\ Works(numbers[c], files[c], "sort", stack[c], Sound)
           /\ files[c] \in Seq(Int)
<1>1. /\ numbers \in [Coros -> Seq(Int) \cup {Unset}] /\ stack \in [Coros -> Seq(Frames)]
      /\ at \in [Coros -> {"read", "yield", "sort", "end"}]
  BY DEF CoroutinesInv, SortTyped
<1>2. at[c] = "sort" /\ stack[c] # <<>> /\ Last(stack[c]).at \in W
  BY DEF InSort, Top
<1>3. Works(numbers[c], files[c], "sort", stack[c], Sound)
  BY <1>2 DEF CoroutinesInv, CoroutineIsInOrder
<1>4. numbers[c] # Unset
  BY <1>3 DEF Works
<1>5. files[c] \in Seq(Int)
  BY FilesFacts DEF CoroutinesInv, SortTyped
<1> QED
  BY <1>1, <1>2, <1>3, <1>4, <1>5

LEMMA SortStep ==
    ASSUME CoroutinesInv, NEW c \in Coros, NEW W, InSort(c, W),
           NEW n \in Seq(Int), NEW st \in Seq(Frames),
           numbers' = [numbers EXCEPT ![c] = n], stack' = [stack EXCEPT ![c] = st],
           at' = at, files' = files, phase' = phase, starved' \in BOOLEAN, starved => starved',
           Works(n, files[c], "sort", st, Sound) \/ (Works(n, files[c], "sort", st, FALSE) /\ starved')
    PROVE  CoroutinesInv'
<1>1. at[c] = "sort" /\ at' = [at EXCEPT ![c] = "sort"]
  BY InSortFacts
<1>2. Works(n, files[c], "sort", st, Sound')
  <2>1. CASE Works(n, files[c], "sort", st, Sound)
    <3>1. Sound' => Sound
      BY SoundBefore
    <3> QED
      BY <2>1, <3>1, WorksWeaker, Zenon
  <2>2. CASE Works(n, files[c], "sort", st, FALSE) /\ starved'
    <3>1. Sound' => FALSE
      BY <2>2 DEF Sound
    <3> QED
      BY <2>2, <3>1, WorksWeaker, Zenon
  <2> QED
    BY <2>1, <2>2
<1> QED
  BY <1>1, <1>2, CoroutineStep

LEMMA TypesOfSteps ==
    ASSUME CoroutinesInv
    PROVE  starved \in BOOLEAN /\ stack \in [Coros -> Seq(Frames)]
  BY DEF CoroutinesInv, SortTyped

\* What TopAt does.
LEMMA TopAtIs ==
    ASSUME CoroutinesInv, NEW c \in Coros, NEW w, NEW inner, TopAt(c, w, inner)
    PROVE  stack' = [stack EXCEPT ![c] = Front(stack[c]) \o <<[Last(stack[c]) EXCEPT !.at = w]>> \o inner]
  BY TypesOfSteps DEF TopAt, Top

LEMMA InvSortCalls ==
    ASSUME CoroutinesInv, NEW c \in Coros, SortCalls(c)
    PROVE  CoroutinesInv'
<1>1. InSort(c, {"start"}) /\ numbers' = numbers /\ at' = at /\ files' = files
      /\ starved' = starved /\ phase' = phase
  BY DEF SortCalls, coroVars
<1>9. starved' \in BOOLEAN /\ (starved => starved')
  BY <1>1, TypesOfSteps
<1>2. /\ numbers[c] \in Seq(Int) /\ numbers' = [numbers EXCEPT ![c] = numbers[c]]
      /\ stack[c] \in Seq(Frames) /\ stack[c] # <<>> /\ Last(stack[c]).at = "start"
      /\ Works(numbers[c], files[c], "sort", stack[c], Sound)
  BY <1>1, InSortFacts
<1>3. CASE Top(c).size <= 1
  <2> DEFINE z == Front(stack[c]) \o <<[Last(stack[c]) EXCEPT !.at = "returns 0"]>> \o <<>>
  <2>1. stack' = [stack EXCEPT ![c] = z]
    BY <1>3, TopAtIs, ZenonT(60) DEF SortCalls
  <2>2. Last(stack[c]).size <= 1
    BY <1>3, Zenon DEF Top
  <2>3. z \in Seq(Frames) /\ Works(numbers[c], files[c], "sort", z, Sound)
    BY <1>2, <2>2, WorksIsShort, Zenon
  <2> HIDE DEF z
  <2> QED
    BY <1>1, <1>2, <2>1, <2>3, <1>9, SortStep, Zenon
<1>4. CASE ~(Top(c).size <= 1)
  <2> DEFINE z == Front(stack[c]) \o <<[Last(stack[c]) EXCEPT !.at = "left"]>> \o <<LeftHalf(Last(stack[c]))>>
  <2>1. stack' = [stack EXCEPT ![c] = z]
    BY <1>4, TopAtIs, ZenonT(60) DEF SortCalls, Top
  <2>2. ~(Last(stack[c]).size <= 1)
    BY <1>4, Zenon DEF Top
  <2>3. z \in Seq(Frames) /\ Works(numbers[c], files[c], "sort", z, Sound)
    BY <1>2, <2>2, WorksCallsLeft, Zenon
  <2> HIDE DEF z
  <2> QED
    BY <1>1, <1>2, <2>1, <2>3, <1>9, SortStep, Zenon
<1> QED
  BY <1>3, <1>4

LEMMA InvSortReturns ==
    ASSUME CoroutinesInv, NEW c \in Coros, SortReturns(c)
    PROVE  CoroutinesInv'
<1>1. InSort(c, {"returns 0", "returns -1"}) /\ numbers' = numbers /\ files' = files
      /\ starved' = starved /\ phase' = phase
  BY DEF SortReturns, coroVars
<1>9. starved' \in BOOLEAN /\ (starved => starved')
  BY <1>1, TypesOfSteps
<1>2. /\ numbers[c] \in Seq(Int) /\ numbers' = [numbers EXCEPT ![c] = numbers[c]]
      /\ stack[c] \in Seq(Frames) /\ stack[c] # <<>> /\ Last(stack[c]).at \in {"returns 0", "returns -1"}
      /\ Works(numbers[c], files[c], "sort", stack[c], Sound) /\ at[c] = "sort"
  BY <1>1, InSortFacts
<1>3. CASE Front(stack[c]) = <<>>
  <2>1. stack' = [stack EXCEPT ![c] = <<>>] /\ at' = [at EXCEPT ![c] = "end"]
    BY <1>3 DEF SortReturns
  <2>2. Works(numbers[c], files[c], "end", <<>>, Sound)
    BY <1>2, <1>3, WorksEnds
  <2>3. Works(numbers[c], files[c], "end", <<>>, Sound')
    <3>1. Sound' => Sound
      BY <1>1, SoundBefore
    <3> QED
      BY <2>2, <3>1, WorksWeaker, Zenon
  <2>4. <<>> \in Seq(Frames)
    OBVIOUS
  <2> QED
    BY <1>1, <1>2, <2>1, <2>3, <2>4, TypesOfSteps, CoroutineStep
<1>4. CASE Front(stack[c]) # <<>>
  <2> DEFINE z == Front(Front(stack[c])) \o
                    <<[Last(Front(stack[c])) EXCEPT !.at =
                         After(Last(Front(stack[c])), Last(stack[c]).at)]>>
  <2>1. stack' = [stack EXCEPT ![c] = z] /\ at' = at
    BY <1>4 DEF SortReturns, Top
  <2>2. z \in Seq(Frames) /\ Works(numbers[c], files[c], "sort", z, Sound)
    BY <1>2, <1>4, WorksReturns, Zenon
  <2> HIDE DEF z
  <2> QED
    BY <1>1, <1>2, <2>1, <2>2, <1>9, SortStep, Zenon
<1> QED
  BY <1>3, <1>4

LEMMA InvSortYields ==
    ASSUME CoroutinesInv, NEW c \in Coros, SortYields(c)
    PROVE  CoroutinesInv'
<1>1. InSort(c, {"yield after left", "yield after right"}) /\ numbers' = numbers /\ at' = at /\ files' = files
      /\ starved' = starved /\ phase' = phase
  BY DEF SortYields, PeriodEnd
<1>9. starved' \in BOOLEAN /\ (starved => starved')
  BY <1>1, TypesOfSteps
<1>2. /\ numbers[c] \in Seq(Int) /\ numbers' = [numbers EXCEPT ![c] = numbers[c]]
      /\ stack[c] \in Seq(Frames) /\ stack[c] # <<>>
      /\ Last(stack[c]).at \in {"yield after left", "yield after right"}
      /\ Works(numbers[c], files[c], "sort", stack[c], Sound)
  BY <1>1, InSortFacts
<1>3. CASE Last(stack[c]).at = "yield after left"
  <2> DEFINE z == Front(stack[c]) \o <<[Last(stack[c]) EXCEPT !.at = "right"]>> \o <<RightHalf(Last(stack[c]))>>
  <2>1. stack' = [stack EXCEPT ![c] = z]
    BY <1>3, TopAtIs, ZenonT(60) DEF SortYields, Top
  <2>2. z \in Seq(Frames) /\ Works(numbers[c], files[c], "sort", z, Sound)
    BY <1>2, <1>3, WorksCallsRight, Zenon
  <2> HIDE DEF z
  <2> QED
    BY <1>1, <1>2, <2>1, <2>2, <1>9, SortStep, Zenon
<1>4. CASE Last(stack[c]).at # "yield after left"
  <2> DEFINE z == Front(stack[c]) \o <<[Last(stack[c]) EXCEPT !.at = "merge"]>> \o <<>>
  <2>1. stack' = [stack EXCEPT ![c] = z]
    BY <1>4, TopAtIs, ZenonT(60) DEF SortYields, Top
  <2>2. Last(stack[c]).at = "yield after right"
    BY <1>2, <1>4
  <2>3. z \in Seq(Frames) /\ Works(numbers[c], files[c], "sort", z, Sound)
    BY <1>2, <2>2, WorksGoesToMerge, Zenon
  <2> HIDE DEF z
  <2> QED
    BY <1>1, <1>2, <2>1, <2>3, <1>9, SortStep, Zenon
<1> QED
  BY <1>3, <1>4

LEMMA InvSortMerges ==
    ASSUME CoroutinesInv, NEW c \in Coros, SortMerges(c)
    PROVE  CoroutinesInv'
<1>1. InSort(c, {"merge"}) /\ at' = at /\ files' = files /\ starved' = starved /\ phase' = phase
  BY DEF SortMerges, coroVars
<1>9. starved' \in BOOLEAN /\ (starved => starved')
  BY <1>1, TypesOfSteps
<1>2. /\ numbers[c] \in Seq(Int) /\ files[c] \in Seq(Int)
      /\ stack[c] \in Seq(Frames) /\ stack[c] # <<>> /\ Last(stack[c]).at = "merge"
      /\ Works(numbers[c], files[c], "sort", stack[c], Sound)
  BY <1>1, InSortFacts
<1> DEFINE f == Last(stack[c])
           z == Front(stack[c]) \o <<[f EXCEPT !.at = "returns 0"]>> \o <<>>
           u == SubSeq(numbers[c], LeftHalf(f).first, LeftHalf(f).first + LeftHalf(f).size - 1)
           v == SubSeq(numbers[c], RightHalf(f).first, RightHalf(f).first + RightHalf(f).size - 1)
<1>3. stack' = [stack EXCEPT ![c] = z]
  <2>1. TopAt(c, "returns 0", <<>>)
    BY Zenon DEF SortMerges
  <2> QED
    BY <2>1, TopAtIs, ZenonT(60)
<1>4. PICK s \in Merges(u, v) : numbers' = [numbers EXCEPT ![c] = Replaced(numbers[c], f.first, f.size, s)]
  <2>1. \E s \in Merges(u, v) : numbers' = [numbers EXCEPT ![c] = Put(c, f, s)]
    BY ZenonT(60) DEF SortMerges, Part, Top
  <2>2. PICK s \in Merges(u, v) : numbers' = [numbers EXCEPT ![c] = Put(c, f, s)]
    BY <2>1, Zenon
  <2>3. Put(c, f, s) = Replaced(numbers[c], f.first, f.size, s)
    BY Zenon DEF Put, Replaced
  <2> QED
    BY <2>2, <2>3, Zenon
<1> DEFINE y == Replaced(numbers[c], f.first, f.size, s)
<1>5. Sound => Fits(Range(files[c]))
  BY ComparableFits DEF CoroutinesInv, SortTyped, Sound
<1>6. z \in Seq(Frames) /\ y \in Seq(Int) /\ Works(y, files[c], "sort", z, Sound)
  BY <1>2, <1>4, <1>5, WorksMerges, Zenon
<1>7. numbers' = [numbers EXCEPT ![c] = y]
  BY <1>4
<1> HIDE DEF y, z
<1> QED
  BY <1>1, <1>3, <1>6, <1>7, <1>9, SortStep, Zenon

LEMMA InvSortMallocFails ==
    ASSUME CoroutinesInv, NEW c \in Coros, SortMallocFails(c)
    PROVE  CoroutinesInv'
<1>1. InSort(c, {"merge"}) /\ numbers' = numbers /\ at' = at /\ files' = files
      /\ starved' = TRUE /\ phase' = phase
  BY DEF SortMallocFails, coroVars
<1>2. /\ numbers[c] \in Seq(Int) /\ numbers' = [numbers EXCEPT ![c] = numbers[c]]
      /\ stack[c] \in Seq(Frames) /\ stack[c] # <<>> /\ Last(stack[c]).at = "merge"
      /\ Works(numbers[c], files[c], "sort", stack[c], Sound)
  BY <1>1, InSortFacts
<1> DEFINE z == Front(stack[c]) \o <<[Last(stack[c]) EXCEPT !.at = "returns -1"]>> \o <<>>
<1>3. stack' = [stack EXCEPT ![c] = z]
  BY TopAtIs, ZenonT(60) DEF SortMallocFails
<1>4. z \in Seq(Frames) /\ Works(numbers[c], files[c], "sort", z, FALSE)
  BY <1>2, WorksFails, Zenon
<1> HIDE DEF z
<1>5. starved' \in BOOLEAN /\ starved' /\ (starved => starved')
  BY <1>1
<1> QED
  BY <1>1, <1>2, <1>3, <1>4, <1>5, SortStep, Zenon

-----------------------------------------------------------------------------
(* The steps of main, of the library and of the clock *)

LEMMA InvCoroutine ==
    ASSUME CoroutinesInv, Library!CoroInv, NEW c \in Coros, Coroutine(c)
    PROVE  CoroutinesInv'
<1>1. CASE End(c)
  <2>1. UNCHANGED <<files, sortVars>> /\ phase' = [phase EXCEPT ![c] = "finished"] /\ at[c] = "end"
    BY <1>1 DEF End, Return
  <2> QED
    BY <2>1, PhaseSteps, OthersStep
<1> QED
  BY <1>1, InvRead, InvSort, InvSortCalls, InvSortReturns, InvSortYields, InvSortMerges,
     InvSortMallocFails
     DEF Coroutine

LEMMA InvOthers ==
    ASSUME CoroutinesInv, Library!CoroInv,
           \/ MainWaits \/ MainMerges \/ MainWrites \/ UNCHANGED vars
           \/ \E c \in Coros : MainCreates(c)
           \/ \E c \in Coros : Tick(c) /\ UNCHANGED <<files, sortVars, mainVars>>
    PROVE  CoroutinesInv'
<1>1. UNCHANGED <<files, sortVars>>
  BY DEF MainWaits, MainMerges, MainWrites, MainCreates, vars
<1>2. CASE phase' = phase
  BY <1>1, <1>2, OthersStep
<1>3. ASSUME NEW c \in Coros, New(c) PROVE CoroutinesInv'
  <2>1. phase' = [phase EXCEPT ![c] = "alive"]
    BY <1>3 DEF New
  <2> QED
    BY <1>1, <2>1, PhaseSteps, OthersStep
<1>4. ASSUME NEW c \in Coros, SchedReturns(c) PROVE CoroutinesInv'
  <2>1. phase' = [phase EXCEPT ![c] = "returned"] /\ phase[c] = "finished"
    BY <1>4 DEF SchedReturns, FirstFinished, Finished
  <2> QED
    BY <1>1, <2>1, PhaseSteps, OthersStep
<1>5. SchedWaits => phase' = phase
  BY DEF SchedWaits
<1>6. MainMerges \/ MainWrites \/ UNCHANGED vars => phase' = phase
  BY DEF MainMerges, MainWrites, vars, coroVars
<1>7. ASSUME NEW c \in Coros, Tick(c) PROVE phase' = phase
  BY <1>7 DEF Tick
<1> QED
  BY <1>2, <1>3, <1>4, <1>5, <1>6, <1>7 DEF MainWaits, MainCreates

\* While main is at its loop no other step changes what it has merged.
LEMMA MainStays ==
    ASSUME MainInv, files' = files, starved => starved', UNCHANGED mainVars
    PROVE  MainInv'
<1>1. result' = result /\ merged' = merged /\ written' = written
  BY DEF mainVars
<1>2. Sound' => Sound
  BY SoundBefore
<1>3. FirstOf(files, merged)' = FirstOf(files, merged)
  BY <1>1 DEF FirstOf
<1> QED
  BY <1>1, <1>2, <1>3 DEF MainInv

LEMMA MainGoesOn ==
    ASSUME SortingInv, Library!CoroInv, MainMerges
    PROVE  MainInv'
<1>1. /\ merged \in 0 .. Cardinality(Coros) /\ merged < Cardinality(Coros) /\ result # Unset
      /\ result \in Seq(Int) /\ Same(result, FirstOf(files, merged)) /\ (Sound => Sorted(result))
      /\ written = "no" /\ merged' = merged + 1 /\ written' = written
      /\ files' = files /\ starved' = starved /\ NoneIsLeft
  <2>1. Cardinality(Coros) \in Nat
    BY FilesFacts DEF SortingInv, CoroutinesInv, SortTyped
  <2> QED
    BY <2>1 DEF SortingInv, MainInv, MainMerges, sortVars
<1>2. /\ files \in Inputs /\ Cardinality(Coros) \in Nat
      /\ numbers \in [Coros -> Seq(Int) \cup {Unset}]
  BY FilesFacts DEF SortingInv, CoroutinesInv, SortTyped
<1>3. PICK c \in Coros : c = merged + 1
  BY <1>1, <1>2, FilesFacts
<1>4. merged + 1 \in 0 .. Cardinality(Coros)
  BY <1>1, <1>2
<1>5. Works(numbers[c], files[c], "end", stack[c], Sound)
  <2>1. phase[c] = "returned"
    BY <1>1, AllReturned
  <2> QED
    BY <2>1 DEF SortingInv, CoroutinesInv, CoroutineIsInOrder, Ended
<1>6. Sound' => Sound
  BY <1>1, SoundBefore
<1>7. result' = Unset \/ (numbers[c] # Unset /\ result' \in Merges(result, numbers[c]))
  BY <1>3 DEF MainMerges
<1>8. ASSUME result' # Unset
      PROVE  result' \in Seq(Int) /\ Same(result', FirstOf(files, merged + 1)) /\ (Sound' => Sorted(result'))
  <2>1. /\ numbers[c] \in Seq(Int) /\ Same(numbers[c], files[merged + 1])
        /\ result' \in Merges(result, numbers[c])
    BY <1>2, <1>3, <1>5, <1>7, <1>8 DEF Works
  <2>2. /\ result' \in Seq(Int) /\ Same(result', FirstOf(files, merged + 1))
        /\ Comparable /\ Sorted(result) /\ Sorted(numbers[c]) => Sorted(result')
    BY <1>1, <1>2, <2>1, MergedFacts
  <2>3. Sound => Sorted(numbers[c]) /\ Sorted(result) /\ Comparable
    BY <1>1, <1>5, <1>7, <1>8 DEF Works, Sound
  <2> QED
    BY <1>6, <2>2, <2>3
<1>9. FirstOf(files, merged)' = FirstOf(files, merged + 1)
  BY <1>1 DEF FirstOf
<1> QED
  BY <1>1, <1>4, <1>8, <1>9 DEF MainInv

\* Every step keeps the invariant.
LEMMA SortingNext == SortingInv /\ Library!CoroInv /\ [Next]_vars => SortingInv'
<1> SUFFICES ASSUME SortingInv, Library!CoroInv, [Next]_vars PROVE SortingInv'
  OBVIOUS
<1>1. CoroutinesInv /\ MainInv
  BY DEF SortingInv
<1>2. ASSUME CoroutinesInv', files' = files, starved => starved', UNCHANGED mainVars
      PROVE  SortingInv'
  BY <1>1, <1>2, MainStays DEF SortingInv
<1>3. ASSUME NEW c \in Coros, Coroutine(c) PROVE SortingInv'
  <2>1. CoroutinesInv'
    BY <1>1, <1>3, InvCoroutine
  <2>2. files' = files /\ UNCHANGED mainVars /\ (starved => starved')
    <3>1. CASE Read(c) \/ ReadFails(c) \/ Sort(c) \/ End(c)
      BY <3>1 DEF Read, ReadFails, Sort, End, sortVars
    <3>2. CASE SortCalls(c)
      BY <3>2 DEF SortCalls, mainVars
    <3>3. CASE SortReturns(c)
      BY <3>3 DEF SortReturns, mainVars
    <3>4. CASE SortYields(c)
      BY <3>4 DEF SortYields, mainVars
    <3>5. CASE SortMerges(c)
      BY <3>5 DEF SortMerges, mainVars
    <3>6. CASE SortMallocFails(c)
      BY <3>6 DEF SortMallocFails, mainVars
    <3> QED
      BY <1>3, <3>1, <3>2, <3>3, <3>4, <3>5, <3>6 DEF Coroutine
  <2> QED
    BY <1>2, <2>1, <2>2
<1>4. ASSUME \/ MainWaits \/ UNCHANGED vars
             \/ \E c \in Coros : MainCreates(c)
             \/ \E c \in Coros : Tick(c) /\ UNCHANGED <<files, sortVars, mainVars>>
      PROVE  SortingInv'
  <2>1. CoroutinesInv'
    BY <1>1, <1>4, InvOthers
  <2>2. files' = files /\ UNCHANGED mainVars /\ starved' = starved
    BY <1>4 DEF MainWaits, MainCreates, vars, sortVars
  <2> QED
    BY <1>2, <2>1, <2>2
<1>5. CASE MainMerges
  BY <1>1, <1>5, InvOthers, MainGoesOn DEF SortingInv
<1>6. CASE MainWrites
  <2>1. CoroutinesInv'
    BY <1>1, <1>6, InvOthers
  <2>2. /\ merged = Cardinality(Coros) /\ result # Unset /\ written' \in {"yes", "failed"}
        /\ result' = result /\ merged' = merged /\ files' = files /\ starved' = starved
    BY <1>6 DEF MainWrites, sortVars
  <2>3. Sound' => Sound
    BY <2>2, SoundBefore
  <2>4. FirstOf(files, merged)' = FirstOf(files, merged)
    BY <2>2 DEF FirstOf
  <2> QED
    BY <1>1, <2>1, <2>2, <2>3, <2>4 DEF SortingInv, MainInv
<1> QED
  BY <1>3, <1>4, <1>5, <1>6 DEF Next, Run

-----------------------------------------------------------------------------
(* The theorems *)

\* Under this program the list holds the coroutines created and not yet returned,
\* control is with the scheduler or a coroutine that is alive, and each coroutine is
\* charged with the time it worked (1/libcoro.c, lines 93-102, 155-181 and 221-230).
THEOREM LibraryHolds ==
    Spec => [](Library!ListHoldsUnreturned /\ Library!ControlIsAlive /\ Library!TimeIsExact)
<1>1. Library!CoroInv =>
        Library!ListHoldsUnreturned /\ Library!ControlIsAlive /\ Library!TimeIsExact
  BY Library!CoroInvImplies, Assumptions
<1> QED
  BY <1>1, LibraryInvariance, PTL

\* Each coroutine's array holds the numbers of its file, and where the premises hold
\* the parts its calls of mergesort are done with are in order; result_array holds
\* the files main has merged (1/solution.c, lines 82-232 and main).
THEOREM SortingInvariance == Spec => []SortingInv
<1>1. Spec => []Library!CoroInv
  BY LibraryInvariance
<1> QED
  BY <1>1, SortingInit, SortingNext, PTL DEF Spec

\* What write_file writes is in ascending order, if no difference of two numbers
\* overflows and no malloc of mergesort has failed (1/solution.c, lines 50 and 230).
THEOREM OutputIsOrdered == Spec => []OutputIsSorted
<1>1. SortingInv => OutputIsSorted
  BY DEF SortingInv, MainInv, OutputIsSorted, Sound, Sorted
<1> QED
  BY <1>1, SortingInvariance, PTL

LEMMA TypesHold == SortingInv => TypeOK
<1> SUFFICES ASSUME SortingInv PROVE TypeOK
  OBVIOUS
<1>1. CoroutinesInv /\ SortTyped /\ MainInv
  BY DEF SortingInv, CoroutinesInv
<1>2. files \in Inputs
  BY <1>1 DEF SortTyped
<1>3. ASSUME NEW c \in Coros PROVE numbers[c] = Unset \/ numbers[c] \in Seq(IntMin .. IntMax)
  <2>1. numbers[c] = Unset \/ (numbers[c] \in Seq(Int) /\ Same(numbers[c], files[c]))
    BY <1>1 DEF CoroutinesInv, CoroutineIsInOrder, Works, SortTyped
  <2>2. files[c] \in Seq(Int) /\ Range(files[c]) \subseteq IntMin .. IntMax
    BY <1>2, FilesFacts
  <2> QED
    BY <2>1, <2>2, SameTyped
<1>4. ASSUME NEW c \in Coros, NEW i \in DOMAIN stack[c]
      PROVE  stack[c][i].first \in Nat /\ stack[c][i].size \in Nat
  <2>1. stack[c] \in Seq(Frames)
    BY <1>1 DEF SortTyped
  <2>2. stack[c][i] \in Frames
    BY <2>1
  <2> QED
    BY <2>2 DEF Frames
<1>5. result = Unset \/ result \in Seq(IntMin .. IntMax)
  <2>1. result = Unset \/ (result \in Seq(Int) /\ Same(result, FirstOf(files, merged)))
    BY <1>1 DEF MainInv
  <2>2. FirstOf(files, merged) \in Seq(Int) /\ Range(FirstOf(files, merged)) \subseteq IntMin .. IntMax
    BY <1>1, <1>2, FirstOfRanges DEF MainInv
  <2> QED
    BY <2>1, <2>2, SameTyped
<1> QED
  BY <1>1, <1>2, <1>3, <1>4, <1>5 DEF TypeOK, SortTyped, MainInv

\* What write_file writes is what the files hold, each number as often, whatever
\* the comparator answers and whichever malloc of mergesort fails (1/solution.c).
THEOREM OutputIsComplete == Spec => []OutputIsAllInput
<1>1. ASSUME SortingInv, written = "yes" PROVE ToBag(result) = ToBag(AllNumbers)
  <2>1. /\ merged = Cardinality(Coros) /\ merged \in 0 .. Cardinality(Coros)
        /\ result \in Seq(Int) /\ Same(result, FirstOf(files, merged)) /\ files \in Inputs
    BY <1>1 DEF SortingInv, MainInv, CoroutinesInv, SortTyped
  <2>2. FirstOf(files, merged) = AllNumbers
    BY <2>1, FilesFacts, FirstOfFacts DEF AllNumbers
  <2>3. AllNumbers \in Seq(Int)
    BY <2>1, <2>2, FirstOfRanges
  <2> QED
    BY <2>1, <2>2, <2>3, SameFacts
<1>2. SortingInv => OutputIsAllInput
  BY <1>1, TypesHold DEF OutputIsAllInput
<1> QED
  BY <1>2, SortingInvariance, PTL
================================================================================
