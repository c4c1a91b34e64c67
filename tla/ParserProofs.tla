----------------------------- MODULE ParserProofs -----------------------------
(***************************************************************************)
(* Proofs about the parser, for every sequence of bytes, every way to cut  *)
(* it into chunks and every time of a pop.                                 *)
(*                                                                         *)
(* The scans of the bytes of a token, of the tokens of a buffer, of a line *)
(* and of the lines of a buffer are folds and recursive functions.  What   *)
(* they compute is found by induction in the form of the least number that *)
(* a claim fails of (LeastNumber): UpTo, DownFrom and AllNumbers.          *)
(*                                                                         *)
(* ParserInv is the inductive invariant: what was returned and what the    *)
(* buffer is good for are the lines of all that was fed, whatever bytes    *)
(* come next.  That a byte never changes a token or a line that is over    *)
(* (TokenStable, LineStable) makes it so.                                  *)
(***************************************************************************)
EXTENDS ParserProperties, SequenceTheorems, NaturalsInduction, WellFoundedInduction, TLAPS

-----------------------------------------------------------------------------
(* Numbers and folds *)

LEMMA LeastNumber ==
    ASSUME NEW S \in SUBSET Nat, S # {}
    PROVE  \E m \in S : \A n \in S : m <= n
<1>1. \E m \in S : \A n \in S : ~(<<n, m>> \in OpToRel(<, Nat))
  BY NatLessThanWellFounded, WFMin
<1>2. ASSUME NEW m \in S, NEW n \in S, ~(<<n, m>> \in OpToRel(<, Nat)) PROVE m <= n
  <2>1. ~(<<n, m>>[1] < <<n, m>>[2])
    BY <1>2 DEF OpToRel
  <2> QED
    BY <2>1
<1> QED
  BY <1>1, <1>2

\* A set of numbers that has 0 and every number's successor up to n is 0 .. n.
LEMMA UpTo ==
    ASSUME NEW n \in Nat, NEW S, 0 \in S, \A i \in 1 .. n : i - 1 \in S => i \in S
    PROVE  \A i \in 0 .. n : i \in S
<1> DEFINE C == {i \in 0 .. n : i \notin S}
<1>1. SUFFICES ASSUME C # {} PROVE FALSE
  OBVIOUS
<1>2. PICK m \in C : \A i \in C : m <= i
  <2>1. C \in SUBSET Nat
    OBVIOUS
  <2> QED
    BY <1>1, <2>1, LeastNumber
<1>3. m # 0 /\ m \in 0 .. n /\ m \notin S
  OBVIOUS
<1>4. m - 1 \notin C /\ m \in 1 .. n /\ m - 1 \in 0 .. n
  BY <1>2, <1>3
<1>5. m - 1 \in S
  BY <1>4
<1> QED
  BY <1>3, <1>4, <1>5

\* The same downwards.
LEMMA DownFrom ==
    ASSUME NEW n \in Nat, NEW S, \A i \in 0 .. n : (\A j \in 0 .. n : i < j => j \in S) => i \in S
    PROVE  \A i \in 0 .. n : i \in S
<1> DEFINE C == {i \in 0 .. n : n - i \notin S}
<1>1. SUFFICES ASSUME C # {} PROVE FALSE
  <2>1. SUFFICES ASSUME NEW i \in 0 .. n, i \notin S PROVE C # {}
    OBVIOUS
  <2>2. n - i \in 0 .. n /\ n - (n - i) = i
    OBVIOUS
  <2>3. n - (n - i) \notin S
    BY <2>1, <2>2
  <2>4. n - i \in C
    BY <2>2, <2>3
  <2> QED
    BY <2>4
<1>2. PICK m \in C : \A i \in C : m <= i
  <2>1. C \in SUBSET Nat
    OBVIOUS
  <2> QED
    BY <1>1, <2>1, LeastNumber
<1>3. n - m \in 0 .. n /\ n - m \notin S
  OBVIOUS
<1>4. ASSUME NEW j \in 0 .. n, n - m < j PROVE j \in S
  <2>1. n - j \in 0 .. n /\ n - j < m /\ n - (n - j) = j
    BY <1>4
  <2>2. n - j \notin C
    BY <1>2, <2>1
  <2> QED
    BY <2>1, <2>2
<1> QED
  BY <1>3, <1>4

LEMMA MaxOfNumbers ==
    ASSUME NEW n \in Nat, NEW s \in SUBSET (1 .. n), s # {}
    PROVE  Max(s) \in s /\ \A i \in s : i <= Max(s)
<1> DEFINE C == {i \in 0 .. n : n - i \in s}
<1>1. C \in SUBSET Nat /\ C # {}
  <2>1. PICK i \in s : TRUE
    OBVIOUS
  <2>2. n - i \in 0 .. n /\ n - (n - i) = i
    OBVIOUS
  <2>3. n - (n - i) \in s
    BY <2>1, <2>2
  <2>4. n - i \in C
    BY <2>2, <2>3
  <2>5. \A j \in C : j \in Nat
    OBVIOUS
  <2> QED
    BY <2>4, <2>5
<1>2. PICK m \in C : \A i \in C : m <= i
  BY <1>1, LeastNumber
<1>3. n - m \in s
  OBVIOUS
<1>4. ASSUME NEW i \in s PROVE i <= n - m
  <2>1. n - i \in 0 .. n /\ n - (n - i) = i
    OBVIOUS
  <2>2. n - i \in C
    BY <2>1
  <2>3. m <= n - i
    BY <1>2, <2>2, Zenon
  <2>4. m \in Int /\ i \in Int
    OBVIOUS
  <2> QED
    BY ONLY n \in Nat, <2>3, <2>4
<1> QED
  BY <1>3, <1>4 DEF Max

\* g is what MapThenFoldSet computes for a fold of q from the left.
Iterates(g, F, b, q) ==
    \A s \in SUBSET DOMAIN q : g[s] = IF s = {} THEN b ELSE F[g[s \ {Max(s)}], q[Max(s)]]

LEMMA FoldExists ==
    ASSUME NEW S, NEW E, NEW F \in [S \X E -> S], NEW b \in S, NEW q \in Seq(E)
    PROVE  \E g \in [SUBSET DOMAIN q -> S] : Iterates(g, F, b, q)
<1> DEFINE P(n, g) == \A s \in SUBSET (1 .. n) :
              g[s] = IF s = {} THEN b ELSE F[g[s \ {Max(s)}], q[Max(s)]]
           N == {n \in 0 .. Len(q) : \E g \in [SUBSET (1 .. n) -> S] : P(n, g)}
<1>1. 0 \in N
  <2> DEFINE h == [s \in SUBSET (1 .. 0) |-> b]
  <2>1. \A s \in SUBSET (1 .. 0) : s = {}
    OBVIOUS
  <2>2. \A s \in SUBSET (1 .. 0) : h[s] = b
    OBVIOUS
  <2>3. h \in [SUBSET (1 .. 0) -> S]
    OBVIOUS
  <2> HIDE DEF h
  <2>4. P(0, h)
    BY <2>1, <2>2
  <2>5. 0 \in 0 .. Len(q)
    OBVIOUS
  <2> HIDE DEF P
  <2> QED
    BY <2>3, <2>4, <2>5
<1>2. ASSUME NEW n \in 1 .. Len(q), n - 1 \in N PROVE n \in N
  <2>1. PICK g \in [SUBSET (1 .. n - 1) -> S] : P(n - 1, g)
    BY <1>2
  <2> DEFINE h == [s \in SUBSET (1 .. n) |-> IF n \in s THEN F[g[s \ {n}], q[n]] ELSE g[s]]
  <2>2. \A s \in SUBSET (1 .. n) : s \ {n} \in SUBSET (1 .. n - 1)
    OBVIOUS
  <2>3. h \in [SUBSET (1 .. n) -> S]
    <3>1. ASSUME NEW s \in SUBSET (1 .. n) PROVE h[s] \in S
      <4>1. CASE n \in s
        <5>1. g[s \ {n}] \in S /\ q[n] \in E
          BY <2>2
        <5> QED
          BY <4>1, <5>1
      <4>2. CASE n \notin s
        <5>1. s = s \ {n}
          BY <4>2
        <5>2. s \in SUBSET (1 .. n - 1)
          BY <5>1, <2>2
        <5> QED
          BY <4>2, <5>2
      <4> QED
        BY <4>1, <4>2
    <3> QED
      BY <3>1
  <2>4. P(n, h)
    <3>1. SUFFICES ASSUME NEW s \in SUBSET (1 .. n)
                   PROVE  h[s] = IF s = {} THEN b ELSE F[h[s \ {Max(s)}], q[Max(s)]]
      OBVIOUS
    <3>2. CASE n \in s
      <4>1. Max(s) = n
        <5>1. n \in Nat /\ s # {} /\ n \in 1 .. n
          BY <3>2
        <5>2. Max(s) \in s /\ n <= Max(s)
          BY <3>2, <5>1, MaxOfNumbers
        <5>3. Max(s) \in 1 .. n
          BY <5>2
        <5> QED
          BY <5>1, <5>2, <5>3
      <4>2. h[s \ {n}] = g[s \ {n}]
        BY <2>2
      <4> QED
        BY <3>2, <4>1, <4>2
    <3>3. CASE n \notin s
      <4>1. s \in SUBSET (1 .. n - 1)
        <5>1. s = s \ {n}
          BY <3>3
        <5> QED
          BY <5>1, <2>2
      <4>2. h[s] = g[s]
        BY <3>3
      <4>3. CASE s = {}
        BY <4>1, <4>2, <4>3, <2>1
      <4>4. CASE s # {}
        <5>1. s \ {Max(s)} \in SUBSET (1 .. n - 1) /\ n \notin s \ {Max(s)}
          BY <4>1, <3>3
        <5>2. h[s \ {Max(s)}] = g[s \ {Max(s)}]
          BY <5>1
        <5>3. g[s] = F[g[s \ {Max(s)}], q[Max(s)]]
          BY <2>1, <4>1, <4>4
        <5> QED
          BY <4>2, <4>4, <5>2, <5>3
      <4> QED
        BY <4>3, <4>4
    <3> QED
      BY <3>2, <3>3
  <2> HIDE DEF P, h
  <2> QED
    BY <2>3, <2>4
<1>3. Len(q) \in N
  <2> HIDE DEF N
  <2>1. Len(q) \in Nat
    OBVIOUS
  <2>2. \A i \in 0 .. Len(q) : i \in N
    BY <1>1, <1>2, <2>1, UpTo
  <2> QED
    BY <2>1, <2>2
<1>4. DOMAIN q = 1 .. Len(q)
  OBVIOUS
<1> QED
  BY <1>3, <1>4 DEF Iterates

\* The numbers up to i, as the fold sees them.
LEMMA Initial ==
    ASSUME NEW i \in Nat, i >= 1
    PROVE  1 .. i # {} /\ Max(1 .. i) = i /\ (1 .. i) \ {Max(1 .. i)} = 1 .. i - 1
<1>1. i \in 1 .. i /\ 1 .. i \in SUBSET (1 .. i)
  OBVIOUS
<1>2. Max(1 .. i) \in 1 .. i /\ i <= Max(1 .. i)
  BY <1>1, MaxOfNumbers
<1>3. Max(1 .. i) = i
  BY <1>2
<1> QED
  BY <1>1, <1>3

Prefix(q, i) == SubSeq(q, 1, i)

LEMMA PrefixFacts ==
    ASSUME NEW E, NEW q \in Seq(E), NEW i \in 0 .. Len(q)
    PROVE  /\ Prefix(q, i) \in Seq(E) /\ Len(Prefix(q, i)) = i
           /\ \A j \in 1 .. i : Prefix(q, i)[j] = q[j]
           /\ \A j \in 0 .. i : Prefix(Prefix(q, i), j) = Prefix(q, j)
           /\ Prefix(q, Len(q)) = q /\ Prefix(q, 0) = <<>>
  BY DEF Prefix

LEMMA Associates ==
    ASSUME NEW E, NEW p \in Seq(E), NEW q \in Seq(E), NEW r \in Seq(E)
    PROVE  (p \o q) \o r = p \o (q \o r)
  BY ConcatAssociative, SMTT(60)

LEMMA InTheMiddle ==
    ASSUME NEW E, NEW p \in Seq(E), NEW e \in E, NEW q \in Seq(E)
    PROVE  (p \o <<e>>) \o q = p \o (<<e>> \o q)
<1>1. <<e>> \in Seq(E)
  OBVIOUS
<1> QED
  BY <1>1, Associates

-----------------------------------------------------------------------------
(* parse_token: a byte goes on with a token or finds it *)

Bytes == {"a", " ", "\n", "\\", "#"} \cup Quotes \cup Operators
Modes == {"blank", "word", "found", "escape", "quoted escape", "#"} \cup Quotes \cup Operators
Types == {"FAILED_ASSERTION", "NEW_LINE", "STR", "AND", "OR", "PIPE", "BACKGROUND",
          "OUT_APPEND", "OUT_NEW"}
Record == [mode : Modes, type : Types \cup {"NONE"}, data : Seq(Bytes), used : Nat]
Scans ==
    {s \in Record :
        /\ s.mode = "blank" => s.data = <<>>
        /\ s.mode # "blank" => s.used >= 1
        /\ s.mode # "found" <=> s.type = "NONE"}

LEMMA ScanningIsAScan == Scanning \in Scans
  BY DEF Scanning, Scans, Record, Modes, Types, Quotes, Operators

Fields(r, mode, type, data, used) ==
    /\ r \in Record
    /\ r.mode = mode /\ r.type = type /\ r.data = data /\ r.used = used

\* What an update of a record leaves.
LEMMA UpdatedType ==
    ASSUME NEW s \in Record, NEW m \in Modes, NEW t \in Types
    PROVE  Fields([s EXCEPT !.mode = m, !.type = t], m, t, s.data, s.used)
  BY DEF Record, Fields

LEMMA UpdatedUsed ==
    ASSUME NEW s \in Record, NEW m \in Modes, NEW u \in Nat
    PROVE  Fields([s EXCEPT !.mode = m, !.used = u], m, s.type, s.data, u)
  BY DEF Record, Fields

LEMMA UpdatedData ==
    ASSUME NEW s \in Record, NEW m \in Modes, NEW d \in Seq(Bytes), NEW u \in Nat
    PROVE  Fields([s EXCEPT !.mode = m, !.data = d, !.used = u], m, s.type, d, u)
  BY DEF Record, Fields

LEMMA FoundFacts ==
    ASSUME NEW s \in Record, NEW t \in Types
    PROVE  Fields(Found(s, t), "found", t, s.data, s.used)
<1>1. "found" \in Modes
  BY DEF Modes
<1> QED
  BY <1>1, UpdatedType, Zenon DEF Found

LEMMA ConsumedFacts ==
    ASSUME NEW s \in Record, NEW mode \in Modes
    PROVE  Fields(Consumed(s, mode), mode, s.type, s.data, s.used + 1)
<1>1. s.used + 1 \in Nat
  BY DEF Record
<1> QED
  BY <1>1, UpdatedUsed, Zenon DEF Consumed

LEMMA AppendedFacts ==
    ASSUME NEW s \in Record, NEW c \in Bytes, NEW mode \in Modes
    PROVE  Fields(Appended(s, c, mode), mode, s.type, Append(s.data, c), s.used + 1)
<1>1. s.used + 1 \in Nat /\ s.data \in Seq(Bytes)
  BY DEF Record
<1>2. Append(s.data, c) \in Seq(Bytes)
  BY <1>1, AppendProperties
<1> QED
  BY <1>1, <1>2, UpdatedData, Zenon DEF Appended

\* A token that is found when a byte is taken: the byte is the last one of the
\* token, or the first one after it.
FoundAfter(s, t) ==
    /\ t \in Scans /\ t.mode = "found"
    /\ t.used \in {s.used, s.used + 1} /\ t.used >= 1
    /\ t.type = "NEW_LINE" => t.used = s.used + 1

GoesOn(s, t) == t \in Scans /\ t.mode # "found" /\ t.used = s.used + 1

\* The ways to go on and to find a token.
LEMMA Consuming ==
    ASSUME NEW s \in Scans, NEW mode \in Modes \ {"found"}, s.mode # "found",
           mode = "blank" => s.mode = "blank"
    PROVE  GoesOn(s, Consumed(s, mode))
<1>1. s \in Record /\ s.used \in Nat
  BY DEF Scans, Record
<1>2. s.type = "NONE" /\ (mode = "blank" => s.data = <<>>)
  BY DEF Scans
<1> DEFINE c == Consumed(s, mode)
<1>3. c \in Record /\ c.mode = mode /\ c.type = s.type /\ c.data = s.data /\ c.used = s.used + 1
  BY <1>1, ConsumedFacts DEF Fields
<1> HIDE DEF c
<1>4. c.used >= 1
  BY <1>1, <1>3
<1> QED
  BY <1>2, <1>3, <1>4 DEF GoesOn, Scans, c

LEMMA Appending ==
    ASSUME NEW s \in Scans, NEW c \in Bytes, NEW mode \in Modes \ {"found", "blank"}, s.mode # "found"
    PROVE  GoesOn(s, Appended(s, c, mode))
<1>1. s \in Record /\ s.used \in Nat
  BY DEF Scans, Record
<1>2. s.type = "NONE"
  BY DEF Scans
<1> DEFINE a == Appended(s, c, mode)
<1>3. a \in Record /\ a.mode = mode /\ a.type = s.type /\ a.used = s.used + 1
  BY <1>1, AppendedFacts DEF Fields
<1> HIDE DEF a
<1>4. a.used >= 1
  BY <1>1, <1>3
<1> QED
  BY <1>2, <1>3, <1>4 DEF GoesOn, Scans, a

LEMMA FoundLast ==
    ASSUME NEW s \in Scans, NEW type \in Types, NEW mode \in Modes
    PROVE  FoundAfter(s, Found(Consumed(s, mode), type))
<1>1. s \in Record /\ s.used \in Nat
  BY DEF Scans, Record
<1> DEFINE c == Consumed(s, mode)
<1>2. c \in Record /\ c.used = s.used + 1
  BY <1>1, ConsumedFacts DEF Fields
<1> HIDE DEF c
<1> DEFINE f == Found(c, type)
<1>3. f \in Record /\ f.used = c.used /\ f.mode = "found" /\ f.type = type
  BY <1>2, FoundFacts DEF Fields
<1> HIDE DEF f
<1>4. type # "NONE"
  BY DEF Types
<1>5. f.used = s.used + 1 /\ f.used >= 1
  BY <1>1, <1>2, <1>3
<1>6. f \in Scans
  BY <1>3, <1>4, <1>5 DEF Scans
<1> QED
  BY <1>3, <1>5, <1>6 DEF FoundAfter, f, c

LEMMA FoundBefore ==
    ASSUME NEW s \in Scans, NEW type \in Types \ {"NEW_LINE"}, s.mode # "blank"
    PROVE  FoundAfter(s, Found(s, type))
<1>1. s \in Record /\ s.used \in Nat /\ s.used >= 1
  BY DEF Scans, Record
<1> DEFINE f == Found(s, type)
<1>2. f \in Record /\ f.used = s.used /\ f.mode = "found" /\ f.type = type
  BY <1>1, FoundFacts DEF Fields
<1> HIDE DEF f
<1>3. type # "NONE"
  BY DEF Types
<1>4. f \in Scans
  BY <1>1, <1>2, <1>3 DEF Scans
<1> QED
  BY <1>1, <1>2, <1>4 DEF FoundAfter, f

LEMMA InWordFacts ==
    ASSUME NEW s \in Scans, NEW c \in Bytes,
           s.mode = "word" \/ (s.mode = "blank" /\ c \notin {" ", "\n"})
    PROVE  FoundAfter(s, InWord(s, c)) \/ GoesOn(s, InWord(s, c))
<1>1. s.mode # "found" /\ "word" \in Modes \ {"found", "blank"} /\ "escape" \in Modes \ {"found", "blank"}
      /\ "STR" \in Types \ {"NEW_LINE"} /\ "FAILED_ASSERTION" \in Types \ {"NEW_LINE"}
  BY DEF Modes, Types
<1>2. CASE c \in Quotes
  <2>1. InWord(s, c) = Consumed(s, c)
    BY <1>2 DEF InWord, Quotes, Operators
  <2>2. c \in Modes \ {"found", "blank"}
    BY <1>2 DEF Quotes, Modes
  <2> QED
    BY <1>1, <2>1, <2>2, Consuming
<1>3. CASE c = "\\"
  <2>1. InWord(s, c) = Consumed(s, "escape")
    BY <1>3 DEF InWord, Quotes, Operators
  <2> QED
    BY <1>1, <2>1, Consuming
<1>4. CASE c \in Operators \cup {"#"}
  <2>1. c \in Modes \ {"found", "blank"}
    BY <1>4 DEF Operators, Modes
  <2>2. InWord(s, c) = IF s.data # <<>> THEN Found(s, "STR") ELSE Consumed(s, c)
    BY <1>4 DEF InWord, Quotes, Operators
  <2>3. CASE s.data # <<>>
    <3>1. s.mode # "blank"
      BY <2>3 DEF Scans
    <3> QED
      BY <1>1, <2>2, <2>3, <3>1, FoundBefore
  <2>4. CASE s.data = <<>>
    BY <1>1, <2>1, <2>2, <2>4, Consuming
  <2> QED
    BY <2>3, <2>4
<1>5. CASE c \in {" ", "\n"}
  <2>1. s.mode = "word" /\ s.mode # "blank"
    BY <1>5
  <2>2. InWord(s, c) = EndOfWord(s, c)
    BY <1>5 DEF InWord, Quotes, Operators
  <2>3. CASE s.data = <<>>
    BY <1>1, <2>1, <2>2, <2>3, FoundBefore DEF EndOfWord
  <2>4. CASE s.data # <<>> /\ c = "\n"
    BY <1>1, <2>1, <2>2, <2>4, FoundBefore DEF EndOfWord
  <2>5. CASE s.data # <<>> /\ c # "\n"
    BY <1>1, <2>1, <2>2, <2>5, FoundLast DEF EndOfWord
  <2> QED
    BY <2>3, <2>4, <2>5
<1>6. CASE c \notin Quotes \cup Operators \cup {"\\", "#", " ", "\n"}
  <2>1. InWord(s, c) = Appended(s, c, "word")
    BY <1>6 DEF InWord
  <2> QED
    BY <1>1, <2>1, Appending
<1> QED
  BY <1>2, <1>3, <1>4, <1>5, <1>6


\* A byte goes on with the token or finds it.
LEMMA ScanByteFacts ==
    ASSUME NEW s \in Scans, NEW c \in Bytes, s.mode # "found"
    PROVE  FoundAfter(s, ScanByte(s, c)) \/ GoesOn(s, ScanByte(s, c))
<1>1. s.mode \in Modes /\ s.mode \notin {"found"}
  BY DEF Scans, Record
<1>2. CASE s.mode = "blank"
  <2>1. ScanByte(s, c) = InBlank(s, c)
    BY <1>2 DEF ScanByte, Quotes, Operators
  <2>2. CASE c = "\n"
    <3>1. InBlank(s, c) = Found(Consumed(s, "blank"), "NEW_LINE")
      BY <2>2 DEF InBlank
    <3> QED
      BY <2>1, <3>1, FoundLast DEF Types, Modes
  <2>3. CASE c = " "
    <3>1. InBlank(s, c) = Consumed(s, "blank")
      BY <2>3 DEF InBlank
    <3> QED
      BY <1>2, <2>1, <3>1, Consuming DEF Modes
  <2>4. CASE c \notin {" ", "\n"}
    <3>1. InBlank(s, c) = InWord(s, c)
      BY <2>4 DEF InBlank
    <3> QED
      BY <1>2, <2>1, <2>4, <3>1, InWordFacts
  <2> QED
    BY <2>2, <2>3, <2>4
<1>3. CASE s.mode = "word"
  <2>1. ScanByte(s, c) = InWord(s, c)
    BY <1>3 DEF ScanByte, Quotes, Operators
  <2> QED
    BY <1>3, <2>1, InWordFacts
<1>4. CASE s.mode \in Quotes
  <2>1. ScanByte(s, c) = InQuotes(s, c)
    BY <1>4 DEF ScanByte, Quotes, Operators
  <2>2. s.mode \in Modes \ {"found", "blank"}
    BY <1>4 DEF Quotes, Modes
  <2>3. CASE c = s.mode
    <3>1. InQuotes(s, c) = Found(Consumed(s, c), "STR")
      BY <1>4, <2>3 DEF InQuotes, Quotes
    <3> QED
      BY <2>1, <2>2, <2>3, <3>1, FoundLast DEF Types
  <2>4. CASE c = "\\" /\ s.mode = "\""
    <3>1. InQuotes(s, c) = Consumed(s, "quoted escape")
      BY <1>4, <2>4 DEF InQuotes, Quotes
    <3> QED
      BY <1>1, <2>1, <3>1, Consuming DEF Modes
  <2>5. CASE c # s.mode /\ ~(c = "\\" /\ s.mode = "\"")
    <3>1. InQuotes(s, c) = Appended(s, c, s.mode)
      BY <1>4, <2>5 DEF InQuotes, Quotes
    <3> QED
      BY <1>1, <2>1, <2>2, <3>1, Appending
  <2> QED
    BY <2>3, <2>4, <2>5
<1>5. CASE s.mode = "escape"
  <2>1. ScanByte(s, c) = AfterEscape(s, c)
    BY <1>5 DEF ScanByte, Quotes, Operators
  <2>2. "word" \in Modes \ {"found", "blank"}
    BY DEF Modes
  <2> QED
    BY <1>1, <2>1, <2>2, Consuming, Appending DEF AfterEscape
<1>6. CASE s.mode = "quoted escape"
  <2>1. ScanByte(s, c) = AfterQuotedEscape(s, c)
    BY <1>6 DEF ScanByte, Quotes, Operators
  <2>2. "\"" \in Modes \ {"found", "blank"} /\ "\\" \in Bytes
    BY DEF Modes, Quotes, Bytes
  <2>3. CASE c \in {"\\", "\""}
    <3>1. AfterQuotedEscape(s, c) = Appended(s, c, "\"")
      BY <2>3 DEF AfterQuotedEscape
    <3> QED
      BY <1>1, <2>1, <2>2, <3>1, Appending
  <2>4. CASE c = "\n"
    <3>1. AfterQuotedEscape(s, c) = Consumed(s, "\"")
      BY <2>4 DEF AfterQuotedEscape
    <3> QED
      BY <1>1, <2>1, <2>2, <3>1, Consuming
  <2>5. CASE c \notin {"\\", "\"", "\n"}
    <3> DEFINE a == [s EXCEPT !.data = Append(@, "\\")]
    <3>1. AfterQuotedEscape(s, c) = Appended(a, c, "\"")
      BY <2>5 DEF AfterQuotedEscape
    <3>2. a \in Scans /\ a.mode # "found" /\ a.used = s.used
      <4>1. s \in Record /\ s.type = "NONE" /\ s.used >= 1
        BY <1>6 DEF Scans
      <4>2. PICK d \in Seq(Bytes) : d = Append(s.data, "\\")
        <5>1. Append(s.data, "\\") \in Seq(Bytes)
          <6>1. s.data \in Seq(Bytes)
            BY <4>1 DEF Record
          <6> QED
            BY <2>2, <6>1, AppendProperties
        <5> QED
          BY <5>1, Zenon
      <4>3. a = [s EXCEPT !.data = d]
        BY <4>2, Zenon
      <4>4. [s EXCEPT !.data = d] \in Record
        BY <4>1 DEF Record
      <4>5. [s EXCEPT !.data = d].mode = s.mode /\ [s EXCEPT !.data = d].used = s.used
            /\ [s EXCEPT !.data = d].type = s.type
        BY <4>1 DEF Record
      <4> HIDE DEF a
      <4>6. a \in Record /\ a.mode = s.mode /\ a.used = s.used /\ a.type = s.type
        BY <4>3, <4>4, <4>5, Zenon
      <4> QED
        BY <1>6, <4>1, <4>6 DEF Scans
    <3> HIDE DEF a
    <3>3. GoesOn(a, Appended(a, c, "\""))
      BY <2>2, <3>2, Appending
    <3> QED
      BY <2>1, <3>1, <3>2, <3>3 DEF GoesOn
  <2> QED
    BY <2>3, <2>4, <2>5
<1>7. CASE s.mode = "#"
  <2>1. ScanByte(s, c) = InComment(s, c)
    BY <1>7 DEF ScanByte, Quotes, Operators
  <2>2. "#" \in Modes \ {"found", "blank"} /\ "NEW_LINE" \in Types
    BY DEF Modes, Types
  <2> QED
    BY <1>1, <2>1, <2>2, Consuming, FoundLast DEF InComment
<1>8. CASE s.mode \in Operators
  <2>1. ScanByte(s, c) = AfterOperator(s, c)
    BY <1>8 DEF ScanByte, Quotes, Operators
  <2>2. Doubled(s.mode) \in Types /\ Single(s.mode) \in Types \ {"NEW_LINE"} /\ s.mode # "blank"
    BY <1>8 DEF Doubled, Single, Operators, Types
  <2>3. CASE c = s.mode
    BY <1>1, <2>1, <2>2, <2>3, FoundLast DEF AfterOperator
  <2>4. CASE c # s.mode
    BY <2>1, <2>2, <2>4, FoundBefore DEF AfterOperator
  <2> QED
    BY <2>3, <2>4
<1> QED
  BY <1>1, <1>2, <1>3, <1>4, <1>5, <1>6, <1>7, <1>8 DEF Modes

LEMMA ScanByteType ==
    ASSUME NEW s \in Scans, NEW c \in Bytes
    PROVE  ScanByte(s, c) \in Scans /\ (s.mode = "found" => ScanByte(s, c) = s)
<1>1. CASE s.mode = "found"
  <2>1. ScanByte(s, c) = s
    BY <1>1 DEF ScanByte, Quotes, Operators
  <2> QED
    BY <2>1
<1>2. CASE s.mode # "found"
  BY <1>2, ScanByteFacts DEF FoundAfter, GoesOn
<1> QED
  BY <1>1, <1>2

-----------------------------------------------------------------------------
(* The token at the head of a buffer *)

LEMMA TokenIsARun ==
    ASSUME NEW b \in Seq(Bytes)
    PROVE  \E r \in [0 .. Len(b) -> Scans] :
              /\ r[0] = Scanning /\ r[Len(b)] = Token(b)
              /\ \A i \in 1 .. Len(b) : r[i] = ScanByte(r[i - 1], b[i])
<1> DEFINE F == [p \in Scans \X Bytes |-> ScanByte(p[1], p[2])]
           Eq(g) == g = [s \in SUBSET DOMAIN b |-> IF s = {} THEN Scanning
                            ELSE ScanByte(g[s \ {Max(s)}], b[Max(s)])]
<1>1. F \in [Scans \X Bytes -> Scans]
  BY ScanByteType
<1>2. \E g : Eq(g)
  <2>0. PICK g \in [SUBSET DOMAIN b -> Scans] : Iterates(g, F, Scanning, b)
    <3> HIDE DEF F
    <3> QED
      BY <1>1, ScanningIsAScan, FoldExists, Zenon
  <2>1. \A s \in SUBSET DOMAIN b :
              g[s] = IF s = {} THEN Scanning ELSE F[g[s \ {Max(s)}], b[Max(s)]]
    BY <2>0 DEF Iterates
  <2>2. ASSUME NEW s \in SUBSET DOMAIN b
        PROVE  g[s] = IF s = {} THEN Scanning ELSE ScanByte(g[s \ {Max(s)}], b[Max(s)])
    <3>1. CASE s = {}
      BY <2>1, <3>1
    <3>2. CASE s # {}
      <4>1. Len(b) \in Nat /\ DOMAIN b = 1 .. Len(b)
        OBVIOUS
      <4>2. Max(s) \in DOMAIN b
        BY <3>2, <4>1, MaxOfNumbers
      <4>3. b[Max(s)] \in Bytes /\ g[s \ {Max(s)}] \in Scans
        <5>1. s \ {Max(s)} \in SUBSET DOMAIN b
          OBVIOUS
        <5>2. g[s \ {Max(s)}] \in Scans
          BY <2>1, <5>1
        <5> QED
          BY <4>1, <4>2, <5>2
      <4>4. F[g[s \ {Max(s)}], b[Max(s)]] = ScanByte(g[s \ {Max(s)}], b[Max(s)])
        BY <4>3
      <4> QED
        BY <2>1, <3>2, <4>4
    <3> QED
      BY <3>1, <3>2
  <2>3. Eq(g)
    BY <2>1, <2>2
  <2> QED
    BY <2>3
<1>3. PICK g : Eq(g) /\ Token(b) = g[DOMAIN b]
  BY <1>2 DEF Token, FoldLeft, MapThenFoldSet
<1>4. DOMAIN b = 1 .. Len(b) /\ Len(b) \in Nat
  OBVIOUS
<1>5. g[1 .. 0] = Scanning
  <2>1. 1 .. 0 = {} /\ {} \in SUBSET DOMAIN b
    OBVIOUS
  <2> QED
    BY <1>3, <2>1
<1>6. ASSUME NEW i \in 1 .. Len(b) PROVE g[1 .. i] = ScanByte(g[1 .. i - 1], b[i])
  <2>1. 1 .. i # {} /\ Max(1 .. i) = i /\ (1 .. i) \ {Max(1 .. i)} = 1 .. i - 1
    <3>1. i \in Nat /\ i >= 1
      OBVIOUS
    <3> QED
      BY ONLY <3>1, Initial
  <2>2. 1 .. i \in SUBSET DOMAIN b
    BY <1>4
  <2> QED
    BY <1>3, <2>1, <2>2
<1> HIDE DEF Eq
<1> DEFINE r == [i \in 0 .. Len(b) |-> g[1 .. i]]
           T == {i \in 0 .. Len(b) : r[i] \in Scans}
<1>7. \A i \in 1 .. Len(b) : r[i] = ScanByte(r[i - 1], b[i])
  BY <1>4, <1>6
<1>8. r[0] = Scanning /\ r[Len(b)] = Token(b)
  BY <1>3, <1>4, <1>5
<1>9. \A i \in 0 .. Len(b) : i \in T
  <2>1. 0 \in T
    BY <1>4, <1>8, ScanningIsAScan
  <2>2. ASSUME NEW i \in 1 .. Len(b), i - 1 \in T PROVE i \in T
    <3>1. b[i] \in Bytes /\ r[i - 1] \in Scans
      BY <2>2
    <3>2. r[i] \in Scans
      BY <1>7, <3>1, ScanByteType, ZenonT(60)
    <3> QED
      BY <3>2
  <2> HIDE DEF T
  <2> QED
    BY <1>4, <2>1, <2>2, UpTo
<1> QED
  BY <1>7, <1>8, <1>9


\* What the fold adds for every byte.
LEMMA TokenSteps ==
    ASSUME NEW b \in Seq(Bytes)
    PROVE  /\ Token(b) \in Scans
           /\ Token(Prefix(b, 0)) = Scanning
           /\ \A i \in 1 .. Len(b) : Token(Prefix(b, i)) = ScanByte(Token(Prefix(b, i - 1)), b[i])
<1>1. ASSUME NEW c \in Seq(Bytes)
      PROVE  /\ Token(c) \in Scans
             /\ Len(c) = 0 => Token(c) = Scanning
             /\ Len(c) # 0 => Token(c) = ScanByte(Token(Prefix(c, Len(c) - 1)), c[Len(c)])
  <2>1. PICK r \in [0 .. Len(c) -> Scans] :
              /\ r[0] = Scanning /\ r[Len(c)] = Token(c)
              /\ \A i \in 1 .. Len(c) : r[i] = ScanByte(r[i - 1], c[i])
    BY TokenIsARun
  <2>2. PICK n \in Nat : n = Len(c)
    OBVIOUS
  <2>3. CASE n # 0
    <3> DEFINE d == Prefix(c, n - 1)
    <3>1. n - 1 \in 0 .. Len(c) /\ n - 1 \in Nat
      BY <2>2, <2>3
    <3>2. d \in Seq(Bytes) /\ Len(d) = n - 1 /\ \A i \in 1 .. n - 1 : d[i] = c[i]
      BY <3>1, PrefixFacts
    <3> HIDE DEF d
    <3>9. PICK s \in [0 .. Len(d) -> Scans] :
              /\ s[0] = Scanning /\ s[Len(d)] = Token(d)
              /\ \A i \in 1 .. Len(d) : s[i] = ScanByte(s[i - 1], d[i])
      BY <3>2, TokenIsARun
    <3>3. /\ s[0] = Scanning /\ s[n - 1] = Token(d)
          /\ \A i \in 1 .. n - 1 : s[i] = ScanByte(s[i - 1], d[i])
      BY <3>2, <3>9
    <3> DEFINE A == {i \in 0 .. n - 1 : r[i] = s[i]}
    <3>4. 0 \in A
      BY <2>1, <3>1, <3>3
    <3>5. ASSUME NEW i \in 1 .. n - 1, i - 1 \in A PROVE i \in A
      <4>1. i \in 1 .. Len(c)
        BY <2>2
      <4>2. r[i] = ScanByte(r[i - 1], c[i]) /\ s[i] = ScanByte(s[i - 1], c[i])
        BY <2>1, <3>2, <3>3, <4>1
      <4> QED
        BY <3>5, <4>2
    <3>6. n - 1 \in A
      <4> HIDE DEF A
      <4>1. \A i \in 0 .. n - 1 : i \in A
        BY <3>1, <3>4, <3>5, UpTo
      <4> QED
        BY <3>1, <4>1
    <3>7. r[n] = ScanByte(r[n - 1], c[n])
      BY <2>1, <2>2, <2>3
    <3> QED
      BY <2>1, <2>2, <2>3, <3>3, <3>6, <3>7 DEF d
  <2>4. CASE n = 0
    BY <2>1, <2>2, <2>4
  <2> QED
    BY <2>3, <2>4
<1>2. Token(Prefix(b, 0)) = Scanning
  <2>1. 0 \in 0 .. Len(b)
    OBVIOUS
  <2> QED
    BY <1>1, <2>1, PrefixFacts
<1>3. ASSUME NEW i \in 1 .. Len(b)
      PROVE  Token(Prefix(b, i)) = ScanByte(Token(Prefix(b, i - 1)), b[i])
  <2> DEFINE c == Prefix(b, i)
  <2>1. i \in 0 .. Len(b) /\ i \in 1 .. i /\ i - 1 \in 0 .. i
    OBVIOUS
  <2>2. c \in Seq(Bytes) /\ Len(c) = i /\ c[i] = b[i] /\ Prefix(c, i - 1) = Prefix(b, i - 1)
    BY <2>1, PrefixFacts
  <2> QED
    BY <1>1, <2>2
<1> QED
  BY <1>1, <1>2, <1>3


\* When a token is found, at the k-th byte, its bytes are the first k or k - 1.
LEMMA FoundSomewhere ==
    ASSUME NEW b \in Seq(Bytes), NEW i \in 0 .. Len(b)
    PROVE  /\ Token(Prefix(b, i)) \in Scans
           /\ Token(Prefix(b, i)).mode # "found" => Token(Prefix(b, i)).used = i
           /\ Token(Prefix(b, i)).mode = "found" =>
                 \E k \in 1 .. i : /\ Token(Prefix(b, k)) = Token(Prefix(b, i))
                                   /\ Token(Prefix(b, i)).used \in {k - 1, k}
                                   /\ Token(Prefix(b, i)).used >= 1
                                   /\ Token(Prefix(b, i)).type = "NEW_LINE" => Token(Prefix(b, i)).used = k
<1> DEFINE T(j) == Token(Prefix(b, j))
           P(j) == /\ T(j) \in Scans
                   /\ T(j).mode # "found" => T(j).used = j
                   /\ T(j).mode = "found" =>
                         \E k \in 1 .. j : /\ T(k) = T(j) /\ T(j).used \in {k - 1, k}
                                           /\ T(j).used >= 1
                                           /\ T(j).type = "NEW_LINE" => T(j).used = k
           S == {j \in 0 .. Len(b) : P(j)}
<1>1. Len(b) \in Nat /\ \A j \in 1 .. Len(b) : b[j] \in Bytes /\ T(j) = ScanByte(T(j - 1), b[j])
  BY TokenSteps
<1>2. 0 \in S
  <2>1. T(0) = Scanning
    BY TokenSteps
  <2>2. T(0) \in Scans /\ T(0).mode # "found" /\ T(0).used = 0
    BY <2>1, ScanningIsAScan DEF Scanning
  <2> HIDE DEF T
  <2> QED
    BY <1>1, <2>2
<1>3. ASSUME NEW j \in 1 .. Len(b), j - 1 \in S PROVE j \in S
  <2>1. T(j - 1) \in Scans /\ P(j - 1) /\ b[j] \in Bytes /\ T(j) = ScanByte(T(j - 1), b[j])
    BY <1>1, <1>3
  <2> HIDE DEF T
  <2>2. CASE T(j - 1).mode = "found"
    <3>1. T(j) = T(j - 1)
      BY <2>1, <2>2, ScanByteType
    <3>2. P(j)
      BY <2>1, <2>2, <3>1
    <3> QED
      BY <3>2
  <2>3. CASE T(j - 1).mode # "found"
    <3>1. T(j - 1).used = j - 1
      BY <2>1, <2>3
    <3>2. FoundAfter(T(j - 1), T(j)) \/ GoesOn(T(j - 1), T(j))
      BY <2>1, <2>3, ScanByteFacts
    <3>3. CASE GoesOn(T(j - 1), T(j))
      BY <3>1, <3>3 DEF GoesOn
    <3>4. CASE FoundAfter(T(j - 1), T(j))
      <4>1. T(j).used \in {j - 1, j} /\ (T(j).type = "NEW_LINE" => T(j).used = j)
            /\ T(j).used >= 1 /\ T(j).mode = "found" /\ T(j) \in Scans
        BY <3>1, <3>4 DEF FoundAfter
      <4>2. j \in 1 .. j
        OBVIOUS
      <4> QED
        BY <4>1, <4>2
    <3> QED
      BY <3>2, <3>3, <3>4
  <2> QED
    BY <2>2, <2>3
<1>4. \A j \in 0 .. Len(b) : j \in S
  <2> HIDE DEF S
  <2> QED
    BY <1>1, <1>2, <1>3, UpTo
<1> QED
  BY <1>4

\* Bytes after the end of a token do not change it.
LEMMA FoundStays ==
    ASSUME NEW b \in Seq(Bytes), NEW k \in 0 .. Len(b), Token(Prefix(b, k)).mode = "found",
           NEW i \in k .. Len(b)
    PROVE  Token(Prefix(b, i)) = Token(Prefix(b, k))
<1> DEFINE T(j) == Token(Prefix(b, j))
           S == {j \in 0 .. Len(b) : k <= j => T(j) = T(k)}
<1>1. Len(b) \in Nat /\ \A j \in 1 .. Len(b) : b[j] \in Bytes /\ T(j) = ScanByte(T(j - 1), b[j])
  BY TokenSteps
<1>2. 0 \in S
  BY <1>1
<1>3. ASSUME NEW j \in 1 .. Len(b), j - 1 \in S PROVE j \in S
  <2>1. CASE k <= j - 1
    <3>1. T(j - 1) = T(k) /\ j - 1 \in 0 .. Len(b)
      BY <1>3, <2>1
    <3>2. T(j - 1) \in Scans
      BY <3>1, FoundSomewhere
    <3>3. T(j) = T(j - 1)
      BY <1>1, <3>1, <3>2, ScanByteType
    <3> QED
      BY <3>1, <3>3
  <2>2. CASE k = j
    BY <2>2
  <2>3. CASE k > j
    BY <2>3
  <2> QED
    BY <2>1, <2>2, <2>3
<1>4. \A j \in 0 .. Len(b) : j \in S
  <2> HIDE DEF S
  <2> QED
    BY <1>1, <1>2, <1>3, UpTo
<1> QED
  BY <1>4

LEMMA TokenFacts ==
    ASSUME NEW b \in Seq(Bytes)
    PROVE  /\ Token(b) \in Scans
           /\ Token(b).mode = "found" =>
                /\ Token(b).used \in 1 .. Len(b)
                /\ Token(b).type = "NEW_LINE" => Token(Prefix(b, Token(b).used)) = Token(b)
                /\ Token(b).used < Len(b) => Token(Prefix(b, Token(b).used + 1)) = Token(b)
<1>1. Len(b) \in 0 .. Len(b) /\ Prefix(b, Len(b)) = b
  BY PrefixFacts
<1>2. Token(b) \in Scans
  BY <1>1, FoundSomewhere
<1>3. ASSUME Token(b).mode = "found"
      PROVE  /\ Token(b).used \in 1 .. Len(b)
             /\ Token(b).type = "NEW_LINE" => Token(Prefix(b, Token(b).used)) = Token(b)
             /\ Token(b).used < Len(b) => Token(Prefix(b, Token(b).used + 1)) = Token(b)
  <2>1. PICK k \in 1 .. Len(b) : /\ Token(Prefix(b, k)) = Token(b) /\ Token(b).used \in {k - 1, k}
                                 /\ Token(b).used >= 1
                                 /\ Token(b).type = "NEW_LINE" => Token(b).used = k
    BY <1>1, <1>3, FoundSomewhere
  <2>2. CASE Token(b).used = k - 1
    BY <2>1, <2>2
  <2>3. CASE Token(b).used = k
    <3>1. ASSUME k < Len(b) PROVE Token(Prefix(b, k + 1)) = Token(b)
      <4>1. k + 1 \in k .. Len(b) /\ k \in 0 .. Len(b)
        BY <3>1
      <4> QED
        BY <1>3, <2>1, <4>1, FoundStays
    <3> QED
      BY <2>1, <2>3, <3>1
  <2> QED
    BY <2>1, <2>2, <2>3
<1> QED
  BY <1>2, <1>3

LEMMA TokenStable ==
    ASSUME NEW b \in Seq(Bytes), NEW x \in Seq(Bytes), Token(b).mode = "found"
    PROVE  Token(b \o x) = Token(b)
<1>1. PICK z \in Seq(Bytes) : z = b \o x
  BY ConcatProperties
<1>2. Len(z) = Len(b) + Len(x) /\ Len(b) \in Nat /\ Len(x) \in Nat
  BY <1>1, ConcatProperties
<1>3. Prefix(z, Len(b)) = b /\ Prefix(z, Len(z)) = z
  BY <1>1, <1>2 DEF Prefix
<1>4. PICK k \in 0 .. Len(z) : k = Len(b)
  BY <1>2
<1>5. PICK i \in k .. Len(z) : i = Len(z)
  BY <1>2, <1>4
<1>6. Token(Prefix(z, i)) = Token(Prefix(z, k))
  BY <1>3, <1>4, FoundStays
<1> QED
  BY <1>1, <1>3, <1>4, <1>5, <1>6


-----------------------------------------------------------------------------
(* The rest of a buffer, and its tokens one after the other *)

\* f is computed from its end: in G from an element behind, elsewhere at once.
Unrolls(f, n, G, head, next, base) ==
    \A i \in 1 .. n + 1 : f[i] = IF i \in G THEN head[i] \o f[next[i]] ELSE base[i]

LEMMA UnrollExists ==
    ASSUME NEW n \in Nat, NEW G \in SUBSET (1 .. n), NEW head, NEW base,
           NEW next, \A i \in G : next[i] \in i + 1 .. n + 1
    PROVE  \E f : f = [i \in 1 .. n + 1 |-> f[i]] /\ Unrolls(f, n, G, head, next, base)
<1> DEFINE E(f, i) == f[i] = IF i \in G THEN head[i] \o f[next[i]] ELSE base[i]
           P(f, k) == \A i \in 1 .. n + 1 : i > n + 1 - k => E(f, i)
           N == {k \in 0 .. n + 1 : \E f : f = [i \in 1 .. n + 1 |-> f[i]] /\ P(f, k)}
<1>1. 0 \in N
  <2> DEFINE f == [i \in 1 .. n + 1 |-> 0]
  <2>1. f = [i \in 1 .. n + 1 |-> f[i]]
    OBVIOUS
  <2> HIDE DEF f
  <2>2. P(f, 0)
    OBVIOUS
  <2> HIDE DEF P
  <2> QED
    BY <2>1, <2>2
<1>2. ASSUME NEW k \in 1 .. n + 1, k - 1 \in N PROVE k \in N
  <2>1. PICK f : f = [i \in 1 .. n + 1 |-> f[i]] /\ P(f, k - 1)
    BY <1>2
  <2> DEFINE v == n + 2 - k
             h == [i \in 1 .. n + 1 |-> IF i = v THEN IF v \in G THEN head[v] \o f[next[v]] ELSE base[v]
                                        ELSE f[i]]
  <2>2. h = [i \in 1 .. n + 1 |-> h[i]]
    OBVIOUS
  <2>3. v \in 1 .. n + 1
    OBVIOUS
  <2>4. ASSUME NEW i \in 1 .. n + 1, i > n + 1 - k PROVE E(h, i)
    <3>1. i \in G => /\ next[i] \in i + 1 .. n + 1 /\ i \in 1 .. n
      OBVIOUS
    <3>2. i \in G => h[next[i]] = f[next[i]]
      <4>1. ASSUME i \in G PROVE next[i] \in 1 .. n + 1 /\ next[i] # v
        BY <2>4, <3>1, <4>1
      <4> QED
        BY <4>1
    <3>3. CASE i = v
      <4>1. h[i] = IF i \in G THEN head[i] \o f[next[i]] ELSE base[i]
        BY <3>3
      <4> HIDE DEF h, v
      <4> QED
        BY <3>2, <4>1
    <3>4. CASE i # v
      <4>0. i > n + 1 - (k - 1)
        BY <2>4, <3>4
      <4>1. E(f, i)
        BY <2>1, <4>0
      <4>2. h[i] = f[i]
        BY <3>4
      <4> HIDE DEF h, v
      <4> QED
        BY <3>2, <4>1, <4>2
    <3> QED
      BY <3>3, <3>4
  <2> HIDE DEF h, E
  <2>5. P(h, k)
    BY <2>4
  <2> HIDE DEF P
  <2> QED
    BY <2>2, <2>5
<1>3. n + 1 \in N
  <2> HIDE DEF N
  <2>1. n + 1 \in Nat /\ n + 1 \in 0 .. n + 1
    OBVIOUS
  <2> QED
    BY <1>1, <1>2, <2>1, UpTo
<1>4. PICK f : f = [i \in 1 .. n + 1 |-> f[i]] /\ P(f, n + 1)
  BY <1>3
<1>5. ASSUME NEW i \in 1 .. n + 1 PROVE E(f, i)
  <2>1. i > n + 1 - (n + 1)
    OBVIOUS
  <2> QED
    BY <1>4, <2>1
<1> QED
  BY <1>4, <1>5 DEF Unrolls

LEMMA RestFacts ==
    ASSUME NEW E, NEW b \in Seq(E), NEW k \in 0 .. Len(b)
    PROVE  /\ Rest(b, k) \in Seq(E) /\ Len(Rest(b, k)) = Len(b) - k
           /\ Rest(b, 0) = b
           /\ \A j \in 0 .. Len(b) - k : Rest(Rest(b, k), j) = Rest(b, k + j)
           /\ b = Prefix(b, k) \o Rest(b, k)
<1>1. Rest(b, k) \in Seq(E) /\ Len(Rest(b, k)) = Len(b) - k
      /\ \A i \in 1 .. Len(b) - k : Rest(b, k)[i] = b[k + i]
  BY DEF Rest
<1>2. Rest(b, 0) = b
  BY DEF Rest
<1>3. ASSUME NEW j \in 0 .. Len(b) - k PROVE Rest(Rest(b, k), j) = Rest(b, k + j)
  <2> DEFINE u == Rest(Rest(b, k), j)
             v == Rest(b, k + j)
  <2>1. u \in Seq(E) /\ Len(u) = Len(b) - k - j
        /\ \A i \in 1 .. Len(b) - k - j : u[i] = b[k + j + i]
    <3>1. PICK r \in Seq(E) : r = Rest(b, k)
      BY <1>1
    <3>2. PICK n \in Nat : n = Len(b) - k
      <4>1. Len(r) \in Nat /\ Len(r) = Len(b) - k
        BY <1>1, <3>1
      <4> QED
        BY <4>1
    <3>3. Len(r) = n /\ \A i \in 1 .. n : r[i] = b[k + i]
      BY <1>1, <3>1, <3>2
    <3>4. u = SubSeq(r, j + 1, n)
      BY <3>1, <3>3 DEF Rest
    <3>5. j \in 0 .. n
      BY <3>2
    <3>6. u \in Seq(E) /\ Len(u) = n - j /\ \A i \in 1 .. n - j : u[i] = r[j + i]
      BY <3>3, <3>4, <3>5
    <3>7. \A i \in 1 .. n - j : j + i \in 1 .. n /\ k + (j + i) = k + j + i
      BY <3>5
    <3>8. ASSUME NEW i \in 1 .. n - j PROVE u[i] = b[k + j + i]
      <4>1. r[j + i] = b[k + (j + i)]
        BY <3>3, <3>7
      <4> QED
        BY <3>6, <3>7, <4>1, Zenon
    <3> HIDE DEF u
    <3> QED
      BY <3>2, <3>6, <3>8
  <2>2. v \in Seq(E) /\ Len(v) = Len(b) - k - j
        /\ \A i \in 1 .. Len(b) - k - j : v[i] = b[k + j + i]
    BY DEF Rest
  <2> HIDE DEF u, v
  <2>3. Len(u) = Len(v) /\ \A i \in 1 .. Len(u) : u[i] = v[i]
    BY <2>1, <2>2
  <2> QED
    BY <2>1, <2>2, <2>3, SeqEqual DEF u, v
<1>4. b = Prefix(b, k) \o Rest(b, k)
  <2>1. PICK p : p = Prefix(b, k)
    OBVIOUS
  <2>2. PICK r : r = Rest(b, k)
    OBVIOUS
  <2>3. p \in Seq(E) /\ Len(p) = k /\ \A i \in 1 .. k : p[i] = b[i]
    BY <2>1, PrefixFacts
  <2>4. r \in Seq(E) /\ Len(r) = Len(b) - k /\ \A i \in 1 .. Len(b) - k : r[i] = b[k + i]
    BY <1>1, <2>2
  <2>5. p \o r \in Seq(E) /\ Len(p \o r) = Len(b)
    <3>1. p \o r \in Seq(E) /\ Len(p \o r) = Len(p) + Len(r)
      BY ONLY <2>3, <2>4, ConcatProperties, ZenonT(60)
    <3>2. Len(p) + Len(r) = Len(b)
      <4>1. Len(b) \in Nat /\ Len(p) = k /\ Len(r) = Len(b) - k
        BY ONLY b \in Seq(E), <2>3, <2>4
      <4> QED
        BY ONLY k \in 0 .. Len(b), <4>1
    <3> QED
      BY ONLY <3>1, <3>2, Zenon
  <2>6. ASSUME NEW i \in 1 .. Len(b) PROVE b[i] = (p \o r)[i]
    <3>1. (p \o r)[i] = IF i <= k THEN p[i] ELSE r[i - k]
      BY <2>3, <2>4, ConcatProperties, SMTT(60)
    <3>2. CASE i <= k
      BY <2>3, <3>1, <3>2
    <3>3. CASE ~(i <= k)
      <4>1. i - k \in 1 .. Len(b) - k /\ k + (i - k) = i
        BY <3>3
      <4>2. r[i - k] = b[k + (i - k)]
        BY <2>4, <4>1
      <4>3. (p \o r)[i] = r[i - k]
        BY <3>1, <3>3
      <4> QED
        BY <4>1, <4>2, <4>3
    <3> QED
      BY <3>2, <3>3
  <2>7. b = p \o r
    BY <2>5, <2>6, SeqEqual
  <2> QED
    BY <2>1, <2>2, <2>7
<1> QED
  BY <1>1, <1>2, <1>3, <1>4

LEMMA RestOfConcat ==
    ASSUME NEW E, NEW b \in Seq(E), NEW x \in Seq(E), NEW k \in 0 .. Len(b)
    PROVE  /\ Rest(b \o x, k) = Rest(b, k) \o x
           /\ Prefix(b \o x, k) = Prefix(b, k)
<1>1. b \o x \in Seq(E) /\ Len(b \o x) = Len(b) + Len(x)
  BY ConcatProperties
<1>2. \A i \in 1 .. Len(b) + Len(x) : (b \o x)[i] = IF i <= Len(b) THEN b[i] ELSE x[i - Len(b)]
  OBVIOUS
<1> DEFINE u == Rest(b \o x, k)
           v == Rest(b, k) \o x
<1>3. u \in Seq(E) /\ Len(u) = Len(b) - k + Len(x) /\ \A i \in 1 .. Len(b) - k + Len(x) : u[i] = (b \o x)[k + i]
  BY <1>1, SMTT(60) DEF Rest
<1>4. v \in Seq(E) /\ Len(v) = Len(b) - k + Len(x)
      /\ \A i \in 1 .. Len(b) - k + Len(x) : v[i] = IF i <= Len(b) - k THEN b[k + i] ELSE x[i - (Len(b) - k)]
  <2>1. PICK r : r = Rest(b, k)
    OBVIOUS
  <2>2. r \in Seq(E) /\ Len(r) = Len(b) - k /\ \A i \in 1 .. Len(b) - k : r[i] = b[k + i]
    BY <2>1, SMTT(60) DEF Rest
  <2>3. r \o x \in Seq(E) /\ Len(r \o x) = Len(b) - k + Len(x)
    BY <2>2, ConcatProperties
  <2>4. \A i \in 1 .. Len(b) - k + Len(x) :
          (r \o x)[i] = IF i <= Len(b) - k THEN b[k + i] ELSE x[i - (Len(b) - k)]
    BY <2>2, SMTT(60)
  <2> QED
    BY <2>1, <2>3, <2>4
<1> HIDE DEF u, v
<1>5. \A i \in 1 .. Len(u) : u[i] = v[i]
  <2>1. SUFFICES ASSUME NEW i \in 1 .. Len(b) - k + Len(x) PROVE u[i] = v[i]
    BY <1>3
  <2>2. k + i \in 1 .. Len(b) + Len(x) /\ (k + i <= Len(b) <=> i <= Len(b) - k)
        /\ k + i - Len(b) = i - (Len(b) - k)
    OBVIOUS
  <2> QED
    BY <1>2, <1>3, <1>4, <2>2, SMTT(60)
<1>6. u = v
  BY <1>3, <1>4, <1>5, SeqEqual
<1>7. Prefix(b \o x, k) = Prefix(b, k)
  <2>1. k \in 0 .. Len(b \o x)
    BY <1>1
  <2>2. ASSUME NEW i \in 1 .. k PROVE Prefix(b \o x, k)[i] = Prefix(b, k)[i]
    <3>1. Prefix(b \o x, k)[i] = (b \o x)[i]
      BY <1>1, <2>1, PrefixFacts
    <3>2. Prefix(b, k)[i] = b[i]
      BY PrefixFacts
    <3>3. (b \o x)[i] = b[i]
      BY <1>2
    <3> QED
      BY <3>1, <3>2, <3>3
  <2>3. Prefix(b \o x, k) \in Seq(E) /\ Len(Prefix(b \o x, k)) = k
    BY <1>1, <2>1, PrefixFacts, ZenonT(60)
  <2>4. Prefix(b, k) \in Seq(E) /\ Len(Prefix(b, k)) = k
    BY PrefixFacts
  <2> QED
    BY <2>2, <2>3, <2>4, SeqEqual
<1> QED
  BY <1>6, <1>7 DEF u, v


\* What holds of a number when it holds of all smaller ones holds of all.
LEMMA AllNumbers ==
    ASSUME NEW S, \A n \in Nat : (\A m \in Nat : m < n => m \in S) => n \in S
    PROVE  \A n \in Nat : n \in S
<1> DEFINE C == {n \in Nat : n \notin S}
<1>1. SUFFICES ASSUME C # {} PROVE FALSE
  OBVIOUS
<1>2. PICK m \in C : \A n \in C : m <= n
  <2>1. C \in SUBSET Nat
    OBVIOUS
  <2> QED
    BY <1>1, <2>1, LeastNumber
<1>3. \A n \in Nat : n < m => n \in S
  BY <1>2
<1> QED
  BY <1>3

\* Two functions that are unrolled in the same way are equal.
Follows(f, n, G, head, next, base) ==
    \A i \in 0 .. n : f[i] = IF i \in G THEN head[i] \o f[next[i]] ELSE base[i]

LEMMA UnrollsOnce ==
    ASSUME NEW n \in Nat, NEW f, NEW h, NEW G, NEW head, NEW base, NEW next,
           \A i \in 0 .. n : i \in G => next[i] \in i + 1 .. n,
           Follows(f, n, G, head, next, base), Follows(h, n, G, head, next, base)
    PROVE  f[0] = h[0]
<1> USE DEF Follows
<1> DEFINE S == {i \in 0 .. n : f[i] = h[i]}
<1>1. ASSUME NEW i \in 0 .. n, \A j \in 0 .. n : i < j => j \in S PROVE i \in S
  <2>1. CASE i \in G
    <3>1. next[i] \in 0 .. n /\ i < next[i]
      BY <2>1
    <3>2. f[next[i]] = h[next[i]]
      BY <1>1, <3>1
    <3> QED
      BY <2>1, <3>2
  <2>2. CASE i \notin G
    BY <2>2
  <2> QED
    BY <2>1, <2>2
<1>2. \A i \in 0 .. n : i \in S
  <2> HIDE DEF S
  <2> QED
    BY <1>1, DownFrom
<1> QED
  BY <1>2

FoundTokens == {t \in Scans : t.mode = "found"}

\* Places counted from 0 and from 1.
LEMMA StaysInside ==
    ASSUME NEW i \in Nat, NEW u \in Nat, NEW n \in Nat, i + u \in i + 1 .. n
    PROVE  i + u \in 0 .. n /\ i + u + 1 = i + 1 + u
  OBVIOUS

\* The token at the head of bytes, and those behind it.
LEMMA TokensUnfold ==
    ASSUME NEW b \in Seq(Bytes)
    PROVE  Tokens(b) = IF Token(b).mode = "found" THEN <<Token(b)>> \o Tokens(Rest(b, Token(b).used)) ELSE <<>>
<1> DEFINE T(c, i) == Token(Rest(c, i))
           Tail1(c, f) == \A i \in 0 .. Len(c) :
                 f[i] = IF T(c, i).mode = "found" THEN <<T(c, i)>> \o f[i + T(c, i).used] ELSE <<>>
<1>1. ASSUME NEW c \in Seq(Bytes), NEW i \in 0 .. Len(c), T(c, i).mode = "found"
      PROVE  i + T(c, i).used \in i + 1 .. Len(c)
  <2>1. Rest(c, i) \in Seq(Bytes) /\ Len(Rest(c, i)) = Len(c) - i /\ Len(c) \in Nat
    BY RestFacts
  <2>2. T(c, i).used \in 1 .. Len(c) - i
    BY <1>1, <2>1, TokenFacts
  <2> QED
    BY <2>1, <2>2
<1>2. ASSUME NEW c \in Seq(Bytes)
      PROVE  \E f : f[0] = Tokens(c) /\ Tail1(c, f)
  <2> DEFINE n == Len(c)
             U(i) == Token(SubSeq(c, i, Len(c)))
             G == {i \in 1 .. n + 1 : U(i).mode = "found"}
             Eq(f) == f = [i \in 1 .. Len(c) + 1 |->
                             IF U(i).mode = "found" THEN <<U(i)>> \o f[i + U(i).used] ELSE <<>>]
  <2>1. \A i \in 1 .. n + 1 : U(i) = T(c, i - 1)
    <3>1. \A i \in 1 .. n + 1 : SubSeq(c, i, Len(c)) = SubSeq(c, i - 1 + 1, Len(c))
      OBVIOUS
    <3> QED
      BY <3>1 DEF Rest
  <2>2. n \in Nat
    OBVIOUS
  <2>3. ASSUME NEW i \in G PROVE i \in 1 .. n /\ i + U(i).used \in i + 1 .. n + 1
    <3>1. i - 1 \in 0 .. n /\ T(c, i - 1).mode = "found" /\ i \in 1 .. n + 1
      BY <2>1, <2>2
    <3>2. i - 1 + T(c, i - 1).used \in i - 1 + 1 .. n /\ T(c, i - 1).used \in Nat
      <4>1. T(c, i - 1) \in Scans
        BY <3>1, RestFacts, TokenFacts
      <4> QED
        BY <1>1, <3>1, <4>1 DEF Scans, Record
    <3>3. U(i) = T(c, i - 1)
      BY <2>1, <3>1
    <3> HIDE DEF U, T
    <3> QED
      BY <2>2, <3>1, <3>2, <3>3, SMTT(60)
  <2>4. PICK f : f = [i \in 1 .. n + 1 |-> f[i]]
              /\ Unrolls(f, n, G, [i \in 1 .. n + 1 |-> <<U(i)>>], [i \in 1 .. n + 1 |-> i + U(i).used],
                         [i \in 1 .. n + 1 |-> <<>>])
    <3> DEFINE head == [i \in 1 .. n + 1 |-> <<U(i)>>]
               next == [i \in 1 .. n + 1 |-> i + U(i).used]
               base == [i \in 1 .. n + 1 |-> <<>>]
    <3>1. G \in SUBSET (1 .. n)
      BY <2>3
    <3>2. \A i \in G : next[i] \in i + 1 .. n + 1
      BY <2>3
    <3> HIDE DEF head, next, base, G, n
    <3>3. \E f : f = [i \in 1 .. n + 1 |-> f[i]] /\ Unrolls(f, n, G, head, next, base)
      BY <2>2, <3>1, <3>2, UnrollExists, Zenon
    <3> QED
      BY <3>3 DEF head, next, base
  <2>5. Eq(f)
    <3>1. ASSUME NEW i \in 1 .. n + 1
          PROVE  f[i] = IF U(i).mode = "found" THEN <<U(i)>> \o f[i + U(i).used] ELSE <<>>
      BY <2>4 DEF Unrolls
    <3> HIDE DEF U
    <3> QED
      BY <2>4, <3>1
  <2>6. PICK g : Eq(g) /\ Tokens(c) = g[1]
    BY <2>5 DEF Tokens
  <2> DEFINE h == [i \in 0 .. n |-> g[i + 1]]
  <2>7. h[0] = Tokens(c)
    BY <2>2, <2>6, SMTT(60)
  <2>8. ASSUME NEW i \in 0 .. Len(c)
        PROVE  h[i] = IF T(c, i).mode = "found" THEN <<T(c, i)>> \o h[i + T(c, i).used] ELSE <<>>
    <3>1. i + 1 \in 1 .. Len(c) + 1 /\ i + 1 - 1 = i /\ h[i] = g[i + 1]
      OBVIOUS
    <3>2. U(i + 1) = T(c, i)
      BY <2>1, <3>1
    <3>3. h[i] = IF T(c, i).mode = "found" THEN <<T(c, i)>> \o g[i + 1 + T(c, i).used] ELSE <<>>
      BY <2>6, <3>1, <3>2, ZenonT(60)
    <3>4. CASE T(c, i).mode = "found"
      <4>1. i + T(c, i).used \in 0 .. n /\ i + T(c, i).used + 1 = i + 1 + T(c, i).used
        <5>1. T(c, i).used \in Nat
          BY RestFacts, TokenFacts DEF Scans, Record
        <5>2. i + T(c, i).used \in i + 1 .. Len(c)
          BY <1>1, <3>4
        <5>3. i \in Nat /\ Len(c) \in Nat
          OBVIOUS
        <5> HIDE DEF T
        <5> QED
          BY ONLY <5>1, <5>2, <5>3, StaysInside, Zenon
      <4>2. h[i + T(c, i).used] = g[i + 1 + T(c, i).used]
        BY <4>1
      <4> QED
        BY <3>3, <4>2
    <3>5. CASE T(c, i).mode # "found"
      BY <3>3, <3>5
    <3> QED
      BY <3>4, <3>5
  <2> QED
    BY <2>7, <2>8
<1>3. PICK f : f[0] = Tokens(b) /\ Tail1(b, f)
  BY <1>2
<1>4. T(b, 0) = Token(b) /\ 0 \in 0 .. Len(b)
  BY RestFacts
<1>5. f[0] = IF Token(b).mode = "found" THEN <<Token(b)>> \o f[0 + Token(b).used] ELSE <<>>
  BY <1>3, <1>4
<1>6. CASE Token(b).mode = "found"
  <2> DEFINE u == Token(b).used
             c == Rest(b, u)
             n == Len(c)
  <2>1. u \in 1 .. Len(b) /\ Len(b) \in Nat
    BY <1>6, TokenFacts
  <2>2. c \in Seq(Bytes) /\ n = Len(b) - u /\ n \in Nat /\ \A i \in 0 .. n : Rest(c, i) = Rest(b, u + i)
    BY <2>1, RestFacts, SMTT(60)
  <2>3. PICK g : g[0] = Tokens(c) /\ Tail1(c, g)
    BY <1>2, <2>2
  <2> DEFINE G == {i \in 0 .. n : T(c, i).mode = "found"}
             head == [i \in 0 .. n |-> <<T(c, i)>>]
             next == [i \in 0 .. n |-> i + T(c, i).used]
             base == [i \in 0 .. n |-> <<>>]
             h == [i \in 0 .. n |-> f[u + i]]
  <2>4. \A i \in 0 .. n : i \in G => next[i] \in i + 1 .. n
    BY <1>1, <2>2
  <2>5. \A i \in 0 .. n : g[i] = IF i \in G THEN head[i] \o g[next[i]] ELSE base[i]
    BY <2>3
  <2>6. ASSUME NEW i \in 0 .. n PROVE h[i] = IF i \in G THEN head[i] \o h[next[i]] ELSE base[i]
    <3>1. u + i \in 0 .. Len(b)
      BY <2>1, <2>2
    <3>2. f[u + i] = IF T(b, u + i).mode = "found" THEN <<T(b, u + i)>> \o f[u + i + T(b, u + i).used] ELSE <<>>
      BY <1>3, <3>1
    <3>3. T(b, u + i) = T(c, i)
      BY <2>2
    <3>4. CASE i \in G
      <4>1. next[i] \in 0 .. n /\ u + next[i] = u + i + T(c, i).used
        <5>1. T(c, i).used \in Nat
          BY <2>2, RestFacts, TokenFacts DEF Scans, Record
        <5>2. next[i] = i + T(c, i).used /\ next[i] \in i + 1 .. n
          BY <2>4, <3>4
        <5> HIDE DEF next, T, c, n, u
        <5> QED
          BY <2>1, <2>2, <5>1, <5>2, SMTT(60)
      <4>2. h[next[i]] = f[u + i + T(c, i).used]
        BY <4>1
      <4>3. h[i] = <<T(c, i)>> \o f[u + i + T(c, i).used]
        BY <3>2, <3>3, <3>4
      <4> QED
        BY <3>4, <4>2, <4>3
    <3>5. CASE i \notin G
      BY <3>2, <3>3, <3>5
    <3> QED
      BY <3>4, <3>5
  <2>7. g[0] = h[0]
    <3> HIDE DEF G, head, next, base, h, n
    <3>1. Follows(g, n, G, head, next, base) /\ Follows(h, n, G, head, next, base)
      BY <2>5, <2>6 DEF Follows
    <3> QED
      BY <2>2, <2>4, <3>1, UnrollsOnce, SMTT(60)
  <2>8. h[0] = f[0 + u]
    <3>1. 0 \in 0 .. n /\ u + 0 = 0 + u
      BY <2>1, <2>2
    <3> QED
      BY <3>1
  <2> QED
    BY <1>3, <1>5, <1>6, <2>3, <2>7, <2>8
<1>7. CASE Token(b).mode # "found"
  BY <1>3, <1>5, <1>7
<1> QED
  BY <1>6, <1>7

-----------------------------------------------------------------------------
(* parser_pop_next *)

Words == Seq(Bytes) \ {<<>>}
ExprTypes == {"COMMAND", "PIPE", "AND", "OR"}
Exprs == [type : ExprTypes, words : Seq(Words)]
Phases == {"exprs", "file", "tail", "end", "skip", "ended", "aborted"}
Errors == {"NONE", "ENDS_NOT_WITH_A_COMMAND", "WITH_NO_LEFT_ARG", "WITH_LEFT_ARG_NOT_A_COMMAND",
           "OUTOUT_REDIRECT_BAD_ARG", "TOO_LATE_ARGUMENTS"}
Outs == {"STDOUT", "OUT_NEW", "OUT_APPEND"}
LineRecord == [phase : Phases, exprs : Seq(Exprs), out : Outs, background : BOOLEAN,
               error : Errors, used : Nat]

LFields(g, phase, exprs, error, used) ==
    /\ g \in LineRecord
    /\ g.phase = phase /\ g.exprs = exprs /\ g.error = error /\ g.used = used

LEMMA WrongFacts ==
    ASSUME NEW g \in LineRecord, NEW e \in Errors
    PROVE  LFields(Wrong(g, e), "skip", g.exprs, e, g.used)
<1>1. "skip" \in Phases
  BY DEF Phases
<1> QED
  BY <1>1 DEF Wrong, LFields, LineRecord

LEMMA PhaseFacts ==
    ASSUME NEW g \in LineRecord, NEW p \in Phases
    PROVE  LFields([g EXCEPT !.phase = p], p, g.exprs, g.error, g.used)
  BY DEF LFields, LineRecord

LEMMA UsedFacts ==
    ASSUME NEW g \in LineRecord, NEW u \in Nat
    PROVE  LFields([g EXCEPT !.used = u], g.phase, g.exprs, g.error, u)
  BY DEF LFields, LineRecord

LEMMA ExprsFacts ==
    ASSUME NEW g \in LineRecord, NEW s \in Seq(Exprs)
    PROVE  LFields([g EXCEPT !.exprs = s], g.phase, s, g.error, g.used)
  BY DEF LFields, LineRecord

LEMMA OutFacts ==
    ASSUME NEW g \in LineRecord, NEW p \in Phases, NEW o \in Outs
    PROVE  LFields([g EXCEPT !.phase = p, !.out = o], p, g.exprs, g.error, g.used)
  BY DEF LFields, LineRecord

LEMMA BackgroundFacts ==
    ASSUME NEW g \in LineRecord, NEW p \in Phases
    PROVE  LFields([g EXCEPT !.phase = p, !.background = TRUE], p, g.exprs, g.error, g.used)
  BY DEF LFields, LineRecord

LEMMA ErrorFacts ==
    ASSUME NEW g \in LineRecord, NEW p \in Phases, NEW e \in Errors
    PROVE  LFields([[g EXCEPT !.error = e] EXCEPT !.phase = p], p, g.exprs, e, g.used)
  BY DEF LFields, LineRecord


Alternate(exprs) == \A j \in DOMAIN exprs : (exprs[j].type = "COMMAND") <=> (j % 2 = 1)

Lines ==
    {g \in LineRecord :
        /\ Alternate(g.exprs)
        /\ g.phase = "skip" => g.error # "NONE"
        /\ g.phase \in {"exprs", "file", "tail", "end"} => g.error = "NONE"
        /\ g.phase = "ended" /\ g.error = "NONE" => EndsWithCommand(g)}

Final == {"ended", "aborted"}

\* What a token makes of a line that is not over.
After(g, t, h) ==
    /\ h \in Lines
    /\ h.phase # "aborted" => h.used = g.used + t.used
    /\ h.phase = "ended" => t.type = "NEW_LINE"
    /\ h.phase \notin Final /\ t.type = "NEW_LINE" =>
          \/ g.phase = "exprs" /\ g.exprs = <<>>
          \/ h.error = "OUTOUT_REDIRECT_BAD_ARG"
    /\ h.phase = "exprs" /\ h.exprs = <<>> => g.phase = "exprs" /\ g.exprs = <<>> /\ t.type = "NEW_LINE"
    /\ g.error = "OUTOUT_REDIRECT_BAD_ARG" /\ h.phase # "aborted" => h.error = "OUTOUT_REDIRECT_BAD_ARG"

LEMMA ReadingIsALine == Reading \in Lines
<1>1. Reading \in LineRecord
  BY DEF Reading, LineRecord, Phases, Outs, Errors
<1>2. Reading.exprs = <<>> /\ Reading.phase = "exprs" /\ Reading.error = "NONE"
  BY DEF Reading
<1> QED
  BY <1>1, <1>2 DEF Lines, Alternate

\* More expressions: an operator after a command, a command after an operator, a
\* word of the last command.
LEMMA Appends ==
    ASSUME NEW g \in Lines, NEW e \in Exprs, (e.type = "COMMAND") <=> ~EndsWithCommand(g)
    PROVE  /\ Append(g.exprs, e) \in Seq(Exprs) /\ Append(g.exprs, e) # <<>>
           /\ Alternate(Append(g.exprs, e))
<1>1. PICK s \in Seq(Exprs) : s = g.exprs
  BY DEF Lines, LineRecord
<1>2. Alternate(s) /\ ((e.type = "COMMAND") <=> ~(s # <<>> /\ s[Len(s)].type = "COMMAND"))
  BY <1>1 DEF Lines, EndsWithCommand, Last
<1>3. PICK n \in Nat : n = Len(s)
  OBVIOUS
<1>4. Append(s, e) \in Seq(Exprs) /\ Append(s, e) # <<>> /\ DOMAIN Append(s, e) = 1 .. n + 1
      /\ Append(s, e)[n + 1] = e /\ (\A j \in 1 .. n : Append(s, e)[j] = s[j]) /\ DOMAIN s = 1 .. n
  BY <1>3
<1>5. (e.type = "COMMAND") <=> ((n + 1) % 2 = 1)
  <2>1. CASE n = 0
    <3>1. s = <<>>
      BY <1>3, <2>1, EmptySeq
    <3> QED
      BY <1>2, <2>1, <3>1
  <2>2. CASE n # 0
    <3>1. s # <<>> /\ n \in DOMAIN s
      BY <1>3, <1>4, <2>2
    <3>2. (s[n].type = "COMMAND") <=> (n % 2 = 1)
      BY <1>2, <3>1 DEF Alternate
    <3>3. (n % 2 = 1) <=> ~((n + 1) % 2 = 1)
      OBVIOUS
    <3> QED
      BY <1>2, <1>3, <3>1, <3>2, <3>3
  <2> QED
    BY <2>1, <2>2
<1>6. Alternate(Append(s, e))
  <2>1. ASSUME NEW j \in 1 .. n + 1 PROVE (Append(s, e)[j].type = "COMMAND") <=> (j % 2 = 1)
    <3>1. CASE j = n + 1
      BY <1>4, <1>5, <3>1
    <3>2. CASE j # n + 1
      <4>1. j \in 1 .. n
        BY <3>2
      <4>2. (s[j].type = "COMMAND") <=> (j % 2 = 1)
        BY <1>2, <1>4, <4>1 DEF Alternate
      <4> QED
        BY <1>4, <4>1, <4>2
    <3> QED
      BY <3>1, <3>2
  <2> QED
    BY <1>4, <2>1 DEF Alternate
<1> QED
  BY <1>1, <1>4, <1>6

LEMMA AddsArgument ==
    ASSUME NEW g \in Lines, NEW w \in Words, EndsWithCommand(g)
    PROVE  \E s \in Seq(Exprs) :
              /\ s # <<>> /\ Alternate(s)
              /\ [g EXCEPT !.exprs[Len(g.exprs)].words = Append(@, w)] = [g EXCEPT !.exprs = s]
<1>1. PICK es \in Seq(Exprs) : es = g.exprs
  BY DEF Lines, LineRecord
<1>2. PICK n \in Nat : n = Len(es) /\ n # 0
  BY <1>1 DEF EndsWithCommand
<1>3. n \in 1 .. Len(es) /\ es[n] \in Exprs
  BY <1>2
<1>4. PICK ws \in Seq(Words) : ws = Append(es[n].words, w)
  <2>1. es[n].words \in Seq(Words)
    BY <1>3 DEF Exprs
  <2>2. Append(es[n].words, w) \in Seq(Words)
    BY <2>1, AppendProperties
  <2> QED
    BY <2>2, Zenon
<1>5. PICK e \in Exprs : e = [es[n] EXCEPT !.words = ws] /\ e.type = es[n].type
  <2>1. [es[n] EXCEPT !.words = ws] \in Exprs /\ [es[n] EXCEPT !.words = ws].type = es[n].type
    BY <1>3 DEF Exprs
  <2> QED
    BY <2>1, Zenon
<1>6. PICK s \in Seq(Exprs) : s = [es EXCEPT ![n] = e] /\ Len(s) = n
                              /\ \A j \in 1 .. n : s[j] = IF j = n THEN e ELSE es[j]
  <2>1. [es EXCEPT ![n] = e] \in Seq(Exprs) /\ Len([es EXCEPT ![n] = e]) = n
        /\ \A j \in 1 .. n : [es EXCEPT ![n] = e][j] = IF j = n THEN e ELSE es[j]
    BY <1>2, <1>3, ExceptSeq
  <2> QED
    BY <2>1
<1>7. s # <<>> /\ Alternate(s)
  <2>1. DOMAIN s = 1 .. n /\ DOMAIN es = 1 .. n
    BY <1>2, <1>6
  <2>2. \A j \in 1 .. n : s[j].type = es[j].type
    BY <1>5, <1>6
  <2>3. Alternate(es)
    BY <1>1 DEF Lines
  <2> QED
    BY <1>2, <1>6, <2>1, <2>2, <2>3 DEF Alternate
<1>8. [g EXCEPT !.exprs[Len(g.exprs)].words = Append(@, w)] = [g EXCEPT !.exprs = s]
  <2>1. s = [g.exprs EXCEPT ![Len(g.exprs)] =
               [g.exprs[Len(g.exprs)] EXCEPT !.words = Append(g.exprs[Len(g.exprs)].words, w)]]
    BY <1>1, <1>2, <1>4, <1>5, <1>6, Zenon
  <2> QED
    BY <2>1, Zenon
<1> QED
  BY <1>7, <1>8

\* A line with other fields that is still one.
LEMMA IsALine ==
    ASSUME NEW g, NEW p, NEW es, NEW e, NEW u, LFields(g, p, es, e, u), Alternate(es),
           p = "skip" => e # "NONE", p \in {"exprs", "file", "tail", "end"} => e = "NONE",
           p = "ended" /\ e = "NONE" => es # <<>> /\ Last(es).type = "COMMAND"
    PROVE  g \in Lines /\ g.phase = p /\ g.exprs = es /\ g.error = e /\ g.used = u
  BY DEF LFields, Lines, EndsWithCommand

LEMMA WrongIsALine ==
    ASSUME NEW g \in Lines, NEW e \in Errors \ {"NONE"}
    PROVE  LET h == Wrong(g, e) IN
           h \in Lines /\ h.phase = "skip" /\ h.exprs = g.exprs /\ h.error = e /\ h.used = g.used
<1>1. g \in LineRecord /\ Alternate(g.exprs)
  BY DEF Lines
<1>2. LFields(Wrong(g, e), "skip", g.exprs, e, g.used)
  BY <1>1, WrongFacts
<1> QED
  BY <1>1, <1>2, IsALine

LEMMA AbortedIsALine ==
    ASSUME NEW g \in Lines
    PROVE  Aborted(g) \in Lines /\ Aborted(g).phase = "aborted"
<1>1. g \in LineRecord /\ Alternate(g.exprs)
  BY DEF Lines
<1>2. LFields(Aborted(g), "aborted", g.exprs, g.error, g.used)
  BY <1>1, PhaseFacts DEF Aborted, Phases
<1> QED
  BY <1>1, <1>2, IsALine

LEMMA EndedIsALine ==
    ASSUME NEW g \in Lines, g.phase = "skip"
    PROVE  Ended(g) \in Lines /\ Ended(g).phase = "ended" /\ Ended(g).used = g.used /\ Ended(g).error = g.error
<1>1. g \in LineRecord /\ Alternate(g.exprs) /\ g.error # "NONE"
  BY DEF Lines
<1>2. LFields(Ended(g), "ended", g.exprs, g.error, g.used)
  BY <1>1, PhaseFacts DEF Ended, Phases
<1> QED
  BY <1>1, <1>2, IsALine

LEMMA CloseIsALine ==
    ASSUME NEW g \in Lines, g.phase \in {"exprs", "tail", "end"}
    PROVE  /\ Close(g) \in Lines /\ Close(g).phase \in Final
           /\ Close(g).phase = "ended" => Close(g).used = g.used
<1>1. g \in LineRecord /\ Alternate(g.exprs) /\ g.error = "NONE"
  BY DEF Lines
<1>2. CASE g.exprs = <<>>
  <2>1. Close(g) = Aborted(g)
    BY <1>2 DEF Close, EndsWithCommand
  <2> QED
    BY <2>1, AbortedIsALine DEF Final
<1>3. CASE g.exprs # <<>> /\ EndsWithCommand(g)
  <2>1. Close(g) = Ended(g)
    BY <1>3 DEF Close
  <2>2. LFields(Ended(g), "ended", g.exprs, g.error, g.used)
    BY <1>1, PhaseFacts DEF Ended, Phases
  <2>3. Ended(g) \in Lines /\ Ended(g).phase = "ended" /\ Ended(g).used = g.used
    BY <1>1, <1>3, <2>2, IsALine DEF EndsWithCommand
  <2> QED
    BY <2>1, <2>3 DEF Final
<1>4. CASE g.exprs # <<>> /\ ~EndsWithCommand(g)
  <2> DEFINE e == "ENDS_NOT_WITH_A_COMMAND"
             h == [[g EXCEPT !.error = e] EXCEPT !.phase = "ended"]
  <2>1. Close(g) = h
    BY <1>4, Zenon DEF Close, Ended
  <2>2. LFields(h, "ended", g.exprs, e, g.used)
    BY <1>1, ErrorFacts, Zenon DEF Phases, Errors
  <2> HIDE DEF h
  <2>3. h \in Lines /\ h.phase = "ended" /\ h.used = g.used
    BY <1>1, <2>2, IsALine
  <2> QED
    BY <2>1, <2>3 DEF Final
<1> QED
  BY <1>2, <1>3, <1>4

LEMMA AddWordFacts ==
    ASSUME NEW g \in Lines, g.phase = "exprs", NEW t \in FoundTokens
    PROVE  LET h == AddWord(g, t) IN
           /\ h \in Lines /\ h.phase \in {"exprs", "aborted"}
           /\ h.phase = "exprs" => h.used = g.used /\ h.exprs # <<>>
<1>1. g \in LineRecord /\ Alternate(g.exprs) /\ g.error = "NONE" /\ t.data \in Seq(Bytes)
  BY DEF Lines, FoundTokens, Scans, Record
<1>2. CASE t.data = <<>>
  BY <1>2, AbortedIsALine DEF AddWord
<1>3. CASE t.data # <<>> /\ EndsWithCommand(g)
  <2>1. t.data \in Words
    BY <1>1, <1>3 DEF Words
  <2>2. PICK s \in Seq(Exprs) :
              /\ s # <<>> /\ Alternate(s)
              /\ [g EXCEPT !.exprs[Len(g.exprs)].words = Append(@, t.data)] = [g EXCEPT !.exprs = s]
    BY <1>3, <2>1, AddsArgument, ZenonT(60)
  <2>3. AddWord(g, t) = [g EXCEPT !.exprs = s]
    BY <1>3, <2>2, Zenon DEF AddWord
  <2>4. LFields([g EXCEPT !.exprs = s], "exprs", s, "NONE", g.used)
    BY <1>1, ExprsFacts
  <2>5. LFields(AddWord(g, t), "exprs", s, "NONE", g.used)
    BY <2>3, <2>4, Zenon
  <2> QED
    BY <2>2, <2>5, IsALine
<1>4. CASE t.data # <<>> /\ ~EndsWithCommand(g)
  <2> DEFINE e == [type |-> "COMMAND", words |-> <<t.data>>]
  <2>1. e \in Exprs /\ e.type = "COMMAND"
    BY <1>1, <1>4 DEF Exprs, ExprTypes, Words
  <2>2. AddWord(g, t) = [g EXCEPT !.exprs = Append(g.exprs, e)]
    BY <1>4, Zenon DEF AddWord
  <2> HIDE DEF e
  <2>3. Append(g.exprs, e) \in Seq(Exprs) /\ Append(g.exprs, e) # <<>> /\ Alternate(Append(g.exprs, e))
    BY <1>4, <2>1, Appends
  <2>4. PICK s \in Seq(Exprs) : s = Append(g.exprs, e) /\ s # <<>> /\ Alternate(s)
    BY <2>3, Zenon
  <2>5. LFields([g EXCEPT !.exprs = s], "exprs", s, "NONE", g.used)
    BY <1>1, ExprsFacts
  <2>6. LFields(AddWord(g, t), "exprs", s, "NONE", g.used)
    BY <2>2, <2>4, <2>5, Zenon
  <2>7. s # <<>> /\ Alternate(s)
    BY <2>4
  <2> QED
    BY <2>6, <2>7, IsALine
<1> QED
  BY <1>2, <1>3, <1>4

LEMMA AddOperatorFacts ==
    ASSUME NEW g \in Lines, g.phase = "exprs", NEW t \in FoundTokens, t.type \in {"PIPE", "AND", "OR"}
    PROVE  LET h == AddOperator(g, t) IN
           /\ h \in Lines /\ h.phase \in {"exprs", "skip"} /\ h.used = g.used
           /\ h.phase = "exprs" => h.exprs # <<>>
<1>1. g \in LineRecord /\ g.error = "NONE"
  BY DEF Lines
<1>2. CASE g.exprs = <<>>
  <2>1. AddOperator(g, t) = Wrong(g, "WITH_NO_LEFT_ARG")
    BY <1>2 DEF AddOperator
  <2> QED
    BY <2>1, WrongIsALine DEF Errors
<1>3. CASE g.exprs # <<>> /\ EndsWithCommand(g)
  <2> DEFINE e == [type |-> t.type, words |-> <<>>]
  <2>1. e \in Exprs /\ e.type # "COMMAND"
    BY DEF Exprs, ExprTypes
  <2>2. AddOperator(g, t) = [g EXCEPT !.exprs = Append(g.exprs, e)]
    BY <1>3, Zenon DEF AddOperator
  <2> HIDE DEF e
  <2>3. Append(g.exprs, e) \in Seq(Exprs) /\ Append(g.exprs, e) # <<>> /\ Alternate(Append(g.exprs, e))
    BY <1>3, <2>1, Appends
  <2>4. PICK s \in Seq(Exprs) : s = Append(g.exprs, e) /\ s # <<>> /\ Alternate(s)
    BY <2>3, Zenon
  <2>5. LFields([g EXCEPT !.exprs = s], "exprs", s, "NONE", g.used)
    BY <1>1, ExprsFacts
  <2>6. LFields(AddOperator(g, t), "exprs", s, "NONE", g.used)
    BY <2>2, <2>4, <2>5, Zenon
  <2>7. s # <<>> /\ Alternate(s)
    BY <2>4
  <2> QED
    BY <2>6, <2>7, IsALine
<1>4. CASE g.exprs # <<>> /\ ~EndsWithCommand(g)
  <2>1. AddOperator(g, t) = Wrong(g, "WITH_LEFT_ARG_NOT_A_COMMAND")
    BY <1>4 DEF AddOperator
  <2> QED
    BY <2>1, WrongIsALine DEF Errors
<1> QED
  BY <1>2, <1>3, <1>4

LEMMA BackgroundIsALine ==
    ASSUME NEW g \in Lines, g.phase \in {"exprs", "tail"}
    PROVE  LET h == [g EXCEPT !.phase = "end", !.background = TRUE] IN
           h \in Lines /\ h.phase = "end" /\ h.used = g.used
<1>1. g \in LineRecord /\ Alternate(g.exprs) /\ g.error = "NONE"
  BY DEF Lines
<1>2. LFields([g EXCEPT !.phase = "end", !.background = TRUE], "end", g.exprs, g.error, g.used)
  BY <1>1, BackgroundFacts, ZenonT(60) DEF Phases
<1> QED
  BY <1>1, <1>2, IsALine

\* g with the token's bytes added, which every phase starts from.
LEMMA Counted ==
    ASSUME NEW g \in Lines, NEW t \in FoundTokens, g.phase \notin Final
    PROVE  LET h == [g EXCEPT !.used = @ + t.used] IN
           h \in Lines /\ h.phase = g.phase /\ h.exprs = g.exprs /\ h.error = g.error
           /\ h.used = g.used + t.used
<1>1. g \in LineRecord /\ Alternate(g.exprs) /\ t.used \in Nat /\ g.phase # "ended"
  BY DEF Lines, FoundTokens, Scans, Record, Final
<1>2. g.used + t.used \in Nat
  BY <1>1 DEF LineRecord
<1>3. LFields([g EXCEPT !.used = g.used + t.used], g.phase, g.exprs, g.error, g.used + t.used)
  BY <1>1, <1>2, UsedFacts, Zenon
<1>4. (g.phase = "skip" => g.error # "NONE") /\ (g.phase \in {"exprs", "file", "tail", "end"} => g.error = "NONE")
  BY DEF Lines
<1> QED
  BY <1>1, <1>3, <1>4, IsALine

LEMMA InExprsFacts ==
    ASSUME NEW g \in Lines, g.phase = "exprs", NEW t \in FoundTokens, t.type # "FAILED_ASSERTION"
    PROVE  LET h == InExprs(g, t) IN
           /\ h \in Lines
           /\ h.phase # "aborted" => h.used = g.used
           /\ h.phase = "ended" => t.type = "NEW_LINE"
           /\ h.phase \notin Final /\ t.type = "NEW_LINE" => g.exprs = <<>>
           /\ h.phase = "exprs" /\ h.exprs = <<>> => g.exprs = <<>> /\ t.type = "NEW_LINE"
<1>1. t.type \in Types
  BY DEF FoundTokens, Scans, Record
<1>2. CASE t.type = "STR"
  <2>1. InExprs(g, t) = AddWord(g, t)
    BY <1>2 DEF InExprs
  <2> QED
    BY <1>2, <2>1, AddWordFacts
<1>3. CASE t.type = "NEW_LINE" /\ g.exprs = <<>>
  <2>1. InExprs(g, t) = g
    BY <1>3 DEF InExprs
  <2> QED
    BY <1>3, <2>1
<1>4. CASE t.type = "NEW_LINE" /\ g.exprs # <<>>
  <2>1. InExprs(g, t) = Close(g)
    BY <1>4 DEF InExprs
  <2> QED
    BY <1>4, <2>1, CloseIsALine DEF Final
<1>5. CASE t.type \in {"PIPE", "AND", "OR"}
  <2>1. InExprs(g, t) = AddOperator(g, t)
    BY <1>5 DEF InExprs
  <2> QED
    BY <1>5, <2>1, AddOperatorFacts
<1>6. CASE t.type \in {"OUT_NEW", "OUT_APPEND"}
  <2>1. InExprs(g, t) = [g EXCEPT !.phase = "file", !.out = t.type]
    BY <1>6 DEF InExprs
  <2>2. g \in LineRecord /\ Alternate(g.exprs) /\ g.error = "NONE" /\ "file" \in Phases /\ t.type \in Outs
    BY <1>6 DEF Lines, Phases, Outs
  <2>3. LFields([g EXCEPT !.phase = "file", !.out = t.type], "file", g.exprs, g.error, g.used)
    BY <2>2, OutFacts
  <2>4. LFields(InExprs(g, t), "file", g.exprs, g.error, g.used)
    BY <2>1, <2>3, Zenon
  <2> QED
    BY <1>6, <2>2, <2>4, IsALine
<1>7. CASE t.type = "BACKGROUND"
  <2>1. InExprs(g, t) = [g EXCEPT !.phase = "end", !.background = TRUE]
    BY <1>7 DEF InExprs
  <2>2. InExprs(g, t) \in Lines /\ InExprs(g, t).phase = "end" /\ InExprs(g, t).used = g.used
    BY <2>1, BackgroundIsALine, Zenon
  <2> QED
    BY <1>7, <2>2
<1> QED
  BY <1>1, <1>2, <1>3, <1>4, <1>5, <1>6, <1>7 DEF Types

LEMMA InFileFacts ==
    ASSUME NEW g \in Lines, g.phase = "file", NEW t \in FoundTokens
    PROVE  LET h == InFile(g, t) IN
           /\ h \in Lines /\ h.phase \in {"tail", "skip", "aborted"}
           /\ h.phase # "aborted" => h.used = g.used
           /\ h.phase # "aborted" /\ t.type = "NEW_LINE" => h.error = "OUTOUT_REDIRECT_BAD_ARG"
<1>1. CASE t.type # "STR"
  <2>1. InFile(g, t) = Wrong(g, "OUTOUT_REDIRECT_BAD_ARG")
    BY <1>1 DEF InFile
  <2> QED
    BY <2>1, WrongIsALine DEF Errors
<1>2. CASE t.type = "STR" /\ t.data = <<>>
  <2>1. InFile(g, t) = Aborted(g)
    BY <1>2 DEF InFile
  <2> QED
    BY <2>1, AbortedIsALine
<1>3. CASE t.type = "STR" /\ t.data # <<>>
  <2>1. InFile(g, t) = [g EXCEPT !.phase = "tail"]
    BY <1>3 DEF InFile
  <2>2. g \in LineRecord /\ Alternate(g.exprs) /\ g.error = "NONE" /\ "tail" \in Phases
    BY DEF Lines, Phases
  <2>3. LFields([g EXCEPT !.phase = "tail"], "tail", g.exprs, g.error, g.used)
    BY <2>2, PhaseFacts
  <2>4. LFields(InFile(g, t), "tail", g.exprs, g.error, g.used)
    BY <2>1, <2>3, Zenon
  <2> QED
    BY <1>3, <2>2, <2>4, IsALine
<1> QED
  BY <1>1, <1>2, <1>3

LEMMA InTailFacts ==
    ASSUME NEW g \in Lines, NEW t \in FoundTokens, NEW h,
           \/ g.phase = "tail" /\ h = InTail(g, t)
           \/ g.phase = "end" /\ h = InEnd(g, t)
    PROVE  /\ h \in Lines /\ h.phase \in {"end", "skip"} \cup Final
           /\ h.phase # "aborted" => h.used = g.used
           /\ h.phase = "ended" => t.type = "NEW_LINE"
           /\ t.type = "NEW_LINE" => h.phase \in Final
<1>1. CASE t.type = "NEW_LINE"
  <2>1. h = Close(g)
    BY <1>1 DEF InTail, InEnd
  <2> QED
    BY <1>1, <2>1, CloseIsALine DEF Final
<1>2. CASE g.phase = "tail" /\ t.type = "BACKGROUND"
  <2>1. h = [g EXCEPT !.phase = "end", !.background = TRUE]
    BY <1>2 DEF InTail
  <2>2. h \in Lines /\ h.phase = "end" /\ h.used = g.used
    BY <1>2, <2>1, BackgroundIsALine, Zenon
  <2> QED
    BY <1>2, <2>2
<1>3. CASE t.type # "NEW_LINE" /\ ~(g.phase = "tail" /\ t.type = "BACKGROUND")
  <2>1. h = Wrong(g, "TOO_LATE_ARGUMENTS")
    BY <1>3 DEF InTail, InEnd
  <2> QED
    BY <1>3, <2>1, WrongIsALine DEF Errors
<1> QED
  BY <1>1, <1>2, <1>3

LEMMA ReadTokenFacts ==
    ASSUME NEW g \in Lines, NEW t \in FoundTokens, g.phase \notin Final
    PROVE  After(g, t, ReadToken(g, t))
<1> DEFINE r == ReadToken(g, t)
           c == [g EXCEPT !.used = @ + t.used]
<1>1. c \in Lines /\ c.phase = g.phase /\ c.exprs = g.exprs /\ c.error = g.error /\ c.used = g.used + t.used
  BY Counted
<1>2. g.phase \in Phases \ Final /\ (g.phase # "skip" => g.error = "NONE")
  BY DEF Lines, LineRecord, Phases, Final
<1> HIDE DEF c
<1>3. CASE t.type = "FAILED_ASSERTION"
  <2>1. r = Aborted(g)
    BY <1>2, <1>3 DEF ReadToken, Final
  <2> HIDE DEF r
  <2> QED
    BY <1>3, <2>1, AbortedIsALine DEF After, Final, r
<1>4. CASE t.type # "FAILED_ASSERTION" /\ g.phase = "exprs"
  <2>1. r = InExprs(c, t)
    BY <1>4 DEF ReadToken, c
  <2> HIDE DEF r
  <2>2. /\ r \in Lines
        /\ r.phase # "aborted" => r.used = c.used
        /\ r.phase = "ended" => t.type = "NEW_LINE"
        /\ r.phase \notin Final /\ t.type = "NEW_LINE" => c.exprs = <<>>
        /\ r.phase = "exprs" /\ r.exprs = <<>> => c.exprs = <<>> /\ t.type = "NEW_LINE"
    BY <1>1, <1>4, <2>1, InExprsFacts
  <2>3. g.error # "OUTOUT_REDIRECT_BAD_ARG"
    BY <1>2, <1>4
  <2> QED
    BY <1>1, <1>4, <2>2, <2>3 DEF After, r
<1>5. CASE t.type # "FAILED_ASSERTION" /\ g.phase = "file"
  <2>1. r = InFile(c, t)
    BY <1>5 DEF ReadToken, c
  <2> HIDE DEF r
  <2>2. /\ r \in Lines /\ r.phase \in {"tail", "skip", "aborted"}
        /\ r.phase # "aborted" => r.used = c.used
        /\ r.phase # "aborted" /\ t.type = "NEW_LINE" => r.error = "OUTOUT_REDIRECT_BAD_ARG"
    BY <1>1, <1>5, <2>1, InFileFacts
  <2>3. g.error # "OUTOUT_REDIRECT_BAD_ARG"
    BY <1>2, <1>5
  <2> QED
    BY <1>1, <1>5, <2>2, <2>3 DEF After, r, Final
<1>6. CASE t.type # "FAILED_ASSERTION" /\ g.phase \in {"tail", "end"}
  <2>1. (c.phase = "tail" /\ r = InTail(c, t)) \/ (c.phase = "end" /\ r = InEnd(c, t))
    BY <1>1, <1>6 DEF ReadToken, c
  <2> HIDE DEF r
  <2>2. /\ r \in Lines /\ r.phase \in {"end", "skip"} \cup Final
        /\ r.phase # "aborted" => r.used = c.used
        /\ r.phase = "ended" => t.type = "NEW_LINE"
        /\ t.type = "NEW_LINE" => r.phase \in Final
    BY <1>1, <2>1, InTailFacts
  <2>3. g.error # "OUTOUT_REDIRECT_BAD_ARG"
    BY <1>2, <1>6
  <2> QED
    BY <1>1, <1>6, <2>2, <2>3 DEF After, r, Final
<1>7. CASE t.type # "FAILED_ASSERTION" /\ g.phase = "skip"
  <2>1. r = IF t.type = "NEW_LINE" THEN Ended(c) ELSE c
    BY <1>7 DEF ReadToken, InSkip, c
  <2> HIDE DEF r
  <2>2. CASE t.type = "NEW_LINE"
    BY <1>1, <1>7, <2>1, <2>2, EndedIsALine DEF After, r, Final
  <2>3. CASE t.type # "NEW_LINE"
    BY <1>1, <1>7, <2>1, <2>3 DEF After, r, Final
  <2> QED
    BY <2>2, <2>3
<1> QED
  BY <1>2, <1>3, <1>4, <1>5, <1>6, <1>7 DEF Phases, Final

LEMMA ReadTokenType ==
    ASSUME NEW g \in Lines, NEW t \in FoundTokens
    PROVE  ReadToken(g, t) \in Lines /\ (g.phase \in Final => ReadToken(g, t) = g)
<1>1. CASE g.phase \in Final
  <2>1. ReadToken(g, t) = g
    BY <1>1 DEF ReadToken, Final
  <2> QED
    BY <2>1
<1>2. CASE g.phase \notin Final
  BY <1>2, ReadTokenFacts DEF After
<1> QED
  BY <1>1, <1>2

Read(toks) == FoldLeft(ReadToken, Reading, toks)

LEMMA ReadIsARun ==
    ASSUME NEW b \in Seq(FoundTokens)
    PROVE  \E r \in [0 .. Len(b) -> Lines] :
              /\ r[0] = Reading /\ r[Len(b)] = Read(b)
              /\ \A i \in 1 .. Len(b) : r[i] = ReadToken(r[i - 1], b[i])
<1> DEFINE F == [p \in Lines \X FoundTokens |-> ReadToken(p[1], p[2])]
           Eq(g) == g = [s \in SUBSET DOMAIN b |-> IF s = {} THEN Reading
                            ELSE ReadToken(g[s \ {Max(s)}], b[Max(s)])]
<1>1. F \in [Lines \X FoundTokens -> Lines]
  BY ReadTokenType
<1>2. \E g : Eq(g)
  <2>0. PICK g \in [SUBSET DOMAIN b -> Lines] : Iterates(g, F, Reading, b)
    <3> HIDE DEF F
    <3> QED
      BY <1>1, ReadingIsALine, FoldExists, Zenon
  <2>1. \A s \in SUBSET DOMAIN b :
              g[s] = IF s = {} THEN Reading ELSE F[g[s \ {Max(s)}], b[Max(s)]]
    BY <2>0 DEF Iterates
  <2>2. ASSUME NEW s \in SUBSET DOMAIN b
        PROVE  g[s] = IF s = {} THEN Reading ELSE ReadToken(g[s \ {Max(s)}], b[Max(s)])
    <3>1. CASE s = {}
      BY <2>1, <3>1
    <3>2. CASE s # {}
      <4>1. Len(b) \in Nat /\ DOMAIN b = 1 .. Len(b)
        OBVIOUS
      <4>2. Max(s) \in DOMAIN b
        BY <3>2, <4>1, MaxOfNumbers
      <4>3. b[Max(s)] \in FoundTokens /\ g[s \ {Max(s)}] \in Lines
        <5>1. s \ {Max(s)} \in SUBSET DOMAIN b
          OBVIOUS
        <5>2. g[s \ {Max(s)}] \in Lines
          BY <2>1, <5>1
        <5> QED
          BY <4>1, <4>2, <5>2
      <4>4. F[g[s \ {Max(s)}], b[Max(s)]] = ReadToken(g[s \ {Max(s)}], b[Max(s)])
        BY <4>3
      <4> QED
        BY <2>1, <3>2, <4>4
    <3> QED
      BY <3>1, <3>2
  <2>3. Eq(g)
    BY <2>1, <2>2
  <2> QED
    BY <2>3
<1>3. PICK g : Eq(g) /\ Read(b) = g[DOMAIN b]
  BY <1>2 DEF Read, FoldLeft, MapThenFoldSet
<1>4. DOMAIN b = 1 .. Len(b) /\ Len(b) \in Nat
  OBVIOUS
<1>5. g[1 .. 0] = Reading
  <2>1. 1 .. 0 = {} /\ {} \in SUBSET DOMAIN b
    OBVIOUS
  <2> QED
    BY <1>3, <2>1
<1>6. ASSUME NEW i \in 1 .. Len(b) PROVE g[1 .. i] = ReadToken(g[1 .. i - 1], b[i])
  <2>1. 1 .. i # {} /\ Max(1 .. i) = i /\ (1 .. i) \ {Max(1 .. i)} = 1 .. i - 1
    <3>1. i \in Nat /\ i >= 1
      OBVIOUS
    <3> QED
      BY ONLY <3>1, Initial
  <2>2. 1 .. i \in SUBSET DOMAIN b
    BY <1>4
  <2> QED
    BY <1>3, <2>1, <2>2
<1> HIDE DEF Eq
<1> DEFINE r == [i \in 0 .. Len(b) |-> g[1 .. i]]
           T == {i \in 0 .. Len(b) : r[i] \in Lines}
<1>7. \A i \in 1 .. Len(b) : r[i] = ReadToken(r[i - 1], b[i])
  BY <1>4, <1>6
<1>8. r[0] = Reading /\ r[Len(b)] = Read(b)
  BY <1>3, <1>4, <1>5
<1>9. \A i \in 0 .. Len(b) : i \in T
  <2>1. 0 \in T
    BY <1>4, <1>8, ReadingIsALine
  <2>2. ASSUME NEW i \in 1 .. Len(b), i - 1 \in T PROVE i \in T
    <3>1. b[i] \in FoundTokens /\ r[i - 1] \in Lines
      BY <2>2
    <3>2. r[i] \in Lines
      BY <1>7, <3>1, ReadTokenType, ZenonT(60)
    <3> QED
      BY <3>2
  <2> HIDE DEF T
  <2> QED
    BY <1>4, <2>1, <2>2, UpTo
<1> QED
  BY <1>7, <1>8, <1>9


\* What the fold adds for every token.
LEMMA ReadSteps ==
    ASSUME NEW b \in Seq(FoundTokens)
    PROVE  /\ Read(b) \in Lines
           /\ Read(Prefix(b, 0)) = Reading
           /\ \A i \in 1 .. Len(b) : Read(Prefix(b, i)) = ReadToken(Read(Prefix(b, i - 1)), b[i])
<1>1. ASSUME NEW c \in Seq(FoundTokens)
      PROVE  /\ Read(c) \in Lines
             /\ Len(c) = 0 => Read(c) = Reading
             /\ Len(c) # 0 => Read(c) = ReadToken(Read(Prefix(c, Len(c) - 1)), c[Len(c)])
  <2>1. PICK r \in [0 .. Len(c) -> Lines] :
              /\ r[0] = Reading /\ r[Len(c)] = Read(c)
              /\ \A i \in 1 .. Len(c) : r[i] = ReadToken(r[i - 1], c[i])
    BY ReadIsARun
  <2>2. PICK n \in Nat : n = Len(c)
    OBVIOUS
  <2>3. CASE n # 0
    <3> DEFINE d == Prefix(c, n - 1)
    <3>1. n - 1 \in 0 .. Len(c) /\ n - 1 \in Nat
      BY <2>2, <2>3
    <3>2. d \in Seq(FoundTokens) /\ Len(d) = n - 1 /\ \A i \in 1 .. n - 1 : d[i] = c[i]
      BY <3>1, PrefixFacts
    <3> HIDE DEF d
    <3>9. PICK s \in [0 .. Len(d) -> Lines] :
              /\ s[0] = Reading /\ s[Len(d)] = Read(d)
              /\ \A i \in 1 .. Len(d) : s[i] = ReadToken(s[i - 1], d[i])
      BY <3>2, ReadIsARun
    <3>3. /\ s[0] = Reading /\ s[n - 1] = Read(d)
          /\ \A i \in 1 .. n - 1 : s[i] = ReadToken(s[i - 1], d[i])
      BY <3>2, <3>9
    <3> DEFINE A == {i \in 0 .. n - 1 : r[i] = s[i]}
    <3>4. 0 \in A
      BY <2>1, <3>1, <3>3
    <3>5. ASSUME NEW i \in 1 .. n - 1, i - 1 \in A PROVE i \in A
      <4>1. i \in 1 .. Len(c)
        BY <2>2
      <4>2. r[i] = ReadToken(r[i - 1], c[i]) /\ s[i] = ReadToken(s[i - 1], c[i])
        BY <2>1, <3>2, <3>3, <4>1
      <4> QED
        BY <3>5, <4>2
    <3>6. n - 1 \in A
      <4> HIDE DEF A
      <4>1. \A i \in 0 .. n - 1 : i \in A
        BY <3>1, <3>4, <3>5, UpTo
      <4> QED
        BY <3>1, <4>1
    <3>7. r[n] = ReadToken(r[n - 1], c[n])
      BY <2>1, <2>2, <2>3
    <3> QED
      BY <2>1, <2>2, <2>3, <3>3, <3>6, <3>7 DEF d
  <2>4. CASE n = 0
    BY <2>1, <2>2, <2>4
  <2> QED
    BY <2>3, <2>4
<1>2. Read(Prefix(b, 0)) = Reading
  <2>1. 0 \in 0 .. Len(b)
    OBVIOUS
  <2> QED
    BY <1>1, <2>1, PrefixFacts
<1>3. ASSUME NEW i \in 1 .. Len(b)
      PROVE  Read(Prefix(b, i)) = ReadToken(Read(Prefix(b, i - 1)), b[i])
  <2> DEFINE c == Prefix(b, i)
  <2>1. i \in 0 .. Len(b) /\ i \in 1 .. i /\ i - 1 \in 0 .. i
    OBVIOUS
  <2>2. c \in Seq(FoundTokens) /\ Len(c) = i /\ c[i] = b[i] /\ Prefix(c, i - 1) = Prefix(b, i - 1)
    BY <2>1, PrefixFacts
  <2> QED
    BY <1>1, <2>2
<1> QED
  BY <1>1, <1>2, <1>3


\* Tokens after the end of a line do not change it.
LEMMA FinalStays ==
    ASSUME NEW q \in Seq(FoundTokens), NEW k \in 0 .. Len(q), Read(Prefix(q, k)).phase \in Final,
           NEW i \in k .. Len(q)
    PROVE  Read(Prefix(q, i)) = Read(Prefix(q, k))
<1> DEFINE R(j) == Read(Prefix(q, j))
           S == {j \in 0 .. Len(q) : k <= j => R(j) = R(k)}
<1>1. Len(q) \in Nat /\ \A j \in 1 .. Len(q) : q[j] \in FoundTokens /\ R(j) = ReadToken(R(j - 1), q[j])
  BY ReadSteps
<1>2. 0 \in S
  BY <1>1
<1>3. ASSUME NEW j \in 1 .. Len(q), j - 1 \in S PROVE j \in S
  <2>1. CASE k <= j - 1
    <3>1. R(j - 1) = R(k) /\ j - 1 \in 0 .. Len(q)
      BY <1>3, <2>1
    <3>2. R(j - 1) \in Lines
      BY <3>1, PrefixFacts, ReadSteps
    <3>3. R(j) = R(j - 1)
      BY <1>1, <3>1, <3>2, ReadTokenType
    <3> QED
      BY <3>1, <3>3
  <2>2. CASE k = j
    BY <2>2
  <2>3. CASE k > j
    BY <2>3
  <2> QED
    BY <2>1, <2>2, <2>3
<1>4. \A j \in 0 .. Len(q) : j \in S
  <2> HIDE DEF S
  <2> QED
    BY <1>1, <1>2, <1>3, UpTo
<1> QED
  BY <1>4

LEMMA ReadStable ==
    ASSUME NEW q \in Seq(FoundTokens), NEW y \in Seq(FoundTokens), Read(q).phase \in Final
    PROVE  Read(q \o y) = Read(q)
<1>1. PICK z \in Seq(FoundTokens) : z = q \o y
  BY ConcatProperties
<1>2. Len(z) = Len(q) + Len(y) /\ Len(q) \in Nat /\ Len(y) \in Nat
  BY <1>1, ConcatProperties
<1>3. Prefix(z, Len(q)) = q /\ Prefix(z, Len(z)) = z
  BY <1>1, <1>2 DEF Prefix
<1>4. PICK k \in 0 .. Len(z) : k = Len(q)
  BY <1>2
<1>5. PICK i \in k .. Len(z) : i = Len(z)
  BY <1>2, <1>4
<1>6. Read(Prefix(z, i)) = Read(Prefix(z, k))
  BY <1>3, <1>4, FinalStays
<1> QED
  BY <1>1, <1>3, <1>4, <1>5, <1>6

\* The tokens of more bytes begin with those of the first ones.
LEMMA TokensFacts ==
    \A b \in Seq(Bytes) :
        /\ Tokens(b) \in Seq(FoundTokens)
        /\ \A x \in Seq(Bytes) : \E y \in Seq(FoundTokens) : Tokens(b \o x) = Tokens(b) \o y
<1> DEFINE P(b) == /\ Tokens(b) \in Seq(FoundTokens)
                   /\ \A x \in Seq(Bytes) : \E y \in Seq(FoundTokens) : Tokens(b \o x) = Tokens(b) \o y
           A == {n \in Nat : \A b \in Seq(Bytes) : Len(b) = n => Tokens(b) \in Seq(FoundTokens)}
           B == {n \in Nat : \A b \in Seq(Bytes) : Len(b) = n => P(b)}
<1>1. ASSUME NEW b \in Seq(Bytes), Token(b).mode = "found"
      PROVE  /\ Token(b) \in FoundTokens
             /\ Rest(b, Token(b).used) \in Seq(Bytes)
             /\ Len(Rest(b, Token(b).used)) \in Nat /\ Len(Rest(b, Token(b).used)) < Len(b)
             /\ Token(b).used \in 0 .. Len(b)
             /\ Tokens(b) = <<Token(b)>> \o Tokens(Rest(b, Token(b).used))
  <2>1. Token(b) \in Scans /\ Token(b).used \in 1 .. Len(b) /\ Len(b) \in Nat
    BY <1>1, TokenFacts
  <2>2. Rest(b, Token(b).used) \in Seq(Bytes) /\ Len(Rest(b, Token(b).used)) = Len(b) - Token(b).used
    BY <2>1, RestFacts, SMTT(60)
  <2> QED
    BY <1>1, <2>1, <2>2, TokensUnfold DEF FoundTokens
<1>2. ASSUME NEW b \in Seq(Bytes), Token(b).mode # "found" PROVE Tokens(b) = <<>>
  BY <1>2, TokensUnfold
<1>3. \A n \in Nat : n \in A
  <2>1. ASSUME NEW n \in Nat, \A m \in Nat : m < n => m \in A PROVE n \in A
    <3>1. SUFFICES ASSUME NEW b \in Seq(Bytes), Len(b) = n PROVE Tokens(b) \in Seq(FoundTokens)
      OBVIOUS
    <3>2. CASE Token(b).mode = "found"
      <4> DEFINE c == Rest(b, Token(b).used)
      <4>1. c \in Seq(Bytes) /\ Len(c) \in Nat /\ Len(c) < n /\ Token(b) \in FoundTokens
            /\ Tokens(b) = <<Token(b)>> \o Tokens(c)
        BY <1>1, <3>1, <3>2
      <4> HIDE DEF c
      <4>2. Tokens(c) \in Seq(FoundTokens)
        BY <2>1, <4>1
      <4>3. <<Token(b)>> \in Seq(FoundTokens)
        BY <4>1
      <4> QED
        BY <4>1, <4>2, <4>3, ConcatProperties
    <3>3. CASE Token(b).mode # "found"
      BY <1>2, <3>3, EmptySeq
    <3> QED
      BY <3>2, <3>3
  <2> HIDE DEF A
  <2> QED
    BY <2>1, AllNumbers
<1>4. \A b \in Seq(Bytes) : Tokens(b) \in Seq(FoundTokens)
  BY <1>3
<1>5. \A n \in Nat : n \in B
  <2>1. ASSUME NEW n \in Nat, \A m \in Nat : m < n => m \in B PROVE n \in B
    <3>1. SUFFICES ASSUME NEW b \in Seq(Bytes), Len(b) = n, NEW x \in Seq(Bytes)
                   PROVE  \E y \in Seq(FoundTokens) : Tokens(b \o x) = Tokens(b) \o y
      BY <1>4
    <3>2. b \o x \in Seq(Bytes) /\ Tokens(b \o x) \in Seq(FoundTokens)
      BY <1>4, ConcatProperties
    <3>3. CASE Token(b).mode = "found"
      <4> DEFINE u == Token(b).used
                 c == Rest(b, u)
      <4>1. c \in Seq(Bytes) /\ Len(c) \in Nat /\ Len(c) < n /\ Token(b) \in FoundTokens /\ u \in 0 .. Len(b)
            /\ Tokens(b) = <<Token(b)>> \o Tokens(c)
        BY <1>1, <3>1, <3>3
      <4>2. Token(b \o x) = Token(b) /\ Rest(b \o x, u) = c \o x
        BY <3>3, <4>1, TokenStable, RestOfConcat
      <4>3. Tokens(b \o x) = <<Token(b)>> \o Tokens(c \o x)
        BY <3>2, <3>3, <4>2, TokensUnfold
      <4> HIDE DEF c
      <4>4. PICK y \in Seq(FoundTokens) : Tokens(c \o x) = Tokens(c) \o y
        BY <2>1, <4>1
      <4>5. <<Token(b)>> \in Seq(FoundTokens) /\ Tokens(c) \in Seq(FoundTokens)
        BY <1>4, <4>1
      <4>6. (<<Token(b)>> \o Tokens(c)) \o y = <<Token(b)>> \o (Tokens(c) \o y)
        BY <4>5, Associates, SMTT(60)
      <4> QED
        BY <4>1, <4>3, <4>4, <4>6
    <3>4. CASE Token(b).mode # "found"
      <4>1. Tokens(b) = <<>>
        BY <1>2, <3>4
      <4>2. <<>> \o Tokens(b \o x) = Tokens(b \o x)
        BY <3>2, ConcatEmptySeq
      <4> QED
        BY <3>2, <4>1, <4>2
    <3> QED
      BY <3>3, <3>4
  <2> HIDE DEF B
  <2> QED
    BY <2>1, AllNumbers
<1>6. ASSUME NEW b \in Seq(Bytes) PROVE P(b)
  <2>1. Len(b) \in Nat
    OBVIOUS
  <2> HIDE DEF P
  <2> QED
    BY <1>5, <2>1
<1> QED
  BY <1>6

\* A line that is over stays what it is when bytes follow.
LEMMA LineStable ==
    ASSUME NEW b \in Seq(Bytes), NEW x \in Seq(Bytes)
    PROVE  Line(b) \in Lines /\ (Line(b).phase \in Final => Line(b \o x) = Line(b))
<1>1. Tokens(b) \in Seq(FoundTokens) /\ Line(b) = Read(Tokens(b)) /\ Line(b \o x) = Read(Tokens(b \o x))
  BY TokensFacts DEF Line, Read
<1>2. PICK y \in Seq(FoundTokens) : Tokens(b \o x) = Tokens(b) \o y
  BY TokensFacts
<1>3. Read(Tokens(b)) \in Lines
  BY <1>1, ReadSteps
<1> QED
  BY <1>1, <1>2, <1>3, ReadStable

-----------------------------------------------------------------------------
(* What a line consumes *)

\* pos[k] is where the k-th token of b ends; bytes up to the end of a new line are
\* the tokens up to it.
At(b, pos) ==
    /\ pos[0] = 0
    /\ \A k \in 1 .. Len(Tokens(b)) :
         /\ pos[k] = pos[k - 1] + Tokens(b)[k].used
         /\ Tokens(b)[k].type = "NEW_LINE" => Tokens(Prefix(b, pos[k])) = Prefix(Tokens(b), k)

LEMMA AtLeastOne ==
    ASSUME NEW x \in Nat, NEW y \in Nat, y >= 1
    PROVE  x + y >= 1
  OBVIOUS

LEMMA NoTokens ==
    ASSUME NEW b \in Seq(Bytes), Len(b) = 0
    PROVE  Tokens(b) = <<>>
<1>1. Prefix(b, 0) = b
  <2>1. Len(b) \in 0 .. Len(b)
    BY DEF Prefix
  <2> QED
    BY <2>1, PrefixFacts
<1>2. Token(b) = Scanning
  BY <1>1, TokenSteps
<1>3. Token(b).mode # "found"
  BY <1>2 DEF Scanning
<1> QED
  BY <1>3, TokensUnfold

LEMMA PrefixOfCons ==
    ASSUME NEW E, NEW t \in E, NEW q \in Seq(E), NEW k \in 0 .. Len(q)
    PROVE  Prefix(<<t>> \o q, k + 1) = <<t>> \o Prefix(q, k)
<1>1. PICK n \in Nat : n = Len(q)
  OBVIOUS
<1>2. <<t>> \in Seq(E) /\ Len(<<t>>) = 1 /\ <<t>>[1] = t
  OBVIOUS
<1>3. PICK w : w = <<t>> \o q
  OBVIOUS
<1>4. w \in Seq(E) /\ Len(w) = n + 1 /\ w[1] = t /\ \A i \in 1 .. n : w[i + 1] = q[i]
  BY <1>1, <1>2, <1>3
<1>5. PICK u : u = Prefix(w, k + 1)
  OBVIOUS
<1>6. u \in Seq(E) /\ Len(u) = k + 1 /\ \A i \in 1 .. k + 1 : u[i] = w[i]
  <2>1. k + 1 \in 0 .. Len(w)
    BY <1>1, <1>4
  <2> QED
    BY <1>4, <1>5, <2>1, PrefixFacts
<1>7. PICK p : p = Prefix(q, k)
  OBVIOUS
<1>8. p \in Seq(E) /\ Len(p) = k /\ \A i \in 1 .. k : p[i] = q[i]
  BY <1>7, PrefixFacts
<1>9. PICK v : v = <<t>> \o p
  OBVIOUS
<1>10. v \in Seq(E) /\ Len(v) = k + 1 /\ v[1] = t /\ \A i \in 1 .. k : v[i + 1] = p[i]
  BY <1>2, <1>8, <1>9
<1>11. ASSUME NEW i \in 1 .. k + 1 PROVE u[i] = v[i]
  <2>1. CASE i = 1
    BY <1>4, <1>6, <1>10, <2>1
  <2>2. CASE i # 1
    <3>1. PICK j \in 1 .. k : i = j + 1
      <4>1. i - 1 \in 1 .. k /\ i = i - 1 + 1
        BY <2>2
      <4> QED
        BY <4>1
    <3>2. j \in 1 .. n
      BY <1>1
    <3>3. u[i] = w[j + 1] /\ w[j + 1] = q[j] /\ v[i] = p[j] /\ p[j] = q[j]
      BY <1>4, <1>6, <1>8, <1>10, <3>1, <3>2
    <3> QED
      BY <3>3
  <2> QED
    BY <2>1, <2>2
<1>12. u = v
  BY <1>6, <1>10, <1>11, SeqEqual
<1> QED
  BY <1>3, <1>5, <1>7, <1>9, <1>12

LEMMA Positions ==
    \A b \in Seq(Bytes) : \E pos \in [0 .. Len(Tokens(b)) -> 0 .. Len(b)] : At(b, pos)
<1> DEFINE P(b) == \E pos \in [0 .. Len(Tokens(b)) -> 0 .. Len(b)] : At(b, pos)
           S == {n \in Nat : \A b \in Seq(Bytes) : Len(b) = n => P(b)}
<1>1. ASSUME NEW n \in Nat, \A m \in Nat : m < n => m \in S PROVE n \in S
  <2>1. SUFFICES ASSUME NEW b \in Seq(Bytes), Len(b) = n PROVE P(b)
    OBVIOUS
  <2>2. Tokens(b) \in Seq(FoundTokens)
    BY TokensFacts
  <2>3. CASE Token(b).mode # "found"
    <3>1. Tokens(b) = <<>>
      BY <2>3, TokensUnfold
    <3> DEFINE pos == [k \in 0 .. 0 |-> 0]
    <3>2. pos \in [0 .. Len(Tokens(b)) -> 0 .. Len(b)]
      BY <2>1, <3>1
    <3>3. At(b, pos)
      BY <3>1 DEF At
    <3> HIDE DEF pos
    <3> QED
      BY <3>2, <3>3
  <2>4. CASE Token(b).mode = "found"
    <3>1. PICK t \in FoundTokens : t = Token(b)
      BY <2>4, TokenFacts DEF FoundTokens
    <3>2. PICK u \in 1 .. Len(b) : u = t.used
      BY <2>4, <3>1, TokenFacts
    <3>3. PICK c \in Seq(Bytes) : c = Rest(b, u) /\ Len(c) = n - u
      <4>1. u \in 0 .. Len(b)
        BY <2>1
      <4> QED
        BY <2>1, <4>1, RestFacts
    <3>4. PICK q \in Seq(FoundTokens) : q = Tokens(c)
      BY TokensFacts
    <3>5. Tokens(b) = <<t>> \o q
      BY <2>4, <3>1, <3>2, <3>3, <3>4, TokensUnfold
    <3>6. PICK l \in Nat : l = Len(q)
      OBVIOUS
    <3>7. Len(Tokens(b)) = l + 1 /\ Tokens(b)[1] = t /\ \A k \in 1 .. l : Tokens(b)[k + 1] = q[k]
      BY <3>5, <3>6
    <3>8. PICK f \in [0 .. l -> 0 .. Len(c)] : At(c, f)
      <4>1. Len(c) \in Nat /\ Len(c) < n
        BY <2>1, <3>3
      <4>2. P(c)
        BY <1>1, <4>1
      <4> QED
        BY <3>4, <3>6, <4>2
    <3>9. /\ f[0] = 0
          /\ \A k \in 1 .. l : /\ f[k] = f[k - 1] + q[k].used
                               /\ q[k].type = "NEW_LINE" => Tokens(Prefix(c, f[k])) = Prefix(q, k)
      BY <3>4, <3>6, <3>8 DEF At
    <3> DEFINE pos == [k \in 0 .. l + 1 |-> IF k = 0 THEN 0 ELSE u + f[k - 1]]
    <3>10. pos \in [0 .. Len(Tokens(b)) -> 0 .. Len(b)]
      <4>1. ASSUME NEW k \in 0 .. l + 1, k # 0 PROVE u + f[k - 1] \in 0 .. Len(b)
        <5>1. k - 1 \in 0 .. l
          BY <4>1
        <5>2. f[k - 1] \in 0 .. n - u
          BY <3>3, <3>8, <5>1
        <5> QED
          BY <2>1, <5>2, SMTT(60)
      <4>2. 0 \in 0 .. Len(b)
        BY <2>1
      <4> QED
        BY <3>7, <4>1, <4>2
    <3>11. ASSUME NEW k \in 1 .. l + 1
           PROVE  /\ pos[k] = pos[k - 1] + Tokens(b)[k].used
                  /\ Tokens(b)[k].type = "NEW_LINE" => Tokens(Prefix(b, pos[k])) = Prefix(Tokens(b), k)
      <4>1. CASE k = 1
        <5>1. pos[0] = 0 /\ pos[1] = u
          <6>1. 0 \in 0 .. l + 1 /\ 1 \in 0 .. l + 1 /\ u + 0 = u /\ 1 - 1 = 0
            OBVIOUS
          <6> QED
            BY <3>9, <6>1
        <5> HIDE DEF pos
        <5>2. pos[k] = pos[k - 1] + Tokens(b)[k].used
          BY <3>2, <3>7, <4>1, <5>1
        <5>3. ASSUME t.type = "NEW_LINE" PROVE Tokens(Prefix(b, u)) = Prefix(Tokens(b), 1)
          <6>1. Token(Prefix(b, u)) = t
            BY <2>4, <3>1, <3>2, <5>3, TokenFacts
          <6>2. PICK d \in Seq(Bytes) : d = Prefix(b, u) /\ Len(d) = u
            BY PrefixFacts
          <6>3. Tokens(d) = <<t>> \o Tokens(Rest(d, u))
            BY <2>4, <3>1, <3>2, <6>1, <6>2, TokensUnfold
          <6>4. Rest(d, u) \in Seq(Bytes) /\ Len(Rest(d, u)) = 0
            <7>1. u \in 0 .. Len(d) /\ Len(d) - u = 0
              BY <6>2
            <7> QED
              BY <6>2, <7>1, RestFacts, ZenonT(120)
          <6>5. Tokens(Rest(d, u)) = <<>>
            BY <6>4, NoTokens
          <6>6. Prefix(<<t>> \o q, 0 + 1) = <<t>> \o Prefix(q, 0)
            <7>1. t \in FoundTokens /\ q \in Seq(FoundTokens) /\ 0 \in 0 .. Len(q)
              BY <3>6
            <7> QED
              BY ONLY <7>1, PrefixOfCons, ZenonT(60)
          <6>7. Prefix(q, 0) = <<>>
            <7>1. 0 \in 0 .. Len(q)
              BY <3>6
            <7> QED
              BY <7>1, PrefixFacts
          <6>8. Prefix(Tokens(b), 1) = <<t>> \o <<>>
            <7>1. 0 + 1 = 1
              OBVIOUS
            <7>2. Prefix(<<t>> \o q, 1) = <<t>> \o Prefix(q, 0)
              BY <6>6, <7>1
            <7> QED
              BY <3>5, <6>7, <7>2, Zenon
          <6>9. Tokens(d) = <<t>> \o <<>>
            BY <6>3, <6>5
          <6> QED
            BY <6>2, <6>8, <6>9
        <5> QED
          BY <3>7, <4>1, <5>1, <5>2, <5>3
      <4>2. CASE k # 1
        <5>1. PICK j \in 1 .. l : k = j + 1
          <6>1. k - 1 \in 1 .. l /\ k = k - 1 + 1
            BY <4>2
          <6> QED
            BY <6>1
        <5>2. pos[k] = u + f[j] /\ pos[k - 1] = u + f[j - 1] /\ f[j] \in 0 .. n - u /\ f[j - 1] \in 0 .. n - u
          <6>1. k \in 0 .. l + 1 /\ k - 1 \in 0 .. l + 1 /\ k # 0 /\ k - 1 # 0 /\ k - 1 = j /\ k - 1 - 1 = j - 1
                /\ j \in 0 .. l /\ j - 1 \in 0 .. l
            BY <5>1
          <6> QED
            BY <3>3, <3>8, <6>1
        <5> HIDE DEF pos
        <5>3. f[j] = f[j - 1] + q[j].used /\ q[j].used >= 1 /\ q[j].used \in Nat
          <6>1. q[j] \in FoundTokens
            BY <3>6
          <6> QED
            BY <3>9, <6>1 DEF FoundTokens, Scans, Record
        <5>4. Tokens(b)[k] = q[j]
          BY <3>7, <5>1
        <5>5. pos[k] = pos[k - 1] + Tokens(b)[k].used
          <6>1. PICK x \in Nat : x = f[j - 1]
            BY <5>2, SMTT(60)
          <6>2. PICK y \in Nat : y = q[j].used
            BY <5>3
          <6>3. pos[k] = u + (x + y) /\ pos[k - 1] = u + x
            BY <5>2, <5>3, <6>1, <6>2
          <6>4. u + (x + y) = (u + x) + y
            OBVIOUS
          <6> QED
            BY <5>4, <6>2, <6>3, <6>4, Zenon
        <5>6. ASSUME q[j].type = "NEW_LINE" PROVE Tokens(Prefix(b, u + f[j])) = Prefix(Tokens(b), j + 1)
          <6>1. PICK p \in 1 .. n - u : p = f[j]
            <7>1. PICK x \in Nat : x = f[j - 1]
              BY <5>2
            <7>2. PICK y \in Nat : y = q[j].used /\ y >= 1
              BY <5>3
            <7>3. f[j] = x + y
              BY <5>3, <7>1, <7>2
            <7>4. f[j] \in 0 .. n - u
              BY <5>2
            <7>5. PICK z \in Nat : z = f[j] /\ z <= n - u
              BY <2>1, <7>4
            <7>6. z >= 1
              <8>1. z = x + y
                BY <7>3, <7>5, Zenon
              <8>2. x + y >= 1
                BY <7>1, <7>2, AtLeastOne
              <8> QED
                BY <8>1, <8>2, Zenon
            <7>7. z \in 1 .. n - u
              BY <2>1, <7>5, <7>6
            <7> QED
              BY <7>5, <7>7
          <6>2. PICK d \in Seq(Bytes) : d = Prefix(b, u + p) /\ Len(d) = u + p
            <7>1. u + p \in 0 .. Len(b)
              BY <2>1
            <7> QED
              BY <7>1, PrefixFacts
          <6>3. Token(d) = t
            <7>1. u < Len(b) /\ u + 1 \in 0 .. Len(b) /\ u + p \in u + 1 .. Len(b)
              BY <2>1
            <7>2. Token(Prefix(b, u + 1)) = t
              BY <2>4, <3>1, <3>2, <7>1, TokenFacts
            <7> QED
              BY <2>4, <3>1, <6>2, <7>1, <7>2, FoundStays, SMTT(60)
          <6>4. Rest(d, u) = Prefix(c, p)
            BY <2>1, <3>3, <6>2 DEF Rest, Prefix
          <6>5. Tokens(d) = <<t>> \o Tokens(Prefix(c, p))
            BY <2>4, <3>1, <3>2, <6>3, <6>4, TokensUnfold
          <6>6. Tokens(Prefix(c, p)) = Prefix(q, j)
            BY <3>9, <5>6, <6>1
          <6>7. Prefix(<<t>> \o q, j + 1) = <<t>> \o Prefix(q, j)
            <7>1. t \in FoundTokens /\ q \in Seq(FoundTokens) /\ j \in 0 .. Len(q)
              BY <3>6
            <7> QED
              BY ONLY <7>1, PrefixOfCons
          <6> QED
            BY <3>5, <6>1, <6>2, <6>5, <6>6, <6>7
        <5> QED
          BY <5>1, <5>2, <5>4, <5>5, <5>6
      <4> QED
        BY <4>1, <4>2
    <3>12. pos[0] = 0
      OBVIOUS
    <3> HIDE DEF pos
    <3>13. At(b, pos)
      BY <3>7, <3>11, <3>12 DEF At
    <3> QED
      BY <3>10, <3>13
  <2> QED
    BY <2>3, <2>4
<1>2. \A n \in Nat : n \in S
  <2> HIDE DEF S
  <2> QED
    BY <1>1, AllNumbers
<1>3. ASSUME NEW b \in Seq(Bytes) PROVE P(b)
  <2>1. Len(b) \in Nat
    OBVIOUS
  <2> HIDE DEF P
  <2> QED
    BY <1>2, <2>1
<1> QED
  BY <1>3

-----------------------------------------------------------------------------

NewLine(q, i) == q[i].type = "NEW_LINE"

\* Among the first n tokens none but those before any other one ends a line.
OnlyAtTheFront(q, n) == \A i \in 1 .. n : NewLine(q, i) => \A j \in 1 .. i : NewLine(q, j)

\* The line is over with the k-th token of q.
Over(q, pos, g, k) ==
    /\ g.used = pos[k]
    /\ NewLine(q, k)
    /\ g.error # "OUTOUT_REDIRECT_BAD_ARG" => OnlyAtTheFront(q, k - 1)

LEMMA ReadEnds ==
    ASSUME NEW q \in Seq(FoundTokens), NEW pos, pos[0] = 0,
           \A k \in 1 .. Len(q) : pos[k] = pos[k - 1] + q[k].used,
           Read(q).phase = "ended"
    PROVE  \E k \in 1 .. Len(q) : Over(q, pos, Read(q), k)
<1> DEFINE R(j) == Read(Prefix(q, j))
           K(j) == /\ R(j) \in Lines
                   /\ R(j).phase \notin Final =>
                        /\ R(j).used = pos[j]
                        /\ R(j).phase = "exprs" /\ R(j).exprs = <<>> => \A i \in 1 .. j : NewLine(q, i)
                        /\ R(j).error # "OUTOUT_REDIRECT_BAD_ARG" => OnlyAtTheFront(q, j)
                   /\ R(j).phase = "ended" => \E k \in 1 .. j : Over(q, pos, R(j), k)
           S == {j \in 0 .. Len(q) : K(j)}
<1>1. Len(q) \in Nat /\ R(0) = Reading
      /\ \A j \in 1 .. Len(q) : q[j] \in FoundTokens /\ R(j) = ReadToken(R(j - 1), q[j])
  BY ReadSteps
<1> HIDE DEF R
<1>2. 0 \in S
  <2>1. R(0) \in Lines /\ R(0).used = 0 /\ R(0).phase = "exprs"
    <3>1. Reading.used = 0 /\ Reading.phase = "exprs"
      BY DEF Reading
    <3> QED
      BY <1>1, <3>1, ReadingIsALine, Zenon
  <2>2. OnlyAtTheFront(q, 0) /\ \A i \in 1 .. 0 : NewLine(q, i)
    BY DEF OnlyAtTheFront
  <2> QED
    BY <1>1, <2>1, <2>2 DEF Final
<1>3. ASSUME NEW j \in 1 .. Len(q), j - 1 \in S PROVE j \in S
  <2>1. PICK t \in FoundTokens : t = q[j]
    BY <1>1
  <2>2. PICK g \in Lines : g = R(j - 1)
    BY <1>3
  <2>3. R(j) = ReadToken(g, t)
    BY <1>1, <2>1, <2>2
  <2>4. CASE g.phase \in Final
    <3>1. R(j) = R(j - 1)
      BY <2>2, <2>3, <2>4, ReadTokenType
    <3>2. K(j - 1)
      BY <1>3
    <3>3. ASSUME R(j).phase = "ended" PROVE \E k \in 1 .. j : Over(q, pos, R(j), k)
      <4>1. PICK k \in 1 .. j - 1 : Over(q, pos, R(j), k)
        BY <3>1, <3>2, <3>3
      <4>2. k \in 1 .. j
        OBVIOUS
      <4> QED
        BY <4>1, <4>2
    <3> QED
      BY <2>2, <2>4, <3>1, <3>3
  <2>5. CASE g.phase \notin Final
    <3>1. PICK h \in Lines : h = R(j) /\ After(g, t, h)
      <4>1. After(g, t, R(j))
        BY <2>3, <2>5, ReadTokenFacts
      <4>2. R(j) \in Lines
        BY <4>1 DEF After
      <4> QED
        BY <4>1, <4>2
    <3>2. /\ g.used = pos[j - 1]
          /\ g.phase = "exprs" /\ g.exprs = <<>> => \A i \in 1 .. j - 1 : NewLine(q, i)
          /\ g.error # "OUTOUT_REDIRECT_BAD_ARG" => OnlyAtTheFront(q, j - 1)
      BY <1>3, <2>2, <2>5
    <3>3. pos[j] = g.used + t.used
      BY <2>1, <3>2
    <3>4. CASE h.phase = "ended"
      <4>1. NewLine(q, j) /\ h.used = pos[j]
        BY <2>1, <3>1, <3>3, <3>4 DEF After, NewLine
      <4>2. h.error # "OUTOUT_REDIRECT_BAD_ARG" => OnlyAtTheFront(q, j - 1)
        BY <3>1, <3>2, <3>4 DEF After
      <4>3. Over(q, pos, h, j) /\ j \in 1 .. j
        BY <4>1, <4>2 DEF Over
      <4> QED
        BY <3>1, <3>4, <4>3 DEF Final
    <3>5. CASE h.phase \notin Final
      <4>0. h.phase # "aborted" /\ h.phase # "ended"
        BY <3>5 DEF Final
      <4>1. h.used = pos[j]
        BY <3>1, <3>3, <4>0 DEF After
      <4>2. ASSUME h.phase = "exprs", h.exprs = <<>>, NEW i \in 1 .. j PROVE NewLine(q, i)
        <5>1. g.phase = "exprs" /\ g.exprs = <<>> /\ NewLine(q, j)
          BY <2>1, <3>1, <4>2 DEF After, NewLine
        <5> QED
          BY <3>2, <5>1
      <4>3. ASSUME h.error # "OUTOUT_REDIRECT_BAD_ARG", NEW i \in 1 .. j, NewLine(q, i), NEW m \in 1 .. i
            PROVE  NewLine(q, m)
        <5>1. CASE i = j
          <6>1. g.phase = "exprs" /\ g.exprs = <<>>
            BY <2>1, <3>1, <3>5, <4>3, <5>1 DEF After, NewLine
          <6> QED
            BY <3>2, <4>3, <5>1, <6>1
        <5>2. CASE i # j
          <6>1. g.error # "OUTOUT_REDIRECT_BAD_ARG"
            BY <3>1, <4>0, <4>3 DEF After
          <6>2. i \in 1 .. j - 1
            BY <5>2
          <6> QED
            BY <3>2, <4>3, <6>1, <6>2 DEF OnlyAtTheFront
        <5> QED
          BY <5>1, <5>2
      <4>4. h.error # "OUTOUT_REDIRECT_BAD_ARG" => OnlyAtTheFront(q, j)
        BY <4>3 DEF OnlyAtTheFront
      <4> QED
        BY <3>1, <4>0, <4>1, <4>2, <4>4
    <3>6. CASE h.phase = "aborted"
      BY <3>1, <3>6 DEF Final
    <3> QED
      BY <3>4, <3>5, <3>6 DEF Final
  <2> QED
    BY <2>4, <2>5
<1>4. Len(q) \in S
  <2> HIDE DEF S
  <2>1. \A j \in 0 .. Len(q) : j \in S
    BY <1>1, <1>2, <1>3, UpTo
  <2>2. Len(q) \in 0 .. Len(q)
    BY <1>1
  <2> QED
    BY <2>1, <2>2
<1>5. R(Len(q)) = Read(q)
  <2>1. Len(q) \in 0 .. Len(q)
    BY <1>1
  <2> QED
    BY <2>1, PrefixFacts DEF R
<1> QED
  BY <1>4, <1>5

\* What a line that is over consumes: tokens up to a new line, and no new line
\* among them but before the others.
LEMMA ConsumedLine ==
    ASSUME NEW b \in Seq(Bytes), Line(b).phase = "ended"
    PROVE  /\ Line(b).used \in 1 .. Len(b)
           /\ LET toks == Tokens(Prefix(b, Line(b).used)) IN
              /\ toks \in Seq(FoundTokens) /\ Len(toks) >= 1
              /\ NewLine(toks, Len(toks))
              /\ Line(b).error # "OUTOUT_REDIRECT_BAD_ARG" => OnlyAtTheFront(toks, Len(toks) - 1)
<1>1. PICK q \in Seq(FoundTokens) : q = Tokens(b)
  BY TokensFacts
<1>2. Line(b) = Read(q)
  BY <1>1 DEF Line, Read
<1>3. PICK pos \in [0 .. Len(q) -> 0 .. Len(b)] : At(b, pos)
  BY <1>1, Positions
<1>4. pos[0] = 0 /\ \A k \in 1 .. Len(q) : pos[k] = pos[k - 1] + q[k].used
  BY <1>1, <1>3 DEF At
<1>5. PICK k \in 1 .. Len(q) : Over(q, pos, Line(b), k)
  BY <1>2, <1>4, ReadEnds
<1>6. Line(b).used = pos[k] /\ q[k].type = "NEW_LINE"
      /\ (Line(b).error # "OUTOUT_REDIRECT_BAD_ARG" => OnlyAtTheFront(q, k - 1))
  BY <1>5 DEF Over, NewLine
<1>7. Line(b).used \in 1 .. Len(b)
  <2>1. k \in 0 .. Len(q) /\ k - 1 \in 0 .. Len(q) /\ Len(b) \in Nat
    OBVIOUS
  <2>2. PICK x \in Nat : x = pos[k - 1]
    BY <1>3, <2>1, SMTT(60)
  <2>3. PICK y \in Nat : y = q[k].used /\ y >= 1
    <3>1. PICK t \in FoundTokens : t = q[k]
      OBVIOUS
    <3>2. t.used \in Nat /\ t.used >= 1
      BY ONLY t \in FoundTokens DEF FoundTokens, Scans, Record
    <3> QED
      BY <3>1, <3>2
  <2>4. PICK z \in 0 .. Len(b) : z = pos[k]
    BY <1>3, <2>1
  <2>5. z = x + y
    BY <1>4, <2>2, <2>3, <2>4
  <2>6. z >= 1
    BY <2>3, <2>5
  <2>7. z \in 1 .. Len(b)
    BY <2>1, <2>6
  <2> QED
    BY <1>6, <2>4, <2>7
<1>8. Tokens(Prefix(b, pos[k])) = Prefix(q, k)
  BY <1>1, <1>3, <1>6 DEF At
<1>9. PICK toks \in Seq(FoundTokens) : toks = Prefix(q, k) /\ Len(toks) = k /\ \A i \in 1 .. k : toks[i] = q[i]
  <2>1. k \in 0 .. Len(q)
    OBVIOUS
  <2> QED
    BY <2>1, PrefixFacts
<1>10. NewLine(toks, k)
  BY <1>6, <1>9 DEF NewLine
<1>11. ASSUME OnlyAtTheFront(q, k - 1) PROVE OnlyAtTheFront(toks, k - 1)
  <2>1. \A i \in 1 .. k - 1 : i \in 1 .. k /\ \A j \in 1 .. i : j \in 1 .. k
    OBVIOUS
  <2> QED
    BY <1>9, <1>11, <2>1 DEF OnlyAtTheFront, NewLine
<1> QED
  BY <1>6, <1>7, <1>8, <1>9, <1>10, <1>11

-----------------------------------------------------------------------------
(* What all pops return *)

LineAt(b, i) == Line(Rest(b, i))
Stop(g) == IF g.phase = "aborted" THEN <<Returned(g)>> ELSE <<>>

\* f[i] is what pops return for the bytes of b after the i-th.
Pops(b, f) ==
    \A i \in 0 .. Len(b) :
        f[i] = IF LineAt(b, i).phase = "ended"
               THEN <<Returned(LineAt(b, i))>> \o f[i + LineAt(b, i).used]
               ELSE Stop(LineAt(b, i))

LEMMA LineAtFacts ==
    ASSUME NEW b \in Seq(Bytes), NEW i \in 0 .. Len(b)
    PROVE  /\ LineAt(b, i) \in Lines /\ LineAt(b, i).used \in Nat
           /\ LineAt(b, i).phase = "ended" => i + LineAt(b, i).used \in i + 1 .. Len(b)
<1>1. Rest(b, i) \in Seq(Bytes) /\ Len(Rest(b, i)) = Len(b) - i /\ Len(b) \in Nat
  BY RestFacts
<1>2. PICK g \in Lines : g = LineAt(b, i)
  <2>1. <<>> \in Seq(Bytes)
    OBVIOUS
  <2> QED
    BY <1>1, <2>1, LineStable DEF LineAt
<1>3. g.used \in Nat
  BY DEF Lines, LineRecord
<1>4. ASSUME g.phase = "ended" PROVE i + g.used \in i + 1 .. Len(b)
  <2>1. g.used \in 1 .. Len(b) - i
    BY <1>1, <1>2, <1>4, ConsumedLine DEF LineAt
  <2> QED
    BY <1>1, <2>1
<1> QED
  BY <1>2, <1>3, <1>4

LEMMA PopsExist ==
    ASSUME NEW c \in Seq(Bytes)
    PROVE  \E f : f[0] = AllPopped(c) /\ Pops(c, f)
<1>1. PICK n \in Nat : n = Len(c)
  OBVIOUS
<1> DEFINE U(i) == Line(Rest(c, i - 1))
           G == {i \in 1 .. n + 1 : U(i).phase = "ended"}
           Eq(f) == f = [i \in 1 .. Len(c) + 1 |->
                           CASE U(i).phase = "ended" -> <<Returned(U(i))>> \o f[i + U(i).used]
                             [] U(i).phase = "aborted" -> <<Returned(U(i))>>
                             [] OTHER -> <<>>]
           head == [i \in 1 .. n + 1 |-> <<Returned(U(i))>>]
           next == [i \in 1 .. n + 1 |-> i + U(i).used]
           base == [i \in 1 .. n + 1 |-> Stop(U(i))]
<1>2. ASSUME NEW i \in 1 .. n + 1
      PROVE  /\ i - 1 \in 0 .. n /\ U(i) = LineAt(c, i - 1) /\ U(i).used \in Nat
             /\ U(i).phase = "ended" => i + U(i).used \in i + 1 .. n + 1 /\ i \in 1 .. n
  <2>1. i - 1 \in 0 .. Len(c) /\ i - 1 + 1 = i
    BY <1>1
  <2>2. U(i) = LineAt(c, i - 1)
    BY DEF LineAt
  <2>3. PICK u \in Nat : u = U(i).used
    BY <2>1, <2>2, LineAtFacts
  <2>4. ASSUME U(i).phase = "ended" PROVE i + u \in i + 1 .. n + 1 /\ i \in 1 .. n
    <3>1. i - 1 + u \in i - 1 + 1 .. Len(c)
      BY <2>1, <2>2, <2>3, <2>4, LineAtFacts
    <3> QED
      BY <1>1, <3>1
  <2> QED
    BY <1>1, <2>1, <2>2, <2>3, <2>4
<1>3. PICK f : f = [i \in 1 .. n + 1 |-> f[i]] /\ Unrolls(f, n, G, head, next, base)
  <2>1. G \in SUBSET (1 .. n)
    BY <1>2
  <2>2. \A i \in G : next[i] \in i + 1 .. n + 1
    BY <1>2
  <2> HIDE DEF head, next, base, G
  <2>3. \E f : f = [i \in 1 .. n + 1 |-> f[i]] /\ Unrolls(f, n, G, head, next, base)
    BY <2>1, <2>2, UnrollExists, Zenon
  <2> QED
    BY <2>3
<1>4. Eq(f)
  <2>1. ASSUME NEW i \in 1 .. n + 1
        PROVE  f[i] = CASE U(i).phase = "ended" -> <<Returned(U(i))>> \o f[i + U(i).used]
                        [] U(i).phase = "aborted" -> <<Returned(U(i))>>
                        [] OTHER -> <<>>
    <3>1. f[i] = IF U(i).phase = "ended" THEN <<Returned(U(i))>> \o f[i + U(i).used] ELSE Stop(U(i))
      BY <1>3 DEF Unrolls
    <3> HIDE DEF U
    <3> QED
      BY <3>1 DEF Stop
  <2> HIDE DEF U
  <2> QED
    BY <1>1, <1>3, <2>1
<1>5. PICK g : Eq(g) /\ AllPopped(c) = g[1]
  BY <1>4 DEF AllPopped
<1> DEFINE h == [i \in 0 .. n |-> g[i + 1]]
<1>6. h[0] = AllPopped(c)
  BY <1>1, <1>5
<1>7. ASSUME NEW i \in 0 .. Len(c)
      PROVE  h[i] = IF LineAt(c, i).phase = "ended"
                    THEN <<Returned(LineAt(c, i))>> \o h[i + LineAt(c, i).used]
                    ELSE Stop(LineAt(c, i))
  <2>1. i + 1 \in 1 .. n + 1 /\ i + 1 - 1 = i /\ h[i] = g[i + 1]
    BY <1>1
  <2>2. U(i + 1) = LineAt(c, i)
    <3>1. Rest(c, i + 1 - 1) = Rest(c, i)
      BY <2>1
    <3> QED
      BY <3>1 DEF LineAt
  <2>3. g[i + 1] = CASE U(i + 1).phase = "ended" -> <<Returned(U(i + 1))>> \o g[i + 1 + U(i + 1).used]
                     [] U(i + 1).phase = "aborted" -> <<Returned(U(i + 1))>>
                     [] OTHER -> <<>>
    BY <1>1, <1>5, <2>1
  <2>4. PICK l \in Lines : l = LineAt(c, i)
    BY LineAtFacts
  <2>5. l.phase = "ended" => h[i + l.used] = g[i + 1 + l.used]
    <3>1. PICK u \in Nat : u = l.used
      BY <2>4, LineAtFacts
    <3>2. SUFFICES ASSUME l.phase = "ended" PROVE h[i + u] = g[i + 1 + u]
      BY <3>1
    <3>3. i + u \in 0 .. n /\ i + u + 1 = i + 1 + u
      <4>1. i + u \in i + 1 .. Len(c)
        BY <2>4, <3>1, <3>2, LineAtFacts
      <4> QED
        BY <1>1, <4>1
    <3>4. h[i + u] = g[i + u + 1]
      BY <3>3
    <3> QED
      BY <3>3, <3>4
  <2> HIDE DEF h, U, Eq
  <2>6. g[i + 1] = CASE l.phase = "ended" -> <<Returned(l)>> \o g[i + 1 + l.used]
                     [] l.phase = "aborted" -> <<Returned(l)>>
                     [] OTHER -> <<>>
    BY <2>2, <2>3, <2>4
  <2>7. CASE l.phase = "ended"
    BY <2>1, <2>4, <2>5, <2>6, <2>7
  <2>8. CASE l.phase # "ended"
    BY <2>1, <2>4, <2>6, <2>8 DEF Stop
  <2> QED
    BY <2>7, <2>8
<1> HIDE DEF h
<1>8. Pops(c, h)
  BY <1>7 DEF Pops
<1> QED
  BY <1>6, <1>8

\* The first pop and those for the bytes behind its line.
LEMMA AllPoppedUnfolds ==
    ASSUME NEW b \in Seq(Bytes)
    PROVE  AllPopped(b) = IF Line(b).phase = "ended"
                          THEN <<Returned(Line(b))>> \o AllPopped(Rest(b, Line(b).used))
                          ELSE Stop(Line(b))
<1>1. PICK f : f[0] = AllPopped(b) /\ Pops(b, f)
  BY PopsExist
<1>2. LineAt(b, 0) = Line(b) /\ 0 \in 0 .. Len(b)
  BY RestFacts DEF LineAt
<1>3. PICK l \in Lines : l = Line(b)
  BY <1>2, LineAtFacts
<1>4. f[0] = IF l.phase = "ended" THEN <<Returned(l)>> \o f[0 + l.used] ELSE Stop(l)
  BY <1>1, <1>2, <1>3 DEF Pops
<1>5. CASE l.phase = "ended"
  <2>1. PICK u \in 1 .. Len(b) : u = l.used
    BY <1>3, <1>5, ConsumedLine
  <2>2. PICK c \in Seq(Bytes) : c = Rest(b, u)
    <3>1. u \in 0 .. Len(b)
      OBVIOUS
    <3> QED
      BY <3>1, RestFacts
  <2>3. PICK n \in Nat : n = Len(c)
    OBVIOUS
  <2>4. Len(b) = u + n /\ \A i \in 0 .. n : Rest(c, i) = Rest(b, u + i)
    <3>1. u \in 0 .. Len(b)
      OBVIOUS
    <3>2. Len(c) = Len(b) - u /\ \A i \in 0 .. Len(b) - u : Rest(c, i) = Rest(b, u + i)
      BY <2>2, <3>1, RestFacts
    <3> QED
      BY <2>3, <3>2
  <2>5. PICK g : g[0] = AllPopped(c) /\ Pops(c, g)
    BY PopsExist
  <2> DEFINE G == {i \in 0 .. n : LineAt(c, i).phase = "ended"}
             head == [i \in 0 .. n |-> <<Returned(LineAt(c, i))>>]
             next == [i \in 0 .. n |-> i + LineAt(c, i).used]
             base == [i \in 0 .. n |-> Stop(LineAt(c, i))]
             h == [i \in 0 .. n |-> f[u + i]]
  <2>6. \A i \in 0 .. n : i \in G => next[i] \in i + 1 .. n
    BY <2>3, LineAtFacts
  <2>7. \A i \in 0 .. n : g[i] = IF i \in G THEN head[i] \o g[next[i]] ELSE base[i]
    BY <2>3, <2>5 DEF Pops
  <2>8. ASSUME NEW i \in 0 .. n PROVE h[i] = IF i \in G THEN head[i] \o h[next[i]] ELSE base[i]
    <3>1. u + i \in 0 .. Len(b)
      BY <2>4
    <3>2. PICK a \in Lines : a = LineAt(c, i)
      BY <2>3, LineAtFacts
    <3>3. a = LineAt(b, u + i)
      BY <2>4, <3>2 DEF LineAt
    <3>4. PICK v \in Nat : v = a.used
      BY <2>3, <3>2, LineAtFacts
    <3>5. f[u + i] = IF a.phase = "ended" THEN <<Returned(a)>> \o f[u + i + v] ELSE Stop(a)
      BY <1>1, <3>1, <3>3, <3>4 DEF Pops
    <3>6. CASE a.phase = "ended"
      <4>1. i \in G /\ next[i] = i + v /\ head[i] = <<Returned(a)>>
        BY <3>2, <3>4, <3>6
      <4>2. i + v \in 0 .. n /\ u + (i + v) = u + i + v
        <5>1. i + v \in i + 1 .. n
          BY <2>3, <3>2, <3>4, <3>6, LineAtFacts
        <5> QED
          BY <5>1
      <4>3. h[i + v] = f[u + i + v]
        BY <4>2
      <4> HIDE DEF G, next, head
      <4> QED
        BY <3>5, <3>6, <4>1, <4>3
    <3>7. CASE a.phase # "ended"
      BY <3>2, <3>5, <3>7
    <3> QED
      BY <3>6, <3>7
  <2>9. g[0] = h[0]
    <3> HIDE DEF G, head, next, base, h
    <3>1. Follows(g, n, G, head, next, base) /\ Follows(h, n, G, head, next, base)
      BY <2>7, <2>8 DEF Follows
    <3> QED
      BY <2>6, <3>1, UnrollsOnce
  <2>10. h[0] = f[0 + l.used]
    <3>1. 0 \in 0 .. n /\ u + 0 = 0 + u
      OBVIOUS
    <3> QED
      BY <2>1, <3>1
  <2> QED
    BY <1>1, <1>3, <1>4, <1>5, <2>1, <2>2, <2>5, <2>9, <2>10
<1>6. CASE l.phase # "ended"
  BY <1>1, <1>3, <1>4, <1>6
<1> QED
  BY <1>5, <1>6

-----------------------------------------------------------------------------
(* The invariant *)

Results == {Returned(g) : g \in {h \in Lines : h.phase \in Final}}

LEMMA ReturnedFacts ==
    ASSUME NEW g \in Lines, g.phase \in Final
    PROVE  /\ Returned(g) \in Results
           /\ g.phase = "aborted" => Returned(g).error = "ABORT" /\ Returned(g).line = <<>>
           /\ g.phase = "ended" => /\ Returned(g).error = g.error
                                   /\ Returned(g).error # "ABORT"
                                   /\ Returned(g).line = IF g.error = "NONE"
                                                         THEN <<g.exprs, g.out, g.background>> ELSE <<>>
<1>1. Returned(g) \in Results
  BY DEF Results
<1>2. g.error \in Errors
  BY DEF Lines, LineRecord
<1>3. CASE g.phase = "aborted"
  <2>1. Returned(g) = [error |-> "ABORT", line |-> <<>>]
    BY <1>3 DEF Returned
  <2> QED
    BY <1>1, <1>3, <2>1
<1>4. CASE g.phase = "ended"
  <2>1. Returned(g) = [error |-> g.error,
             line |-> IF g.error = "NONE" THEN <<g.exprs, g.out, g.background>> ELSE <<>>]
    BY <1>4 DEF Returned
  <2> QED
    BY <1>1, <1>2, <1>4, <2>1 DEF Errors
<1> QED
  BY <1>3, <1>4 DEF Final

\* What a line that is returned looks like.
LEMMA ResultFacts ==
    ASSUME NEW r \in Results, r.line # <<>>
    PROVE  /\ r.line[1] \in Seq(Exprs) /\ Alternate(r.line[1])
           /\ Len(r.line[1]) % 2 = 1
<1>1. PICK g \in Lines : g.phase \in Final /\ r = Returned(g)
  BY DEF Results
<1>2. g.phase = "ended" /\ g.error = "NONE" /\ r.line = <<g.exprs, g.out, g.background>>
  BY <1>1, ReturnedFacts DEF Final
<1>3. PICK e \in Seq(Exprs) : e = g.exprs
  BY DEF Lines, LineRecord
<1>4. Alternate(e) /\ e # <<>> /\ e[Len(e)].type = "COMMAND"
  BY <1>2, <1>3 DEF Lines, EndsWithCommand, Last
<1>5. Len(e) \in DOMAIN e
  BY <1>4
<1>6. Len(e) % 2 = 1
  BY <1>4, <1>5 DEF Alternate
<1>7. r.line[1] = e
  BY <1>2, <1>3
<1> QED
  BY <1>4, <1>6, <1>7

LEMMA AllPoppedType ==
    \A b \in Seq(Bytes) : AllPopped(b) \in Seq(Results)
<1> DEFINE S == {n \in Nat : \A b \in Seq(Bytes) : Len(b) = n => AllPopped(b) \in Seq(Results)}
<1>1. ASSUME NEW n \in Nat, \A m \in Nat : m < n => m \in S PROVE n \in S
  <2>1. SUFFICES ASSUME NEW b \in Seq(Bytes), Len(b) = n PROVE AllPopped(b) \in Seq(Results)
    OBVIOUS
  <2>2. PICK g \in Lines : g = Line(b)
    <3>1. <<>> \in Seq(Bytes)
      OBVIOUS
    <3> QED
      BY <3>1, LineStable
  <2>3. AllPopped(b) = IF g.phase = "ended" THEN <<Returned(g)>> \o AllPopped(Rest(b, g.used)) ELSE Stop(g)
    BY <2>2, AllPoppedUnfolds
  <2>4. g.phase \in Final => <<Returned(g)>> \in Seq(Results)
    <3>1. SUFFICES ASSUME g.phase \in Final PROVE <<Returned(g)>> \in Seq(Results)
      OBVIOUS
    <3>2. PICK r \in Results : r = Returned(g)
      BY <3>1, ReturnedFacts
    <3> QED
      BY <3>2
  <2>5. CASE g.phase = "ended"
    <3>1. PICK u \in 1 .. n : u = g.used
      BY <2>1, <2>2, <2>5, ConsumedLine
    <3>2. PICK c \in Seq(Bytes) : c = Rest(b, u) /\ Len(c) = n - u
      <4>1. u \in 0 .. Len(b)
        BY <2>1
      <4> QED
        BY <2>1, <4>1, RestFacts
    <3>3. n - u \in Nat /\ n - u < n
      OBVIOUS
    <3>4. AllPopped(c) \in Seq(Results)
      BY <1>1, <3>2, <3>3
    <3>5. <<Returned(g)>> \o AllPopped(c) \in Seq(Results)
      BY <2>4, <2>5, <3>4, ConcatProperties DEF Final
    <3> QED
      BY <2>3, <2>5, <3>1, <3>2, <3>5
  <2>6. CASE g.phase # "ended"
    <3>1. Stop(g) \in Seq(Results)
      BY <2>4, <2>6 DEF Stop, Final
    <3> QED
      BY <2>3, <2>6, <3>1
  <2> QED
    BY <2>5, <2>6
<1>2. \A n \in Nat : n \in S
  <2> HIDE DEF S
  <2> QED
    BY <1>1, AllNumbers
<1> QED
  BY <1>2

-----------------------------------------------------------------------------

\* What is returned and what the rest of the buffer is good for are the lines of
\* what is fed, whatever bytes follow.
Consistent ==
    \A x \in Seq(Bytes) :
        popped \o (IF Running THEN AllPopped(buffer \o x) ELSE <<>>) = AllPopped(fed \o x)

ParserInv ==
    /\ fed \in Seq(Alphabet) /\ Len(fed) <= MaxFed
    /\ \E k \in 0 .. Len(fed) : buffer = Rest(fed, k)
    /\ popped \in Seq(Results)
    /\ Consistent

LEMMA AlphabetIsBytes == Alphabet \subseteq Bytes
  BY AlphabetAssumption DEF Bytes

LEMMA BufferFacts ==
    ASSUME ParserInv
    PROVE  fed \in Seq(Bytes) /\ buffer \in Seq(Bytes)
<1>1. fed \in Seq(Bytes)
  BY AlphabetIsBytes DEF ParserInv
<1> QED
  BY <1>1, RestFacts DEF ParserInv

LEMMA ParserInvInit == Init => ParserInv
<1>1. SUFFICES ASSUME Init PROVE ParserInv
  OBVIOUS
<1>2. fed = <<>> /\ buffer = <<>> /\ popped = <<>>
  BY <1>1 DEF Init
<1>3. fed \in Seq(Alphabet) /\ fed \in Seq(Bytes) /\ Len(fed) = 0 /\ popped \in Seq(Results)
  BY <1>2
<1>4. Len(fed) <= MaxFed
  <2>1. MaxFed \in Nat
    BY AlphabetAssumption
  <2> QED
    BY <1>3, <2>1
<1>5. 0 \in 0 .. Len(fed) /\ buffer = Rest(fed, 0)
  <2>1. 0 \in 0 .. Len(fed)
    BY <1>3
  <2>2. Rest(fed, 0) = fed
    BY <1>3, <2>1, RestFacts
  <2> QED
    BY <1>2, <2>1, <2>2
<1>6. Running
  BY <1>2 DEF Running
<1>7. Consistent
  <2>1. SUFFICES ASSUME NEW x \in Seq(Bytes) PROVE popped \o AllPopped(buffer \o x) = AllPopped(fed \o x)
    BY <1>6 DEF Consistent
  <2>2. buffer \o x = x /\ fed \o x = x
    BY <1>2, ConcatEmptySeq
  <2>3. AllPopped(x) \in Seq(Results)
    BY AllPoppedType
  <2>4. <<>> \o AllPopped(x) = AllPopped(x)
    BY <2>3, ConcatEmptySeq
  <2> QED
    BY <1>2, <2>2, <2>4
<1> QED
  BY <1>3, <1>4, <1>5, <1>7 DEF ParserInv

LEMMA FeedPreserves ==
    ASSUME ParserInv, NEW c \in Alphabet, Feed(c)
    PROVE  ParserInv'
<1>1. fed \in Seq(Bytes) /\ buffer \in Seq(Bytes) /\ c \in Bytes
  BY BufferFacts, AlphabetIsBytes
<1>2. fed' = fed \o <<c>> /\ buffer' = buffer \o <<c>> /\ popped' = popped /\ <<c>> \in Seq(Bytes)
  BY <1>1, AppendIsConcat DEF Feed
<1>3. fed' \in Seq(Alphabet) /\ Len(fed') <= MaxFed
  <2>1. MaxFed \in Nat
    BY AlphabetAssumption
  <2>2. fed \in Seq(Alphabet) /\ fed' = Append(fed, c) /\ Len(fed) < MaxFed
    BY DEF ParserInv, Feed
  <2>3. fed' \in Seq(Alphabet) /\ Len(fed') = Len(fed) + 1 /\ Len(fed) \in Nat
    BY <2>2
  <2> QED
    BY <2>1, <2>2, <2>3
<1>4. \E k \in 0 .. Len(fed') : buffer' = Rest(fed', k)
  <2>1. PICK k \in 0 .. Len(fed) : buffer = Rest(fed, k)
    BY DEF ParserInv
  <2>2. Rest(fed', k) = buffer'
    BY <1>1, <1>2, <2>1, RestOfConcat
  <2>3. k \in 0 .. Len(fed')
    BY <1>1 DEF Feed
  <2> QED
    BY <2>2, <2>3
<1>5. Consistent'
  <2>1. SUFFICES ASSUME NEW x \in Seq(Bytes)
                 PROVE  popped' \o (IF Running' THEN AllPopped(buffer' \o x) ELSE <<>>) = AllPopped(fed' \o x)
    BY DEF Consistent
  <2>2. PICK y \in Seq(Bytes) : y = <<c>> \o x
    BY <1>2, ConcatProperties
  <2>3. buffer' \o x = buffer \o y /\ fed' \o x = fed \o y
    <3>1. (buffer \o <<c>>) \o x = buffer \o (<<c>> \o x)
      BY ONLY <1>1, x \in Seq(Bytes), InTheMiddle, SMTT(60)
    <3>2. (fed \o <<c>>) \o x = fed \o (<<c>> \o x)
      BY ONLY <1>1, x \in Seq(Bytes), InTheMiddle, SMTT(60)
    <3> QED
      BY <1>2, <2>2, <3>1, <3>2, Zenon
  <2>4. Running' /\ Running
    BY <1>2 DEF Running, Feed
  <2>5. popped \o AllPopped(buffer \o y) = AllPopped(fed \o y)
    BY <2>4 DEF ParserInv, Consistent
  <2> QED
    BY <1>2, <2>3, <2>4, <2>5
<1> QED
  BY <1>2, <1>3, <1>4, <1>5 DEF ParserInv

LEMMA PopLinePreserves ==
    ASSUME ParserInv, PopLine
    PROVE  ParserInv'
<1>1. fed \in Seq(Bytes) /\ buffer \in Seq(Bytes) /\ popped \in Seq(Results) /\ Running /\ fed' = fed
  BY BufferFacts DEF ParserInv, PopLine
<1>2. PICK g \in Lines : g = Line(buffer) /\ g.phase \in Final
  <2>1. <<>> \in Seq(Bytes)
    OBVIOUS
  <2> QED
    BY <1>1, <2>1, LineStable DEF PopLine, Final
<1>3. PICK r \in Results : r = Returned(g)
  BY <1>2, ReturnedFacts
<1>4. popped' = Append(popped, r) /\ buffer' = IF g.phase = "ended" THEN Rest(buffer, g.used) ELSE buffer
  BY <1>2, <1>3 DEF PopLine
<1>5. popped' = popped \o <<r>> /\ popped' \in Seq(Results) /\ <<r>> \in Seq(Results)
  BY <1>1, <1>4, AppendIsConcat
<1>6. Len(popped') = Len(popped) + 1 /\ popped'[Len(popped) + 1] = r
      /\ \A i \in 1 .. Len(popped) : popped'[i] = popped[i]
  BY <1>1, <1>4
<1>7. PICK k \in 0 .. Len(fed) : buffer = Rest(fed, k)
  BY DEF ParserInv
<1>8. Len(buffer) = Len(fed) - k /\ Len(fed) \in Nat
  BY <1>1, <1>7, RestFacts
<1>9. ASSUME NEW x \in Seq(Bytes) PROVE Line(buffer \o x) = g /\ buffer \o x \in Seq(Bytes)
  BY <1>1, <1>2, <1>9, LineStable, ConcatProperties
<1>10. CASE g.phase = "ended"
  <2>1. PICK u \in 1 .. Len(buffer) : u = g.used
    BY <1>1, <1>2, <1>10, ConsumedLine
  <2>2. buffer' = Rest(buffer, u)
    BY <1>4, <1>10, <2>1
  <2>3. u \in 0 .. Len(fed) - k /\ u \in 0 .. Len(buffer) /\ k + u \in 0 .. Len(fed)
    BY <1>8
  <2>4. buffer' = Rest(fed, k + u)
    BY <1>1, <1>7, <2>2, <2>3, RestFacts
  <2>5. Running'
    <3>1. r.error # "ABORT"
      BY <1>2, <1>3, <1>10, ReturnedFacts
    <3>2. ASSUME NEW i \in DOMAIN popped' PROVE popped'[i].error # "ABORT"
      <4>1. DOMAIN popped' = 1 .. Len(popped) + 1 /\ DOMAIN popped = 1 .. Len(popped)
        BY <1>1, <1>5, <1>6
      <4>2. CASE i = Len(popped) + 1
        BY <1>6, <3>1, <4>2
      <4>3. CASE i # Len(popped) + 1
        <5>1. i \in 1 .. Len(popped)
          BY <4>1, <4>3
        <5> QED
          BY <1>1, <1>6, <4>1, <5>1 DEF Running
      <4> QED
        BY <4>2, <4>3
    <3> QED
      BY <3>2 DEF Running
  <2>6. ASSUME NEW x \in Seq(Bytes)
        PROVE  popped' \o AllPopped(buffer' \o x) = AllPopped(fed \o x)
    <3>1. AllPopped(buffer \o x) = <<r>> \o AllPopped(buffer' \o x)
      <4>1. AllPopped(buffer \o x) = <<r>> \o AllPopped(Rest(buffer \o x, u))
        BY <1>3, <1>9, <1>10, <2>1, AllPoppedUnfolds
      <4>2. Rest(buffer \o x, u) = buffer' \o x
        BY <1>1, <2>2, <2>3, RestOfConcat
      <4> QED
        BY <4>1, <4>2
    <3>2. buffer' \o x \in Seq(Bytes)
      <4>1. buffer' \in Seq(Bytes)
        BY <1>1, <2>2, <2>3, RestFacts
      <4> QED
        BY <4>1, ConcatProperties
    <3>3. PICK a \in Seq(Results) : a = AllPopped(buffer' \o x)
      BY <3>2, AllPoppedType
    <3>4. (popped \o <<r>>) \o a = popped \o (<<r>> \o a)
      BY <1>1, InTheMiddle, SMTT(60)
    <3>5. popped \o AllPopped(buffer \o x) = AllPopped(fed \o x)
      BY <1>1 DEF ParserInv, Consistent
    <3> QED
      BY <1>5, <3>1, <3>3, <3>4, <3>5
  <2>7. Consistent'
    BY <1>1, <2>5, <2>6 DEF Consistent
  <2> QED
    BY <1>1, <1>5, <2>3, <2>4, <2>7 DEF ParserInv
<1>11. CASE g.phase = "aborted"
  <2>1. buffer' = buffer
    BY <1>4, <1>11
  <2>2. ~ Running'
    <3>1. r.error = "ABORT"
      BY <1>2, <1>3, <1>11, ReturnedFacts
    <3>2. Len(popped) + 1 \in DOMAIN popped'
      BY <1>1, <1>5, <1>6
    <3> QED
      BY <1>6, <3>1, <3>2 DEF Running
  <2>3. ASSUME NEW x \in Seq(Bytes) PROVE popped' \o <<>> = AllPopped(fed \o x)
    <3>1. AllPopped(buffer \o x) = <<r>>
      BY <1>3, <1>9, <1>11, AllPoppedUnfolds DEF Stop
    <3>2. popped \o AllPopped(buffer \o x) = AllPopped(fed \o x)
      BY <1>1 DEF ParserInv, Consistent
    <3>3. popped' \o <<>> = popped'
      BY <1>5, ConcatEmptySeq
    <3> QED
      BY <1>5, <3>1, <3>2, <3>3
  <2>4. Consistent'
    BY <1>1, <2>2, <2>3 DEF Consistent
  <2> QED
    BY <1>1, <1>5, <1>7, <2>1, <2>4 DEF ParserInv
<1> QED
  BY <1>2, <1>10, <1>11 DEF Final

LEMMA ParserInvNext == ParserInv /\ [Next]_vars => ParserInv'
<1>1. SUFFICES ASSUME ParserInv, [Next]_vars PROVE ParserInv'
  OBVIOUS
<1>2. CASE \E c \in Alphabet : Feed(c)
  BY <1>1, <1>2, FeedPreserves
<1>3. CASE PopLine
  BY <1>1, <1>3, PopLinePreserves
<1>4. CASE UNCHANGED vars
  BY <1>1, <1>4 DEF vars, ParserInv, Consistent, Running
<1> QED
  BY <1>1, <1>2, <1>3, <1>4 DEF Next

\* The parser keeps ParserInv: no byte that is fed and no pop breaks it.
THEOREM ParserInvariance == Spec => []ParserInv
  BY ParserInvInit, ParserInvNext, PTL DEF Spec

LEMMA SuffixOfRest ==
    ASSUME NEW E, NEW b \in Seq(E), NEW k \in 0 .. Len(b)
    PROVE  IsSuffix(Rest(b, k), b)
<1>1. PICK c \in Seq(E) : c = Rest(b, k) /\ Len(c) = Len(b) - k
  BY RestFacts
<1>2. PICK n \in Nat : n = Len(b)
  OBVIOUS
<1>3. \A i \in 1 .. n - k : c[i] = b[k + i]
  BY <1>1, <1>2 DEF Rest
<1>4. Len(c) = n - k /\ n - k \in Nat
  BY <1>1, <1>2
<1> DEFINE u == [i \in 1 .. n - k |-> c[(n - k - i) + 1]]
           v == [i \in 1 .. n |-> b[(n - i) + 1]]
<1>5. u = Reverse(c) /\ v = Reverse(b)
  BY <1>2, <1>4 DEF Reverse
<1>6. u \in Seq(E) /\ Len(u) = n - k /\ v \in Seq(E) /\ Len(v) = n
  <2>1. ASSUME NEW i \in 1 .. n - k PROVE c[(n - k - i) + 1] \in E
    <3>1. (n - k - i) + 1 \in 1 .. Len(c)
      BY <1>4
    <3> QED
      BY <3>1
  <2>2. ASSUME NEW i \in 1 .. n PROVE b[(n - i) + 1] \in E
    <3>1. (n - i) + 1 \in 1 .. Len(b)
      BY <1>2
    <3> QED
      BY <3>1
  <2> QED
    BY <1>4, <2>1, <2>2
<1>7. ASSUME NEW i \in 1 .. n - k PROVE u[i] = v[i]
  <2>1. u[i] = c[(n - k - i) + 1] /\ v[i] = b[(n - i) + 1]
    OBVIOUS
  <2>2. (n - k - i) + 1 \in 1 .. n - k /\ k + ((n - k - i) + 1) = (n - i) + 1
    OBVIOUS
  <2>3. c[(n - k - i) + 1] = b[k + ((n - k - i) + 1)]
    BY <1>3, <2>2
  <2> QED
    BY <2>1, <2>2, <2>3
<1> HIDE DEF u, v
<1>8. SubSeq(u, 1, n - k) = SubSeq(v, 1, n - k)
  <2>1. Prefix(u, n - k) \in Seq(E) /\ Len(Prefix(u, n - k)) = n - k
        /\ \A i \in 1 .. n - k : Prefix(u, n - k)[i] = u[i]
    <3>1. n - k \in 0 .. Len(u)
      BY <1>4, <1>6
    <3>2. u \in Seq(E)
      BY <1>6
    <3> QED
      BY ONLY <3>1, <3>2, PrefixFacts, ZenonT(60)
  <2>2. Prefix(v, n - k) \in Seq(E) /\ Len(Prefix(v, n - k)) = n - k
        /\ \A i \in 1 .. n - k : Prefix(v, n - k)[i] = v[i]
    <3>1. n - k \in 0 .. Len(v)
      BY <1>4, <1>6
    <3>2. v \in Seq(E)
      BY <1>6
    <3> QED
      BY ONLY <3>1, <3>2, PrefixFacts
  <2>3. Prefix(u, n - k) = Prefix(v, n - k)
    BY <1>7, <2>1, <2>2, SeqEqual
  <2> QED
    BY <2>3 DEF Prefix
<1>9. n - k <= n
  BY <1>2
<1> QED
  BY <1>1, <1>5, <1>6, <1>8, <1>9 DEF IsSuffix, IsPrefix

-----------------------------------------------------------------------------

\* The buffer is the end of what was fed, and no word of a line that
\* parser_pop_next returns is empty.
THEOREM TypeCorrect == Spec => []TypeOK
<1>1. ParserInv => TypeOK
  <2>1. SUFFICES ASSUME ParserInv PROVE TypeOK
    OBVIOUS
  <2>2. IsSuffix(buffer, fed)
    BY <2>1, SuffixOfRest DEF ParserInv
  <2>3. ASSUME NEW i \in DOMAIN popped, popped[i].line # <<>>, NEW j \in DOMAIN popped[i].line[1]
        PROVE  <<>> \notin Range(popped[i].line[1][j].words)
    <3>1. PICK r \in Results : r = popped[i]
      BY <2>1 DEF ParserInv
    <3>2. PICK e \in Seq(Exprs) : e = r.line[1]
      BY <2>3, <3>1, ResultFacts
    <3>3. e[j] \in Exprs
      BY <2>3, <3>1, <3>2
    <3>4. PICK w \in Seq(Words) : w = e[j].words
      BY <3>3 DEF Exprs
    <3>5. <<>> \notin Words
      BY DEF Words
    <3>6. <<>> \notin Range(w)
      BY <3>5 DEF Range
    <3> QED
      BY <3>1, <3>2, <3>4, <3>6
  <2> QED
    BY <2>1, <2>2, <2>3 DEF TypeOK, ParserInv
<1> QED
  BY <1>1, ParserInvariance, PTL

\* Every line that parser_pop_next returns is commands with one operator between
\* any two of them, whatever bytes were fed.
THEOREM LinesAreSound == Spec => []LinesAlternate
<1>1. ParserInv /\ TypeOK => LinesAlternate
  <2>1. SUFFICES ASSUME ParserInv, TypeOK PROVE LinesAlternate
    OBVIOUS
  <2>2. ASSUME NEW i \in DOMAIN popped, popped[i].line # <<>>
        PROVE  LET exprs == popped[i].line[1] IN
               /\ Len(exprs) % 2 = 1
               /\ \A j \in DOMAIN exprs : (exprs[j].type = "COMMAND") <=> (j % 2 = 1)
    <3>1. popped[i] \in Results
      BY <2>1 DEF ParserInv
    <3> QED
      BY <2>2, <3>1, ResultFacts DEF Alternate
  <2> QED
    BY <2>1, <2>2 DEF LinesAlternate
<1> QED
  BY <1>1, ParserInvariance, TypeCorrect, PTL

\* The lines that pops have returned, and those they can still return, are the
\* lines of all bytes fed at once, however they were cut.
THEOREM ChunksAreIrrelevant == Spec => []ChunksDoNotMatter
<1>1. ParserInv => ChunksDoNotMatter
  <2>1. SUFFICES ASSUME ParserInv PROVE ChunksDoNotMatter
    OBVIOUS
  <2>2. fed \in Seq(Bytes) /\ buffer \in Seq(Bytes) /\ <<>> \in Seq(Bytes)
    BY <2>1, BufferFacts
  <2>3. fed \o <<>> = fed /\ buffer \o <<>> = buffer
    BY <2>2, ConcatEmptySeq
  <2>4. popped \o (IF Running THEN AllPopped(buffer \o <<>>) ELSE <<>>) = AllPopped(fed \o <<>>)
    BY <2>1, <2>2 DEF ParserInv, Consistent
  <2> QED
    BY <2>3, <2>4 DEF ChunksDoNotMatter
<1> QED
  BY <1>1, ParserInvariance, PTL

\* A pop consumes the bytes of one line: what it leaves out after an error ends
\* with that line's end, but for the redirect with a bad argument.
THEOREM PopsTakeOneLine == Spec => PopTakesOneLine
<1> DEFINE A == (popped' # popped /\ Last(popped').error \notin {"ABORT", "OUTOUT_REDIRECT_BAD_ARG"}) =>
        LET toks == Tokens(SubSeq(buffer, 1, Len(buffer) - Len(buffer')))
            Ends == {i \in DOMAIN toks : toks[i].type = "NEW_LINE"}
        IN  \A i \in DOMAIN toks : i \in Ends <=> (i = Len(toks) \/ 1 .. i \subseteq Ends)
<1>1. ParserInv /\ [Next]_vars => [A]_vars
  <2>1. SUFFICES ASSUME ParserInv, Next, popped' # popped,
                        Last(popped').error \notin {"ABORT", "OUTOUT_REDIRECT_BAD_ARG"}
                 PROVE  LET toks == Tokens(SubSeq(buffer, 1, Len(buffer) - Len(buffer')))
                            Ends == {i \in DOMAIN toks : toks[i].type = "NEW_LINE"}
                        IN  \A i \in DOMAIN toks : i \in Ends <=> (i = Len(toks) \/ 1 .. i \subseteq Ends)
    OBVIOUS
  <2>2. PopLine
    BY <2>1 DEF Next, Feed
  <2>3. buffer \in Seq(Bytes) /\ popped \in Seq(Results)
    BY <2>1, BufferFacts DEF ParserInv
  <2>4. PICK g \in Lines : g = Line(buffer) /\ g.phase \in Final
    <3>1. <<>> \in Seq(Bytes)
      OBVIOUS
    <3> QED
      BY <2>2, <2>3, <3>1, LineStable DEF PopLine, Final
  <2>5. Last(popped') = Returned(g)
    <3>1. popped' = Append(popped, Returned(g))
      BY <2>2, <2>4 DEF PopLine
    <3> QED
      BY <2>3, <3>1 DEF Last
  <2>6. g.phase = "ended" /\ g.error # "OUTOUT_REDIRECT_BAD_ARG"
    BY <2>1, <2>4, <2>5, ReturnedFacts DEF Final
  <2>7. PICK u \in 1 .. Len(buffer) : u = g.used
    BY <2>3, <2>4, <2>6, ConsumedLine
  <2>8. Len(buffer) - Len(buffer') = u
    <3>1. buffer' = Rest(buffer, u)
      BY <2>2, <2>4, <2>6, <2>7 DEF PopLine
    <3>2. u \in 0 .. Len(buffer)
      OBVIOUS
    <3>3. Len(buffer') = Len(buffer) - u
      BY <2>3, <3>1, <3>2, RestFacts
    <3> QED
      BY <2>3, <3>3
  <2>9. PICK toks \in Seq(FoundTokens) : /\ toks = Tokens(SubSeq(buffer, 1, Len(buffer) - Len(buffer')))
                                    /\ Len(toks) >= 1 /\ NewLine(toks, Len(toks))
                                    /\ OnlyAtTheFront(toks, Len(toks) - 1)
    BY <2>3, <2>4, <2>6, <2>7, <2>8, ConsumedLine DEF Prefix
  <2> DEFINE Ends == {i \in DOMAIN toks : toks[i].type = "NEW_LINE"}
  <2>10. ASSUME NEW i \in DOMAIN toks PROVE i \in Ends <=> (i = Len(toks) \/ 1 .. i \subseteq Ends)
    <3>1. i \in 1 .. Len(toks) /\ i \in 1 .. i
      OBVIOUS
    <3>2. Len(toks) \in Ends
      BY <2>9 DEF NewLine
    <3>3. ASSUME i \in Ends, i # Len(toks) PROVE 1 .. i \subseteq Ends
      <4>1. i \in 1 .. Len(toks) - 1
        BY <3>1, <3>3
      <4>2. \A j \in 1 .. i : toks[j].type = "NEW_LINE"
        BY <2>9, <3>3, <4>1 DEF OnlyAtTheFront, NewLine
      <4>3. \A j \in 1 .. i : j \in DOMAIN toks
        BY <3>1
      <4> QED
        BY <4>2, <4>3
    <3> QED
      BY <3>1, <3>2, <3>3
  <2> QED
    BY <2>9, <2>10
<1> QED
  BY <1>1, ParserInvariance, PTL DEF Spec, PopTakesOneLine
=============================================================================
