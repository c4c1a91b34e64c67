---------------------------- MODULE UserFSDataProofs ----------------------------
(***************************************************************************)
(* Proofs about the data of a file, module UserFSData, for any size of a   *)
(* block and of the file and any number of descriptors: the blocks are     *)
(* packed, and reads and writes by blocks are those of FlatFile.           *)
(* BlocksArePacked is its own inductive invariant.                         *)
(***************************************************************************)
EXTENDS UserFSDataProperties, SequenceTheorems, NaturalsInduction, WellFoundedInduction, TLAPS

-----------------------------------------------------------------------------
(* Blocks and offsets *)

LEMMA DivMod ==
    ASSUME NEW B \in Nat \ {0}, NEW n \in Nat
    PROVE  /\ n \div B \in Nat /\ n % B \in Nat /\ n % B < B
           /\ n = B * (n \div B) + (n % B)
  OBVIOUS

LEMMA DivModIs ==
    ASSUME NEW B \in Nat \ {0}, NEW k \in Nat, NEW r \in Nat, r < B
    PROVE  (B * k + r) \div B = k /\ (B * k + r) % B = r
  OBVIOUS

\* A block with a lower number ends before one with a higher one begins.
LEMMA BlocksInOrder ==
    ASSUME NEW B \in Nat \ {0}
    PROVE  /\ \A k \in Int : B * k \in Int /\ B * (k + 1) = B * k + B /\ B * (k - 1) = B * k - B
           /\ \A j \in Int, k \in Int : j < k => B * j + B <= B * k
<1>1. \A k \in Int : B * k \in Int /\ B * (k + 1) = B * k + B /\ B * (k - 1) = B * k - B
  OBVIOUS
<1>2. ASSUME NEW j \in Int, NEW k \in Int, j < k PROVE B * j + B <= B * k
  <2> PICK m \in Nat : k = j + 1 + m
    <3>1. k - j - 1 \in Nat /\ k = j + 1 + (k - j - 1)
      BY <1>2
    <3> QED
      BY <3>1
  <2>1. B * k = B * j + B + B * m
    OBVIOUS
  <2>2. B * m \in Nat
    OBVIOUS
  <2> QED
    BY <2>1, <2>2, <1>1
<1> QED
  BY <1>1, <1>2

\* A nonempty set of numbers has a least one.
LEMMA LeastNumber ==
    ASSUME NEW S \in SUBSET Nat, S # {}
    PROVE  \E m \in S : \A n \in S : m <= n
<1>1. \E m \in S : \A n \in S : ~(<<n, m>> \in OpToRel(<, Nat))
  BY NatLessThanWellFounded, WFMin
<1>2. ASSUME NEW m \in S, NEW n \in S, ~(<<n, m>> \in OpToRel(<, Nat)) PROVE m <= n
  <2>1. ~(<<n, m>>[1] < <<n, m>>[2])
    BY <1>2 DEF OpToRel
  <2> QED
    BY <2>1
<1> QED
  BY <1>1, <1>2

\* Sequences as functions.
LEMMA AsFunction ==
    ASSUME NEW S, NEW w \in Seq(S), NEW m \in Nat, Len(w) = m
    PROVE  w = [j \in 1 .. m |-> w[j]]
  OBVIOUS

LEMMA Concat ==
    ASSUME NEW S, NEW u \in Seq(S), NEW v \in Seq(S), NEW m \in Nat, m = Len(u) + Len(v)
    PROVE  u \o v = [j \in 1 .. m |-> IF j <= Len(u) THEN u[j] ELSE v[j - Len(u)]]
<1>1. \A j \in 1 .. Len(u) + Len(v) : (u \o v)[j] = IF j <= Len(u) THEN u[j] ELSE v[j - Len(u)]
  OBVIOUS
<1>2. u \o v \in Seq(S) /\ Len(u \o v) = Len(u) + Len(v)
  OBVIOUS
<1> PICK w : w = u \o v
  OBVIOUS
<1>3. w = [j \in 1 .. m |-> w[j]]
  <2>1. w \in Seq(S) /\ Len(w) = m
    BY <1>2
  <2> QED
    BY <2>1, AsFunction, ZenonT(60)
<1> QED
  BY <1>1, <1>3

LEMMA ConcatOfFunctions ==
    ASSUME NEW m \in Nat, NEW n \in Nat, NEW u, NEW v,
           u = [j \in 1 .. m |-> u[j]], v = [j \in 1 .. n |-> v[j]]
    PROVE  u \o v = [j \in 1 .. m + n |-> IF j <= m THEN u[j] ELSE v[j - m]]
<1> PICK S : S = {u[j] : j \in 1 .. m} \cup {v[j] : j \in 1 .. n}
  OBVIOUS
<1>1. u \in [1 .. m -> S] /\ v \in [1 .. n -> S]
  OBVIOUS
<1>2. /\ u \in Seq(S) /\ Len(u) = m
      /\ v \in Seq(S) /\ Len(v) = n
  <2>1. ASSUME NEW k \in Nat, NEW w \in [1 .. k -> S] PROVE w \in Seq(S) /\ Len(w) = k
    BY SMTT(60)
  <2> QED
    BY <1>1, <2>1
<1>3. m + n \in Nat /\ m + n = Len(u) + Len(v)
  BY <1>2
<1> QED
  BY <1>2, <1>3, Concat, SMTT(60)

\* Full pieces one after the other, the last one perhaps shorter.
Pieces(s, B, X) ==
    /\ s \in Seq(Seq(X)) /\ B \in Nat \ {0}
    /\ \A i \in DOMAIN s : Len(s[i]) <= B
    /\ \A i \in DOMAIN s : i < Len(s) => Len(s[i]) = B

UpTo(s, B, i) ==
    [j \in 1 .. B * (i - 1) + Len(s[i]) |-> s[(j - 1) \div B + 1][((j - 1) % B) + 1]]

LEMMA OnePieceMore ==
    ASSUME NEW X, NEW s, NEW B, Pieces(s, B, X), NEW i \in 2 .. Len(s)
    PROVE  UpTo(s, B, i) = UpTo(s, B, i - 1) \o s[i]
<1>1. /\ s \in Seq(Seq(X)) /\ B \in Nat \ {0} /\ Len(s) \in Nat /\ DOMAIN s = 1 .. Len(s)
      /\ s[i] \in Seq(X) /\ s[i - 1] \in Seq(X) /\ Len(s[i - 1]) = B /\ Len(s[i]) <= B
      /\ Len(s[i]) \in Nat
  BY DEF Pieces
<1> PICK n \in Nat : n = Len(s[i])
  BY <1>1
<1> PICK m \in Nat : m = B * (i - 1)
  BY <1>1
<1> PICK u : u = UpTo(s, B, i - 1)
  OBVIOUS
<1> PICK v : v = s[i]
  OBVIOUS
<1>2. B * ((i - 1) - 1) + B = m
  BY <1>1
<1>3. /\ u = [j \in 1 .. m |-> s[(j - 1) \div B + 1][((j - 1) % B) + 1]]
      /\ UpTo(s, B, i) = [j \in 1 .. m + n |-> s[(j - 1) \div B + 1][((j - 1) % B) + 1]]
  BY <1>1, <1>2 DEF UpTo
<1>4. u \o v = [j \in 1 .. m + n |-> IF j <= m THEN u[j] ELSE v[j - m]]
  <2>1. u = [j \in 1 .. m |-> u[j]] /\ v = [j \in 1 .. n |-> v[j]]
    BY <1>1, <1>3, SMTT(60)
  <2> QED
    BY ONLY <2>1, m \in Nat, n \in Nat, ConcatOfFunctions, SMTT(60)
<1>5. ASSUME NEW j \in 1 .. m + n, ~(j <= m)
      PROVE  (j - 1) \div B = i - 1 /\ (j - 1) % B = j - 1 - m
  <2> PICK k \in Nat : k = i - 1
    OBVIOUS
  <2> PICK r \in Nat : r = j - 1 - m /\ r < B
    BY <1>1, <1>5
  <2>1. j - 1 = B * k + r
    OBVIOUS
  <2>2. (B * k + r) \div B = k /\ (B * k + r) % B = r
    BY <1>1, DivModIs
  <2> QED
    BY <2>1, <2>2
<1>6. ASSUME NEW j \in 1 .. m + n
      PROVE  s[(j - 1) \div B + 1][((j - 1) % B) + 1] = IF j <= m THEN u[j] ELSE v[j - m]
  <2>1. CASE j <= m
    <3>1. j \in 1 .. m
      BY <2>1
    <3> QED
      BY <1>3, <2>1, <3>1
  <2>2. CASE ~(j <= m)
    <3>1. (j - 1) \div B + 1 = i /\ ((j - 1) % B) + 1 = j - m
      BY <1>5, <2>2, SMTT(60)
    <3> QED
      BY <2>2, <3>1
  <2> QED
    BY <2>1, <2>2
<1>7. UpTo(s, B, i) = u \o v
  <2> PICK f : f = UpTo(s, B, i)
    OBVIOUS
  <2> PICK g : g = u \o v
    OBVIOUS
  <2>1. f = [j \in 1 .. m + n |-> f[j]] /\ g = [j \in 1 .. m + n |-> g[j]]
    BY <1>3, <1>4
  <2>2. \A j \in 1 .. m + n : f[j] = g[j]
    BY <1>3, <1>4, <1>6, ZenonT(120)
  <2> QED
    BY <2>1, <2>2, Zenon
<1> QED
  BY <1>7

LEMMA FirstPiece ==
    ASSUME NEW X, NEW s, NEW B, Pieces(s, B, X), Len(s) # 0
    PROVE  UpTo(s, B, 1) = s[1]
<1>1. /\ s \in Seq(Seq(X)) /\ B \in Nat \ {0} /\ Len(s) \in Nat /\ DOMAIN s = 1 .. Len(s)
      /\ s[1] \in Seq(X) /\ Len(s[1]) <= B /\ Len(s[1]) \in Nat
  BY DEF Pieces
<1>2. UpTo(s, B, 1)
        = [j \in 1 .. Len(s[1]) |-> s[(j - 1) \div B + 1][((j - 1) % B) + 1]]
  <2>1. 1 - 1 = 0 /\ B * 0 = 0 /\ 0 + Len(s[1]) = Len(s[1])
    BY <1>1
  <2> QED
    BY <2>1 DEF UpTo
<1>3. ASSUME NEW j \in 1 .. Len(s[1])
      PROVE  (j - 1) \div B + 1 = 1 /\ ((j - 1) % B) + 1 = j
  <2> PICK r \in Nat : r = j - 1 /\ r < B
    BY <1>1
  <2>1. (B * 0 + r) \div B = 0 /\ (B * 0 + r) % B = r
    BY <1>1, DivModIs
  <2>2. B * 0 + r = r
    BY <1>1
  <2>3. r \div B = 0 /\ r % B = r
    BY <2>1, <2>2
  <2> QED
    BY <2>3
<1>4. ASSUME NEW j \in 1 .. Len(s[1])
      PROVE  s[(j - 1) \div B + 1][((j - 1) % B) + 1] = s[1][j]
  BY <1>3
<1>5. s[1] = [j \in 1 .. Len(s[1]) |-> s[1][j]]
  BY <1>1
<1> QED
  BY <1>2, <1>4, <1>5

\* What FlattenSeq makes of the pieces.
LEMMA Flattened ==
    ASSUME NEW X, NEW s, NEW B, Pieces(s, B, X), Len(s) # 0
    PROVE  FlattenSeq(s) = UpTo(s, B, Len(s))
<1>1. Len(s) \in Nat /\ DOMAIN s = 1 .. Len(s)
  BY DEF Pieces
<1> DEFINE G == [i \in 1 .. Len(s) |-> UpTo(s, B, i)]
<1>2. G = [i \in 1 .. Len(s) |-> IF i = 1 THEN s[i] ELSE G[i - 1] \o s[i]]
  <2>1. ASSUME NEW i \in 1 .. Len(s)
        PROVE  UpTo(s, B, i) = IF i = 1 THEN s[i] ELSE G[i - 1] \o s[i]
    <3>1. CASE i = 1
      BY <3>1, FirstPiece
    <3>2. CASE i # 1
      <4>1. i \in 2 .. Len(s) /\ i - 1 \in 1 .. Len(s)
        BY <1>1, <3>2
      <4> QED
        BY <3>2, <4>1, OnePieceMore
    <3> QED
      BY <3>1, <3>2
  <2> QED
    BY <2>1
<1> HIDE DEF G
<1>3. PICK f : /\ f = [i \in 1 .. Len(s) |-> IF i = 1 THEN s[i] ELSE f[i - 1] \o s[i]]
               /\ FlattenSeq(s) = f[Len(s)]
  BY <1>2 DEF FlattenSeq
<1> DEFINE D == {i \in 1 .. Len(s) : f[i] # G[i]}
<1>4. CASE D # {}
  <2>1. D \in SUBSET Nat
    OBVIOUS
  <2>2. PICK m \in D : \A n \in D : m <= n
    BY <1>4, <2>1, LeastNumber
  <2>3. CASE m = 1
    BY <1>2, <1>3, <2>3
  <2>4. CASE m # 1
    <3>1. m - 1 \in 1 .. Len(s) /\ m - 1 \notin D
      BY <1>1, <2>2, <2>4
    <3>2. f[m - 1] = G[m - 1]
      BY <3>1
    <3>3. f[m] = f[m - 1] \o s[m] /\ G[m] = G[m - 1] \o s[m]
      BY <1>2, <1>3, <2>4, ZenonT(60)
    <3>4. f[m] # G[m]
      OBVIOUS
    <3> QED
      BY <3>2, <3>3, <3>4
  <2> QED
    BY <2>3, <2>4
<1>5. CASE D = {}
  <2>1. Len(s) \in 1 .. Len(s)
    BY <1>1
  <2> HIDE DEF D
  <2>2. f[Len(s)] = G[Len(s)]
    BY <1>5, <2>1 DEF D
  <2>3. G[Len(s)] = UpTo(s, B, Len(s))
    BY <2>1 DEF G
  <2> QED
    BY <1>3, <2>2, <2>3
<1> QED
  BY <1>4, <1>5

-----------------------------------------------------------------------------
(* A list of blocks as one array of bytes *)

\* The blocks hold this many bytes, without a gap and all of them written.
PackedTo(bs, size) ==
    /\ bs \in Seq(Blocks) /\ size \in Nat
    /\ BlockSize * (Len(bs) - 1) < size \/ (bs = <<>> /\ size = 0)
    /\ size <= BlockSize * Len(bs)
    /\ \A k \in DOMAIN bs :
         /\ bs[k].occupied = Least(BlockSize, size - BlockSize * (k - 1))
         /\ \A i \in 1 .. bs[k].occupied : bs[k].memory[i] # Junk

\* Byte i of the file, as file_write finds it.
ByteAt(bs, i) == bs[(i - 1) \div BlockSize + 1].memory[((i - 1) % BlockSize) + 1]

LEMMA Sizes == BlockSize \in Nat \ {0} /\ MaxFileSize \in Nat /\ MaxCall \in Nat /\ Junk \notin Bytes
BY UserFSDataAssumption

LEMMA BlocksAreTyped ==
    ASSUME NEW bs \in Seq(Blocks), NEW k \in DOMAIN bs
    PROVE  /\ bs[k] \in Blocks /\ k \in 1 .. Len(bs) /\ Len(bs) \in Nat
           /\ bs[k].occupied \in 0 .. BlockSize
           /\ bs[k].memory \in [1 .. BlockSize -> Bytes \cup {Junk}]
<1>1. bs[k] \in Blocks /\ k \in 1 .. Len(bs) /\ Len(bs) \in Nat
  OBVIOUS
<1> QED
  BY <1>1 DEF Blocks

\* What BlocksArePacked says of the blocks is that they are packed to Size.
SizeOf(bs) == IF bs = <<>> THEN 0 ELSE BlockSize * (Len(bs) - 1) + Last(bs).occupied

PackedBlocks(bs) ==
    \A k \in DOMAIN bs :
        /\ k < Len(bs) => bs[k].occupied = BlockSize
        /\ bs[k].occupied > 0
        /\ \A i \in 1 .. bs[k].occupied : bs[k].memory[i] # Junk

LEMMA PackedToSize ==
    ASSUME NEW bs \in Seq(Blocks), PackedBlocks(bs)
    PROVE  PackedTo(bs, SizeOf(bs))
<1>1. CASE bs = <<>>
  <2>1. SizeOf(bs) = 0 /\ Len(bs) = 0 /\ DOMAIN bs = {}
    BY <1>1 DEF SizeOf
  <2>2. BlockSize * Len(bs) = 0
    BY <2>1, Sizes
  <2> QED
    BY <1>1, <2>1, <2>2 DEF PackedTo
<1>2. CASE bs # <<>>
  <2> PICK L \in Nat \ {0} : L = Len(bs) /\ L \in DOMAIN bs /\ DOMAIN bs = 1 .. L
    BY <1>2
  <2> PICK o \in 1 .. BlockSize : o = bs[L].occupied
    BY BlocksAreTyped, Sizes DEF PackedBlocks
  <2>1. SizeOf(bs) = BlockSize * (L - 1) + o
    BY <1>2 DEF SizeOf, Last
  <2>2. /\ BlockSize * (L - 1) \in Nat /\ BlockSize * L = BlockSize * (L - 1) + BlockSize
    BY Sizes
  <2>3. SizeOf(bs) \in Nat /\ BlockSize * (L - 1) < SizeOf(bs) /\ SizeOf(bs) <= BlockSize * L
    BY <2>1, <2>2, Sizes
  <2>4. ASSUME NEW k \in DOMAIN bs
        PROVE  /\ bs[k].occupied = Least(BlockSize, SizeOf(bs) - BlockSize * (k - 1))
               /\ \A i \in 1 .. bs[k].occupied : bs[k].memory[i] # Junk
    <3>1. CASE k = L
      <4>1. SizeOf(bs) - BlockSize * (k - 1) = o
        BY <2>1, <2>2, <3>1
      <4> QED
        BY <3>1, <4>1, Sizes DEF PackedBlocks, Least
    <3>2. CASE k < L
      <4>1. bs[k].occupied = BlockSize /\ \A i \in 1 .. bs[k].occupied : bs[k].memory[i] # Junk
        <5>1. k < Len(bs)
          BY ONLY <3>2, L = Len(bs)
        <5> QED
          BY ONLY <5>1, PackedBlocks(bs), k \in DOMAIN bs DEF PackedBlocks
      <4>2. BlockSize * (k - 1) + BlockSize <= BlockSize * (L - 1)
        <5>1. k - 1 \in Int /\ L - 1 \in Int /\ k - 1 < L - 1
          BY <3>2
        <5> QED
          BY ONLY <5>1, Sizes, BlocksInOrder, ZenonT(60)
      <4>3. BlockSize * (k - 1) \in Int
        BY Sizes, BlocksInOrder
      <4>4. BlockSize < SizeOf(bs) - BlockSize * (k - 1)
        <5> PICK x \in Int : x = BlockSize * (k - 1)
          BY ONLY <4>3, Zenon
        <5> PICK y \in Nat : y = BlockSize * (L - 1)
          BY ONLY <2>2, Zenon
        <5> PICK z \in Nat : z = SizeOf(bs)
          BY ONLY <2>3, Zenon
        <5>1. x + BlockSize <= y /\ y < z
          BY <2>3, <4>2, Zenon
        <5>2. BlockSize < z - x
          BY ONLY x \in Int, y \in Nat, z \in Nat, Sizes, <5>1
        <5> QED
          BY <5>2, Zenon
      <4> QED
        BY <4>1, <4>4 DEF Least
    <3> QED
      BY <2>4, <3>1, <3>2
  <2> QED
    BY <2>3, <2>4 DEF PackedTo
<1> QED
  BY <1>1, <1>2

LEMMA SizeIsPacked ==
    ASSUME NEW bs, NEW size, PackedTo(bs, size)
    PROVE  bs \in Seq(Blocks) /\ PackedBlocks(bs) /\ SizeOf(bs) = size
<1>0. bs \in Seq(Blocks) /\ size \in Nat
  BY DEF PackedTo
<1>1. CASE bs = <<>>
  <2>1. size = 0 /\ DOMAIN bs = {} /\ Len(bs) = 0
    BY <1>1, Sizes DEF PackedTo
  <2> QED
    BY <1>0, <1>1, <2>1 DEF PackedBlocks, SizeOf
<1>2. CASE bs # <<>>
  <2> PICK L \in Nat \ {0} : L = Len(bs) /\ L \in DOMAIN bs /\ DOMAIN bs = 1 .. L
    BY <1>0, <1>2
  <2>1. /\ BlockSize * (L - 1) < size /\ size <= BlockSize * L
        /\ BlockSize * (L - 1) \in Nat /\ BlockSize * L = BlockSize * (L - 1) + BlockSize
    <3>1. BlockSize * (L - 1) < size /\ size <= BlockSize * L
      BY <1>2 DEF PackedTo
    <3>2. BlockSize * (L - 1) \in Nat /\ BlockSize * L = BlockSize * (L - 1) + BlockSize
      BY Sizes
    <3> QED
      BY <3>1, <3>2
  <2>2. bs[L].occupied = size - BlockSize * (L - 1)
    <3>1. bs[L].occupied = Least(BlockSize, size - BlockSize * (L - 1))
      BY DEF PackedTo
    <3>2. ~(BlockSize < size - BlockSize * (L - 1))
      BY <1>0, <2>1, Sizes
    <3> QED
      BY <3>1, <3>2 DEF Least
  <2>3. SizeOf(bs) = size
    BY <1>0, <1>2, <2>1, <2>2 DEF SizeOf, Last
  <2>4. ASSUME NEW k \in DOMAIN bs
        PROVE  /\ k < L => bs[k].occupied = BlockSize
               /\ bs[k].occupied > 0
               /\ \A i \in 1 .. bs[k].occupied : bs[k].memory[i] # Junk
    <3>1. /\ bs[k].occupied = Least(BlockSize, size - BlockSize * (k - 1))
          /\ \A i \in 1 .. bs[k].occupied : bs[k].memory[i] # Junk
      BY DEF PackedTo
    <3>2. CASE k = L
      BY <1>0, <2>1, <2>2, <3>1, <3>2
    <3>3. CASE k < L
      <4>1. BlockSize * (k - 1) + BlockSize <= BlockSize * (L - 1)
        BY <3>3, Sizes, BlocksInOrder, SMTT(60)
      <4>2. BlockSize * (k - 1) \in Int
        BY Sizes, BlocksInOrder
      <4>3. BlockSize < size - BlockSize * (k - 1)
        BY <1>0, <2>1, <4>1, <4>2, Sizes, SMTT(60)
      <4> QED
        BY <3>1, <4>3, Sizes DEF Least
    <3> QED
      BY <3>2, <3>3
  <2> QED
    BY <1>0, <2>3, <2>4 DEF PackedBlocks
<1> QED
  BY <1>1, <1>2

-----------------------------------------------------------------------------
(* file_write *)

LEMMA FreshIsTyped ==
    Fresh \in Blocks /\ Fresh.occupied = 0
<1>1. [i \in 1 .. BlockSize |-> Junk] \in [1 .. BlockSize -> Bytes \cup {Junk}]
  OBVIOUS
<1> QED
  BY <1>1, Sizes DEF Fresh, Blocks

\* The block that a write finds at this place, or appends there.
OldBlock(k) == IF k < Len(blocks) THEN blocks[k + 1] ELSE Fresh

LEMMA OldIsTyped ==
    ASSUME blocks \in Seq(Blocks), NEW k \in Nat
    PROVE  /\ OldBlock(k) \in Blocks /\ OldBlock(k).occupied \in 0 .. BlockSize
           /\ OldBlock(k).memory \in [1 .. BlockSize -> Bytes \cup {Junk}]
<1>1. k < Len(blocks) => k + 1 \in DOMAIN blocks
  OBVIOUS
<1>2. OldBlock(k) \in Blocks
  BY <1>1, FreshIsTyped DEF OldBlock
<1> QED
  BY <1>2 DEF Blocks

\* Lines 199-205: the blocks between which a write begins and ends.
LEMMA TouchedBlocks ==
    ASSUME NEW at \in Nat, NEW n \in Nat \ {0}, NEW first, NEW last,
           first = at \div BlockSize, last = (at + n - 1) \div BlockSize
    PROVE  /\ first \in Nat /\ last \in Nat /\ first <= last
           /\ BlockSize * first <= at /\ at < BlockSize * first + BlockSize
           /\ at % BlockSize = at - BlockSize * first
           /\ BlockSize * last < at + n /\ at + n <= BlockSize * last + BlockSize
<1>0. first \in Nat /\ last \in Nat
  <2>1. at + n - 1 \in Nat
    OBVIOUS
  <2> QED
    BY <2>1, Sizes, DivMod
<1>1. /\ at % BlockSize \in Nat /\ at % BlockSize < BlockSize
      /\ at = BlockSize * first + (at % BlockSize)
  BY Sizes, DivMod
<1>2. /\ (at + n - 1) % BlockSize \in Nat /\ (at + n - 1) % BlockSize < BlockSize
      /\ at + n - 1 = BlockSize * last + ((at + n - 1) % BlockSize)
  <2>1. at + n - 1 \in Nat
    OBVIOUS
  <2> QED
    BY <2>1, Sizes, DivMod
<1>3. BlockSize * first \in Int /\ BlockSize * last \in Int /\ BlockSize \in Int
  BY <1>0, Sizes, BlocksInOrder
<1>4. /\ BlockSize * first <= at /\ at < BlockSize * first + BlockSize
      /\ at % BlockSize = at - BlockSize * first
  BY <1>1, <1>3
<1>5. BlockSize * last < at + n /\ at + n <= BlockSize * last + BlockSize
  BY <1>0, <1>2, <1>3
<1>6. first <= last
  <2> SUFFICES ASSUME last < first PROVE FALSE
    OBVIOUS
  <2>1. BlockSize * last + BlockSize <= BlockSize * first
    BY <1>0, Sizes, BlocksInOrder
  <2> QED
    BY <2>1, <1>3, <1>4, <1>5
<1> QED
  BY <1>0, <1>4, <1>5, <1>6

\* Lines 207-229: what a write leaves in one of these blocks.
LEMMA FilledIs ==
    ASSUME blocks \in Seq(Blocks), NEW at \in Nat, NEW n \in Nat \ {0},
           NEW buf \in [1 .. n -> Bytes],
           NEW k \in (at \div BlockSize) .. ((at + n - 1) \div BlockSize)
    PROVE  /\ Filled(at, k, buf).occupied
                = Most(Least(BlockSize, at + n - BlockSize * k), OldBlock(k).occupied)
           /\ Filled(at, k, buf).memory \in [1 .. BlockSize -> Bytes \cup {Junk}]
           /\ \A i \in 1 .. BlockSize :
                Filled(at, k, buf).memory[i]
                  = IF at < BlockSize * k + i /\ BlockSize * k + i <= at + n
                    THEN buf[BlockSize * k + i - at] ELSE OldBlock(k).memory[i]
<1> PICK first : first = at \div BlockSize
  OBVIOUS
<1> PICK last : last = (at + n - 1) \div BlockSize
  OBVIOUS
<1>0. k \in first .. last
  OBVIOUS
<1>1. /\ first \in Nat /\ last \in Nat
      /\ BlockSize * first <= at /\ at < BlockSize * first + BlockSize
      /\ at % BlockSize = at - BlockSize * first
      /\ BlockSize * last < at + n /\ k \in Nat /\ first <= k /\ k <= last
  <2>1. /\ first \in Nat /\ last \in Nat
        /\ BlockSize * first <= at /\ at < BlockSize * first + BlockSize
        /\ at % BlockSize = at - BlockSize * first
        /\ BlockSize * last < at + n
    BY ONLY at \in Nat, n \in Nat \ {0}, first = at \div BlockSize,
            last = (at + n - 1) \div BlockSize, TouchedBlocks
  <2>2. k \in Nat /\ first <= k /\ k <= last
    BY ONLY <1>0, <2>1
  <2> QED
    BY ONLY <2>1, <2>2
<1>2. /\ BlockSize * k \in Int /\ BlockSize * last \in Int /\ BlockSize * first \in Int
      /\ BlockSize \in Nat \ {0}
  BY <1>1, Sizes, BlocksInOrder
<1>3. BlockSize * k < at + n
  <2>1. k < last => BlockSize * k + BlockSize <= BlockSize * last
    BY <1>1, Sizes, BlocksInOrder, SMTT(60)
  <2> QED
    BY <1>1, <1>2, <2>1, SMTT(60)
<1>4. k # first => at < BlockSize * k
  <2>1. k # first => BlockSize * first + BlockSize <= BlockSize * k
    BY <1>1, Sizes, BlocksInOrder, SMTT(60)
  <2> QED
    BY <1>1, <1>2, <2>1
<1>5. at < BlockSize * k + BlockSize
  BY <1>1, <1>2, <1>4
<1> PICK b \in Int : b = BlockSize * k
  BY <1>2
<1> PICK offset : offset = Offset(at, k)
  OBVIOUS
<1> PICK copied : copied = Copied(at, k)
  OBVIOUS
<1> PICK end : end = offset + ToCopy(at, k, n)
  OBVIOUS
<1>6. offset \in 0 .. BlockSize - 1 /\ copied = b + offset - at /\ copied \in Nat
  <2>1. CASE k = first
    <3>1. offset = at - b /\ copied = 0
      BY <1>1, <2>1 DEF Offset, Copied
    <3> QED
      BY <3>1, <1>1, <1>2, <2>1
  <2>2. CASE k # first
    <3>1. offset = 0 /\ copied = b - at
      BY <2>2 DEF Offset, Copied
    <3> QED
      BY <3>1, <1>2, <1>4, <2>2
  <2> QED
    BY <2>1, <2>2
<1>7. end = Least(BlockSize, at + n - b) /\ end \in Int
  <2>1. end = offset + Least(BlockSize - offset, n - copied)
    BY DEF ToCopy
  <2>2. n - copied = at + n - b - offset
    BY ONLY <1>6, at \in Nat, n \in Nat, b \in Int
  <2>3. BlockSize \in Int /\ offset \in Int
    BY ONLY <1>2, <1>6
  <2>4. BlockSize - offset < n - copied <=> BlockSize < at + n - b
    BY ONLY <2>2, <2>3, at \in Nat, n \in Nat, b \in Int
  <2>5. CASE BlockSize < at + n - b
    <3>1. end = offset + (BlockSize - offset)
      BY <2>1, <2>4, <2>5 DEF Least
    <3>2. end = BlockSize
      BY ONLY <3>1, <2>3
    <3> QED
      BY ONLY <3>2, <2>5, <2>3 DEF Least
  <2>6. CASE ~(BlockSize < at + n - b)
    <3>1. end = offset + (n - copied)
      BY <2>1, <2>4, <2>6 DEF Least
    <3>2. end = at + n - b /\ end \in Int
      BY ONLY <3>1, <2>2, <2>3, at \in Nat, n \in Nat, b \in Int
    <3> QED
      BY ONLY <3>2, <2>6 DEF Least
  <2> QED
    BY <2>5, <2>6
<1>8. Len(buf) = n
  OBVIOUS
<1>9. Filled(at, k, buf) =
        [occupied |-> Most(end, OldBlock(k).occupied),
         memory |-> [i \in 1 .. BlockSize |->
            IF i \in (offset + 1) .. end THEN buf[copied + i - offset]
            ELSE OldBlock(k).memory[i]]]
  BY <1>8 DEF Filled, OldBlock, Occupied
<1>10. ASSUME NEW i \in 1 .. BlockSize
       PROVE  /\ i \in (offset + 1) .. end <=> at < b + i /\ b + i <= at + n
              /\ copied + i - offset = b + i - at
  <2>0. i \in Int /\ offset \in Int /\ BlockSize \in Int /\ i <= BlockSize /\ i > 0
    BY ONLY <1>2, <1>6, i \in 1 .. BlockSize
  <2>1. copied + i - offset = b + i - at
    BY ONLY <2>0, <1>6, at \in Nat, b \in Int
  <2>2. i <= end <=> b + i <= at + n
    BY ONLY <2>0, <1>7, at \in Nat, n \in Nat, b \in Int DEF Least
  <2>3. offset + 1 <= i <=> at < b + i
    <3>1. CASE k = first
      <4>1. offset = at - b
        <5>1. offset = at % BlockSize
          BY <3>1 DEF Offset
        <5> QED
          BY <5>1, <3>1, <1>1
      <4> QED
        BY ONLY <4>1, <2>0, at \in Nat, b \in Int
    <3>2. CASE k # first
      <4>1. offset = 0
        BY <3>2 DEF Offset
      <4>2. at < b
        BY <1>4, <3>2
      <4> QED
        BY ONLY <4>1, <4>2, <2>0, at \in Nat, b \in Int
    <3> QED
      BY <3>1, <3>2
  <2> QED
    BY <1>6, <1>7, <2>1, <2>2, <2>3
<1> PICK mem : mem = Filled(at, k, buf).memory
  OBVIOUS
<1>11. mem = [i \in 1 .. BlockSize |->
                IF i \in (offset + 1) .. end THEN buf[copied + i - offset]
                ELSE OldBlock(k).memory[i]]
  BY <1>9
<1>12. \A i \in 1 .. BlockSize :
         mem[i] = IF at < b + i /\ b + i <= at + n THEN buf[b + i - at] ELSE OldBlock(k).memory[i]
  BY ONLY <1>10, <1>11
<1>13. mem \in [1 .. BlockSize -> Bytes \cup {Junk}]
  <2>1. OldBlock(k).memory \in [1 .. BlockSize -> Bytes \cup {Junk}]
    BY <1>1, OldIsTyped
  <2>2. ASSUME NEW i \in 1 .. BlockSize, at < b + i, b + i <= at + n
        PROVE  buf[b + i - at] \in Bytes
    <3>1. b + i - at \in 1 .. n
      BY ONLY <1>2, <2>2, at \in Nat, b \in Int, n \in Nat \ {0}, i \in 1 .. BlockSize
    <3> QED
      BY <3>1
  <2>3. \A i \in 1 .. BlockSize : mem[i] \in Bytes \cup {Junk}
    BY ONLY <1>12, <2>1, <2>2
  <2> QED
    BY ONLY <1>11, <2>3
<1>14. Filled(at, k, buf).occupied = Most(Least(BlockSize, at + n - b), OldBlock(k).occupied)
  BY <1>7, <1>9
<1> QED
  BY ONLY <1>12, <1>13, <1>14, mem = Filled(at, k, buf).memory, b = BlockSize * k, Zenon

\* The blocks after a write.
Written(buf, at) ==
    LET touched == Touched(at, Len(buf))
        length == IF touched = {} THEN Len(blocks)
                  ELSE Most(Len(blocks), (at + Len(buf) - 1) \div BlockSize + 1)
    IN  [k \in 1 .. length |->
            IF k - 1 \in touched THEN Filled(at, k - 1, buf) ELSE blocks[k]]

LEMMA WriteLeaves ==
    ASSUME NEW buf, NEW at, file_write(buf, at)
    PROVE  blocks' = Written(buf, at)
BY DEF file_write, Written

LEMMA NothingWritten ==
    ASSUME blocks \in Seq(Blocks), NEW at \in Nat, NEW buf \in [1 .. 0 -> Bytes]
    PROVE  Written(buf, at) = blocks
<1>1. Len(buf) = 0
  OBVIOUS
<1>2. Written(buf, at) = [k \in 1 .. Len(blocks) |-> blocks[k]]
  BY <1>1 DEF Written, Touched
<1>3. blocks = [k \in 1 .. Len(blocks) |-> blocks[k]]
  OBVIOUS
<1> QED
  BY <1>2, <1>3

\* How full the block at this place is, and that it is full of bytes written.
LEMMA OldIsPacked ==
    ASSUME NEW size, PackedTo(blocks, size), NEW k \in Nat
    PROVE  /\ OldBlock(k).occupied = Most(0, Least(BlockSize, size - BlockSize * k))
           /\ \A i \in 1 .. BlockSize : BlockSize * k + i <= size =>
                /\ k < Len(blocks) /\ OldBlock(k) = blocks[k + 1]
                /\ OldBlock(k).memory[i] # Junk
<1>1. /\ blocks \in Seq(Blocks) /\ size \in Nat /\ Len(blocks) \in Nat
      /\ BlockSize * (Len(blocks) - 1) < size \/ (blocks = <<>> /\ size = 0)
      /\ size <= BlockSize * Len(blocks)
  BY DEF PackedTo
<1>2. BlockSize * k \in Int /\ BlockSize \in Nat \ {0} /\ BlockSize * (k + 1) = BlockSize * k + BlockSize
  BY Sizes, BlocksInOrder
<1>3. CASE k < Len(blocks)
  <2>1. k + 1 \in DOMAIN blocks /\ (k + 1) - 1 = k /\ OldBlock(k) = blocks[k + 1]
    BY <1>1, <1>3 DEF OldBlock
  <2>2. /\ blocks[k + 1].occupied = Least(BlockSize, size - BlockSize * k)
        /\ \A i \in 1 .. blocks[k + 1].occupied : blocks[k + 1].memory[i] # Junk
    <3>1. \A j \in DOMAIN blocks :
            /\ blocks[j].occupied = Least(BlockSize, size - BlockSize * (j - 1))
            /\ \A i \in 1 .. blocks[j].occupied : blocks[j].memory[i] # Junk
      BY DEF PackedTo
    <3> QED
      BY <2>1, <3>1
  <2>3. BlockSize * k < size
    <3>1. BlockSize * (Len(blocks) - 1) < size /\ BlockSize * (Len(blocks) - 1) \in Int
      BY <1>1, <1>3, Sizes, BlocksInOrder
    <3>2. k < Len(blocks) - 1 => BlockSize * k + BlockSize <= BlockSize * (Len(blocks) - 1)
      BY <1>1, Sizes, BlocksInOrder
    <3>3. k = Len(blocks) - 1 \/ k < Len(blocks) - 1
      BY <1>1, <1>3
    <3> QED
      BY <1>1, <1>2, <3>1, <3>2, <3>3
  <2>4. blocks[k + 1].occupied = Most(0, Least(BlockSize, size - BlockSize * k))
    BY ONLY <1>1, <1>2, <2>2, <2>3 DEF Most, Least
  <2>5. ASSUME NEW i \in 1 .. BlockSize, BlockSize * k + i <= size
        PROVE  i \in 1 .. blocks[k + 1].occupied
    BY ONLY <1>1, <1>2, <2>2, <2>3, <2>5, i \in 1 .. BlockSize DEF Least
  <2> QED
    BY <1>3, <2>1, <2>2, <2>4, <2>5
<1>4. CASE ~(k < Len(blocks))
  <2>1. OldBlock(k).occupied = 0
    BY <1>4, FreshIsTyped DEF OldBlock
  <2>2. size <= BlockSize * k
    <3>1. Len(blocks) < k => BlockSize * Len(blocks) + BlockSize <= BlockSize * k
      BY <1>1, Sizes, BlocksInOrder
    <3>2. BlockSize * Len(blocks) \in Int
      BY <1>1, Sizes, BlocksInOrder
    <3>3. Len(blocks) = k \/ Len(blocks) < k
      BY <1>1, <1>4
    <3> QED
      BY <1>1, <1>2, <3>1, <3>2, <3>3
  <2>3. Most(0, Least(BlockSize, size - BlockSize * k)) = 0
    BY ONLY <1>1, <1>2, <2>2 DEF Most, Least
  <2>4. ASSUME NEW i \in 1 .. BlockSize PROVE ~(BlockSize * k + i <= size)
    BY ONLY <1>1, <1>2, <2>2, i \in 1 .. BlockSize
  <2> QED
    BY <2>1, <2>3, <2>4
<1> QED
  BY <1>3, <1>4

\* Where the blocks of a write lie in the list.
LEMMA WrittenLength ==
    ASSUME NEW size, PackedTo(blocks, size), NEW at \in 0 .. size, NEW n \in Nat \ {0},
           NEW first, NEW last, NEW length,
           first = at \div BlockSize, last = (at + n - 1) \div BlockSize,
           length = Most(Len(blocks), last + 1)
    PROVE  /\ length \in Nat \ {0} /\ last < length
           /\ BlockSize * (length - 1) < Most(size, at + n)
           /\ Most(size, at + n) <= BlockSize * length
           /\ \A k \in Nat : k < length /\ ~(k \in first .. last) => k < Len(blocks)
<1>1. /\ size \in Nat /\ Len(blocks) \in Nat
      /\ BlockSize * (Len(blocks) - 1) < size \/ (blocks = <<>> /\ size = 0)
      /\ size <= BlockSize * Len(blocks)
  BY DEF PackedTo
<1>2. at \in Nat /\ at <= size
  BY <1>1
<1>3. /\ first \in Nat /\ last \in Nat /\ first <= last
      /\ BlockSize * first <= at
      /\ BlockSize * last < at + n /\ at + n <= BlockSize * last + BlockSize
  BY <1>2, TouchedBlocks
<1> PICK L \in Nat : L = Len(blocks)
  BY <1>1
<1>4. /\ BlockSize * L \in Int /\ BlockSize * (L - 1) \in Int /\ BlockSize * first \in Int
      /\ BlockSize * last \in Int /\ BlockSize * (last + 1) = BlockSize * last + BlockSize
      /\ BlockSize \in Nat \ {0}
  BY <1>3, Sizes, BlocksInOrder
<1>5. first <= L
  <2> SUFFICES ASSUME L < first PROVE FALSE
    BY <1>3
  <2>1. BlockSize * L + BlockSize <= BlockSize * first
    BY <1>3, Sizes, BlocksInOrder, SMTT(60)
  <2> QED
    BY <2>1, <1>1, <1>2, <1>3, <1>4
<1>6. at + n \in Int /\ n \in Nat /\ n # 0
  BY <1>2
<1>7. CASE last + 1 < L
  <2>1. length = L
    BY ONLY <1>3, <1>7, length = Most(Len(blocks), last + 1), L = Len(blocks), L \in Nat DEF Most
  <2>2. BlockSize * (last + 1) + BlockSize <= BlockSize * L
    BY <1>3, <1>7, Sizes, BlocksInOrder
  <2>3. blocks # <<>>
    BY <1>3, <1>7
  <2>4. BlockSize * (L - 1) < size
    BY <1>1, <2>3
  <2>5. L # 0 /\ last < L
    BY ONLY <1>3, <1>7, L \in Nat
  <2>6. BlockSize * (L - 1) < Most(size, at + n) /\ Most(size, at + n) <= BlockSize * L
    BY ONLY <1>1, <1>3, <1>4, <1>6, <2>2, <2>4, L = Len(blocks) DEF Most
  <2> QED
    BY <2>1, <2>5, <2>6
<1>8. CASE ~(last + 1 < L)
  <2>1. length = last + 1
    BY ONLY <1>3, <1>8, length = Most(Len(blocks), last + 1), L = Len(blocks), L \in Nat DEF Most
  <2>2. BlockSize * L <= BlockSize * (last + 1)
    <3>1. L < last + 1 => BlockSize * L + BlockSize <= BlockSize * (last + 1)
      BY <1>3, Sizes, BlocksInOrder
    <3>2. L = last + 1 \/ L < last + 1
      BY ONLY <1>3, <1>8, L \in Nat
    <3> QED
      BY ONLY <1>4, <3>1, <3>2
  <2>3. BlockSize * last < Most(size, at + n) /\ Most(size, at + n) <= BlockSize * (last + 1)
    BY ONLY <1>1, <1>3, <1>4, <1>6, <2>2, L = Len(blocks) DEF Most
  <2>4. last + 1 \in Nat \ {0} /\ last < last + 1 /\ (last + 1) - 1 = last
    BY ONLY <1>3
  <2>5. ASSUME NEW k \in Nat, k < last + 1, ~(k \in first .. last) PROVE k < L
    BY ONLY <1>3, <1>5, <2>5, k \in Nat, L \in Nat
  <2> QED
    BY <2>1, <2>3, <2>4, <2>5
<1> QED
  BY <1>7, <1>8

\* Line 223, against the size of the file.
LEMMA FullerOfTwo ==
    ASSUME NEW B \in Nat \ {0}, NEW b \in Int, NEW s \in Int, NEW x \in Int, b < x
    PROVE  /\ Most(Least(B, x - b), Most(0, Least(B, s - b))) = Least(B, Most(s, x) - b)
           /\ Least(B, Most(s, x) - b) \in 0 .. B
<1>1. CASE s > x
  <2>1. Most(s, x) = s
    BY <1>1 DEF Most
  <2>2. Most(0, Least(B, s - b)) = Least(B, s - b) /\ Least(B, s - b) \in 0 .. B
    BY <1>1 DEF Most, Least
  <2>3. Least(B, x - b) <= Least(B, s - b) /\ Least(B, x - b) \in Int
    BY <1>1 DEF Least
  <2> QED
    BY <2>1, <2>2, <2>3 DEF Most
<1>2. CASE ~(s > x)
  <2>1. Most(s, x) = x
    BY <1>2 DEF Most
  <2>2. Least(B, x - b) \in 0 .. B /\ Least(B, x - b) > 0
    BY DEF Least
  <2>3. Least(B, s - b) <= Least(B, x - b) /\ Least(B, s - b) \in Int
    BY <1>2 DEF Least
  <2> QED
    BY <2>1, <2>2, <2>3 DEF Most
<1> QED
  BY <1>1, <1>2

\* What a write makes of a block it goes through.
LEMMA FilledIsPacked ==
    ASSUME NEW size, PackedTo(blocks, size), NEW at \in 0 .. size, NEW n \in Nat \ {0},
           NEW buf \in [1 .. n -> Bytes],
           NEW k \in (at \div BlockSize) .. ((at + n - 1) \div BlockSize)
    PROVE  /\ Filled(at, k, buf) \in Blocks
           /\ Filled(at, k, buf).occupied = Least(BlockSize, Most(size, at + n) - BlockSize * k)
           /\ \A i \in 1 .. BlockSize :
                Filled(at, k, buf).memory[i]
                  = IF at < BlockSize * k + i /\ BlockSize * k + i <= at + n
                    THEN buf[BlockSize * k + i - at] ELSE OldBlock(k).memory[i]
           /\ \A i \in 1 .. Filled(at, k, buf).occupied : Filled(at, k, buf).memory[i] # Junk
<1>1. /\ blocks \in Seq(Blocks) /\ size \in Nat /\ at \in Nat /\ at <= size
  BY DEF PackedTo
<1> PICK first : first = at \div BlockSize
  OBVIOUS
<1> PICK last : last = (at + n - 1) \div BlockSize
  OBVIOUS
<1>2. /\ first \in Nat /\ last \in Nat /\ BlockSize * last < at + n
  BY ONLY <1>1, n \in Nat \ {0}, first = at \div BlockSize,
          last = (at + n - 1) \div BlockSize, TouchedBlocks
<1>3. k \in Nat /\ k <= last
  <2>1. k \in first .. last
    OBVIOUS
  <2> QED
    BY ONLY <2>1, <1>2
<1> PICK b : b = BlockSize * k
  OBVIOUS
<1>4. b \in Int /\ BlockSize \in Nat \ {0} /\ b < at + n
  <2>1. k < last => BlockSize * k + BlockSize <= BlockSize * last
    BY <1>2, <1>3, Sizes, BlocksInOrder
  <2>2. BlockSize * k \in Int /\ BlockSize * last \in Int /\ BlockSize \in Nat \ {0}
    BY <1>2, <1>3, Sizes, BlocksInOrder
  <2>3. k = last \/ k < last
    BY ONLY <1>2, <1>3
  <2> QED
    BY ONLY <1>1, <1>2, <2>1, <2>2, <2>3, b = BlockSize * k, n \in Nat \ {0}
<1> PICK F : F = Filled(at, k, buf)
  OBVIOUS
<1> PICK old : old = OldBlock(k)
  OBVIOUS
<1>5. /\ F.occupied = Most(Least(BlockSize, at + n - b), old.occupied)
      /\ F.memory \in [1 .. BlockSize -> Bytes \cup {Junk}]
      /\ \A i \in 1 .. BlockSize :
           F.memory[i] = IF at < b + i /\ b + i <= at + n THEN buf[b + i - at] ELSE old.memory[i]
  <2>1. /\ Filled(at, k, buf).occupied
              = Most(Least(BlockSize, at + n - BlockSize * k), OldBlock(k).occupied)
        /\ Filled(at, k, buf).memory \in [1 .. BlockSize -> Bytes \cup {Junk}]
        /\ \A i \in 1 .. BlockSize :
             Filled(at, k, buf).memory[i]
               = IF at < BlockSize * k + i /\ BlockSize * k + i <= at + n
                 THEN buf[BlockSize * k + i - at] ELSE OldBlock(k).memory[i]
    BY ONLY <1>1, n \in Nat \ {0}, buf \in [1 .. n -> Bytes],
            k \in (at \div BlockSize) .. ((at + n - 1) \div BlockSize), FilledIs, SMTT(60)
  <2> QED
    BY ONLY <2>1, F = Filled(at, k, buf), old = OldBlock(k), b = BlockSize * k, Zenon
<1>6. /\ old.occupied = Most(0, Least(BlockSize, size - b))
      /\ \A i \in 1 .. BlockSize : b + i <= size => old.memory[i] # Junk
  BY <1>3, OldIsPacked
<1>8. F.occupied = Least(BlockSize, Most(size, at + n) - b) /\ F.occupied \in 0 .. BlockSize
  <2>1. at + n \in Int
    BY ONLY <1>1, n \in Nat \ {0}
  <2>2. F.occupied = Most(Least(BlockSize, at + n - b), Most(0, Least(BlockSize, size - b)))
    BY ONLY <1>5, <1>6
  <2>3. /\ Most(Least(BlockSize, at + n - b), Most(0, Least(BlockSize, size - b)))
             = Least(BlockSize, Most(size, at + n) - b)
        /\ Least(BlockSize, Most(size, at + n) - b) \in 0 .. BlockSize
    <3>1. BlockSize \in Nat \ {0} /\ b \in Int /\ size \in Int /\ b < at + n
      BY ONLY <1>1, <1>4
    <3> QED
      BY ONLY <2>1, <3>1, FullerOfTwo
  <2> QED
    BY ONLY <2>2, <2>3
<1>9. ASSUME NEW i \in 1 .. BlockSize, at < b + i, b + i <= at + n
      PROVE  buf[b + i - at] \in Bytes
  <2>1. b + i - at \in 1 .. n
    BY ONLY <1>1, <1>4, <1>9, n \in Nat \ {0}, i \in 1 .. BlockSize
  <2> QED
    BY <2>1
<1>11. F \in Blocks
  <2>1. F = [occupied |-> F.occupied, memory |-> F.memory]
    BY DEF Filled
  <2> QED
    BY ONLY <2>1, <1>5, <1>8 DEF Blocks
<1>12. ASSUME NEW i \in 1 .. F.occupied PROVE F.memory[i] # Junk
  <2>1. i \in 1 .. BlockSize
    BY ONLY <1>4, <1>8, i \in 1 .. F.occupied
  <2>2. CASE at < b + i /\ b + i <= at + n
    BY ONLY <1>5, <1>9, <2>1, <2>2, Sizes
  <2>3. CASE ~(at < b + i /\ b + i <= at + n)
    <3>1. b + i <= size
      BY ONLY <1>1, <1>4, <1>8, <2>1, <2>3, n \in Nat \ {0}, i \in 1 .. F.occupied DEF Most, Least
    <3>2. F.memory[i] = old.memory[i]
      BY ONLY <1>5, <2>1, <2>3
    <3> QED
      BY <1>6, <2>1, <3>1, <3>2
  <2> QED
    BY ONLY <2>2, <2>3
<1> QED
  BY ONLY <1>5, <1>8, <1>11, <1>12, F = Filled(at, k, buf), old = OldBlock(k),
          b = BlockSize * k, Zenon

LEMMA WrittenIs ==
    ASSUME NEW at, NEW n \in Nat \ {0}, NEW buf \in [1 .. n -> Bytes],
           NEW first, NEW last, NEW length,
           first = at \div BlockSize, last = (at + n - 1) \div BlockSize,
           length = Most(Len(blocks), last + 1),
           first \in Nat, last \in Nat, first <= last
    PROVE  Written(buf, at) = [k \in 1 .. length |->
              IF k - 1 \in first .. last THEN Filled(at, k - 1, buf) ELSE blocks[k]]
<1>1. Len(buf) = n
  OBVIOUS
<1>2. Touched(at, n) = first .. last
  BY DEF Touched
<1>3. first .. last # {}
  <2>1. first \in first .. last
    BY ONLY first \in Nat, last \in Nat, first <= last
  <2> QED
    BY ONLY <2>1
<1> QED
  BY <1>1, <1>2, <1>3 DEF Written

\* Bytes appended to packed blocks leave them packed, to the new size.
LEMMA WrittenIsPacked ==
    ASSUME NEW size, PackedTo(blocks, size), NEW at \in 0 .. size, NEW n \in Nat \ {0},
           NEW buf \in [1 .. n -> Bytes]
    PROVE  PackedTo(Written(buf, at), Most(size, at + n))
<1>0. size \in Nat /\ Len(blocks) \in Nat
  BY DEF PackedTo
<1>1. /\ blocks \in Seq(Blocks) /\ DOMAIN blocks = 1 .. Len(blocks)
      /\ \A k \in DOMAIN blocks :
           /\ blocks[k].occupied = Least(BlockSize, size - BlockSize * (k - 1))
           /\ \A i \in 1 .. blocks[k].occupied : blocks[k].memory[i] # Junk
      /\ BlockSize * (Len(blocks) - 1) < size \/ (blocks = <<>> /\ size = 0)
  BY DEF PackedTo
<1>2. at \in Nat /\ at <= size /\ n \in Nat /\ n # 0
  BY <1>0
<1> PICK first : first = at \div BlockSize
  OBVIOUS
<1> PICK last : last = (at + n - 1) \div BlockSize
  OBVIOUS
<1> PICK length : length = Most(Len(blocks), last + 1)
  OBVIOUS
<1> PICK M : M = Most(size, at + n)
  OBVIOUS
<1>3. /\ first \in Nat /\ last \in Nat /\ first <= last
      /\ BlockSize * first <= at
      /\ BlockSize * last < at + n /\ at + n <= BlockSize * last + BlockSize
  BY ONLY <1>2, n \in Nat \ {0}, first = at \div BlockSize,
          last = (at + n - 1) \div BlockSize, TouchedBlocks
<1>4. /\ length \in Nat \ {0} /\ last < length
      /\ BlockSize * (length - 1) < M /\ M <= BlockSize * length
      /\ \A k \in Nat : k < length /\ ~(k \in first .. last) => k < Len(blocks)
  BY WrittenLength, ZenonT(60)
<1> PICK W : W = Written(buf, at)
  OBVIOUS
<1>5. W = [k \in 1 .. length |->
              IF k - 1 \in first .. last THEN Filled(at, k - 1, buf) ELSE blocks[k]]
  BY <1>3, WrittenIs, SMTT(60)
<1>6. M \in Nat /\ (M = size \/ (M = at + n /\ size <= M))
  BY ONLY <1>0, <1>2, M = Most(size, at + n) DEF Most
<1>7. ASSUME NEW k \in 1 .. length
      PROVE  /\ W[k] \in Blocks
             /\ W[k].occupied = Least(BlockSize, M - BlockSize * (k - 1))
             /\ \A i \in 1 .. W[k].occupied : W[k].memory[i] # Junk
  <2>1. CASE k - 1 \in first .. last
    <3>1. W[k] = Filled(at, k - 1, buf)
      BY <1>5, <2>1
    <3> QED
      BY <2>1, <3>1, FilledIsPacked, SMTT(60)
  <2>2. CASE ~(k - 1 \in first .. last)
    <3>1. W[k] = blocks[k]
      BY <1>5, <2>2
    <3>2. k - 1 \in Nat /\ k - 1 < length /\ k \in Nat
      BY ONLY <1>4, k \in 1 .. length
    <3>3. k - 1 < Len(blocks)
      BY ONLY <1>4, <2>2, <3>2
    <3>4. k \in DOMAIN blocks
      BY ONLY <1>0, <1>1, <3>2, <3>3
    <3>5. blocks[k] \in Blocks
      BY <1>1, <3>4
    <3> PICK j \in Nat : j = k - 1
      BY <3>2
    <3>6. BlockSize * j \in Int /\ BlockSize * first \in Int /\ BlockSize * last \in Int /\ BlockSize \in Nat
      BY ONLY <1>3, j \in Nat, Sizes, BlocksInOrder
    <3>7. Least(BlockSize, size - BlockSize * j) = Least(BlockSize, M - BlockSize * j)
      <4>1. CASE j < first
        <5>1. BlockSize * j + BlockSize <= BlockSize * first
          BY ONLY <1>3, <4>1, j \in Nat, Sizes, BlocksInOrder
        <5> QED
          BY ONLY <5>1, <3>6, <1>0, <1>2, <1>3, <1>6 DEF Least
      <4>2. CASE last < j
        <5>1. BlockSize * last + BlockSize <= BlockSize * j
          BY ONLY <1>3, <4>2, j \in Nat, Sizes, BlocksInOrder
        <5>2. BlockSize * j < size
          <6>0. Len(blocks) - 1 \in Int
            BY ONLY <1>0
          <6> PICK e \in Int : e = Len(blocks) - 1
            BY ONLY <6>0
          <6>1. blocks # <<>>
            BY <3>4
          <6>2. BlockSize * e < size /\ BlockSize * e \in Int
            BY ONLY <1>1, <6>1, e \in Int, e = Len(blocks) - 1, Sizes, BlocksInOrder
          <6>3. j < e => BlockSize * j + BlockSize <= BlockSize * e
            BY ONLY e \in Int, j \in Nat, Sizes, BlocksInOrder
          <6>4. j = e \/ j < e
            <7>1. j < Len(blocks)
              BY ONLY <3>3, j = k - 1
            <7> QED
              BY ONLY <1>0, <7>1, j \in Nat, e = Len(blocks) - 1
          <6> QED
            BY ONLY <6>2, <6>3, <6>4, <3>6, <1>0
        <5>3. M = size
          BY ONLY <5>1, <5>2, <3>6, <1>0, <1>2, <1>3, <1>6
        <5> QED
          BY ONLY <5>3
      <4>3. j < first \/ last < j
        BY ONLY <2>2, <1>3, j \in Nat, j = k - 1
      <4> QED
        BY ONLY <4>1, <4>2, <4>3
    <3> QED
      BY ONLY <1>1, <3>1, <3>4, <3>5, <3>7, j = k - 1
  <2> QED
    BY ONLY <2>1, <2>2
<1>8. W \in Seq(Blocks) /\ Len(W) = length /\ DOMAIN W = 1 .. length
  <2>1. ASSUME NEW m \in Nat, NEW w, w = [k \in 1 .. m |-> w[k]], \A k \in 1 .. m : w[k] \in Blocks
        PROVE  w \in Seq(Blocks) /\ Len(w) = m /\ DOMAIN w = 1 .. m
    BY ONLY <2>1, m \in Nat, SMTT(60)
  <2>2. W = [k \in 1 .. length |-> W[k]]
    BY ONLY <1>5
  <2> QED
    BY ONLY <1>4, <1>7, <2>1, <2>2
<1>9. PackedTo(W, M)
  <2>1. BlockSize * (Len(W) - 1) < M /\ M <= BlockSize * Len(W)
    BY ONLY <1>4, <1>8
  <2> QED
    BY ONLY <1>6, <1>7, <1>8, <2>1 DEF PackedTo
<1> QED
  BY <1>9

\* A write changes the bytes it is given and no other.
LEMMA WrittenBytes ==
    ASSUME NEW size, PackedTo(blocks, size), NEW at \in 0 .. size, NEW n \in Nat \ {0},
           NEW buf \in [1 .. n -> Bytes], NEW i \in 1 .. Most(size, at + n)
    PROVE  ByteAt(Written(buf, at), i)
             = IF i \in (at + 1) .. (at + n) THEN buf[i - at] ELSE ByteAt(blocks, i)
<1>1. blocks \in Seq(Blocks) /\ size \in Nat /\ at \in Nat /\ at <= size /\ n \in Nat
  BY DEF PackedTo
<1> PICK first : first = at \div BlockSize
  OBVIOUS
<1> PICK last : last = (at + n - 1) \div BlockSize
  OBVIOUS
<1> PICK length : length = Most(Len(blocks), last + 1)
  OBVIOUS
<1> PICK M : M = Most(size, at + n)
  OBVIOUS
<1>2. /\ first \in Nat /\ last \in Nat /\ first <= last
      /\ BlockSize * first <= at
      /\ BlockSize * last < at + n /\ at + n <= BlockSize * last + BlockSize
  BY ONLY <1>1, n \in Nat \ {0}, first = at \div BlockSize,
          last = (at + n - 1) \div BlockSize, TouchedBlocks
<1>3. length \in Nat \ {0} /\ M <= BlockSize * length
  BY WrittenLength
<1> PICK W : W = Written(buf, at)
  OBVIOUS
<1>4. W = [k \in 1 .. length |->
              IF k - 1 \in first .. last THEN Filled(at, k - 1, buf) ELSE blocks[k]]
  BY <1>2, WrittenIs, SMTT(60)
<1>5. M \in Nat /\ (M = size \/ M = at + n) /\ i \in 1 .. M
  BY ONLY <1>1, M = Most(size, at + n), i \in 1 .. Most(size, at + n) DEF Most
<1> PICK k : k = (i - 1) \div BlockSize
  OBVIOUS
<1> PICK r : r = (i - 1) % BlockSize
  OBVIOUS
<1>6. /\ k \in Nat /\ r \in 0 .. BlockSize - 1 /\ i = BlockSize * k + (r + 1)
      /\ r + 1 \in 1 .. BlockSize
  <2>1. i - 1 \in Nat
    BY ONLY <1>5
  <2>2. k \in Nat /\ r \in Nat /\ r < BlockSize /\ i - 1 = BlockSize * k + r
    BY ONLY <2>1, Sizes, DivMod, k = (i - 1) \div BlockSize, r = (i - 1) % BlockSize
  <2>3. BlockSize * k \in Int /\ BlockSize \in Nat
    BY ONLY <2>2, Sizes, BlocksInOrder
  <2> QED
    BY ONLY <1>5, <2>2, <2>3
<1>7. /\ BlockSize * k \in Int /\ BlockSize * first \in Int /\ BlockSize * last \in Int
      /\ BlockSize * length \in Int /\ BlockSize \in Nat \ {0}
  BY ONLY <1>2, <1>3, <1>6, Sizes, BlocksInOrder
<1>8. k < length
  <2>1. length < k => BlockSize * length + BlockSize <= BlockSize * k
    BY ONLY <1>3, <1>6, Sizes, BlocksInOrder
  <2>2. k < length \/ k = length \/ length < k
    BY ONLY <1>3, <1>6
  <2> QED
    BY ONLY <1>3, <1>5, <1>6, <1>7, <2>1, <2>2
<1>9. k + 1 \in 1 .. length /\ (k + 1) - 1 = k
  BY ONLY <1>3, <1>6, <1>8
<1>10. ByteAt(W, i) = W[k + 1].memory[r + 1] /\ ByteAt(blocks, i) = blocks[k + 1].memory[r + 1]
  BY DEF ByteAt
<1>11. CASE k \in first .. last
  <2>1. W[k + 1] = Filled(at, k, buf)
    BY ONLY <1>4, <1>9, <1>11
  <2>2. \A h \in 1 .. BlockSize :
          Filled(at, k, buf).memory[h]
            = IF at < BlockSize * k + h /\ BlockSize * k + h <= at + n
              THEN buf[BlockSize * k + h - at] ELSE OldBlock(k).memory[h]
    <3>1. k \in (at \div BlockSize) .. ((at + n - 1) \div BlockSize)
      BY ONLY <1>11, first = at \div BlockSize, last = (at + n - 1) \div BlockSize
    <3> QED
      BY ONLY PackedTo(blocks, size), at \in 0 .. size, n \in Nat \ {0},
              buf \in [1 .. n -> Bytes], <3>1, FilledIsPacked, SMTT(60)
  <2>3. W[k + 1].memory[r + 1]
          = IF at < i /\ i <= at + n THEN buf[i - at] ELSE OldBlock(k).memory[r + 1]
    <3>1. W[k + 1].memory[r + 1]
            = IF at < BlockSize * k + (r + 1) /\ BlockSize * k + (r + 1) <= at + n
              THEN buf[BlockSize * k + (r + 1) - at] ELSE OldBlock(k).memory[r + 1]
      <4>1. r + 1 \in 1 .. BlockSize
        BY ONLY <1>6
      <4> QED
        BY ONLY <2>1, <2>2, <4>1
    <3>2. i = BlockSize * k + (r + 1)
      BY ONLY <1>6
    <3>3. (at < BlockSize * k + (r + 1) <=> at < i) /\ (BlockSize * k + (r + 1) <= at + n <=> i <= at + n)
      BY ONLY <3>2
    <3>4. buf[BlockSize * k + (r + 1) - at] = buf[i - at]
      <4>1. /\ i \in Int /\ at \in Int /\ BlockSize \in Int /\ k \in Int /\ r \in Int
            /\ BlockSize * k + (r + 1) - at = i - at
        BY ONLY <1>1, <1>5, <1>6, <1>7, <3>2
      <4> QED
        BY ONLY <4>1
    <3> QED
      BY ONLY <3>1, <3>3, <3>4
  <2>4. CASE at < i /\ i <= at + n
    <3>1. i \in (at + 1) .. (at + n)
      BY ONLY <1>1, <1>5, <2>4
    <3> QED
      BY ONLY <1>10, <2>3, <2>4, <3>1, W = Written(buf, at)
  <2>5. CASE ~(at < i /\ i <= at + n)
    <3>1. i \notin (at + 1) .. (at + n) /\ i <= size
      BY ONLY <1>1, <1>5, <2>5
    <3>2. OldBlock(k) = blocks[k + 1]
      BY <1>6, <3>1, OldIsPacked, ZenonT(60)
    <3> QED
      BY ONLY <1>10, <2>3, <2>5, <3>1, <3>2, W = Written(buf, at)
  <2> QED
    BY ONLY <2>4, <2>5
<1>12. CASE ~(k \in first .. last)
  <2>1. W[k + 1] = blocks[k + 1]
    BY ONLY <1>4, <1>9, <1>12
  <2>2. i \notin (at + 1) .. (at + n)
    <3>1. k < first => BlockSize * k + BlockSize <= BlockSize * first
      BY ONLY <1>2, <1>6, Sizes, BlocksInOrder
    <3>2. last < k => BlockSize * last + BlockSize <= BlockSize * k
      BY ONLY <1>2, <1>6, Sizes, BlocksInOrder
    <3>3. k < first \/ last < k
      BY ONLY <1>2, <1>6, <1>12
    <3> QED
      BY ONLY <1>1, <1>2, <1>5, <1>6, <1>7, <3>1, <3>2, <3>3, SMTT(60)
  <2> QED
    BY ONLY <1>10, <2>1, <2>2, W = Written(buf, at)
<1> QED
  BY ONLY <1>11, <1>12

-----------------------------------------------------------------------------
(* ufs_read *)

\* The occupied bytes of a block, all of them written.
LEMMA OccupiedBytes ==
    ASSUME NEW size, PackedTo(blocks, size), NEW k \in DOMAIN blocks
    PROVE  /\ blocks[k].occupied \in 0 .. BlockSize
           /\ SubSeq(blocks[k].memory, 1, blocks[k].occupied) \in Seq(Bytes)
           /\ Len(SubSeq(blocks[k].memory, 1, blocks[k].occupied)) = blocks[k].occupied
           /\ \A i \in 1 .. blocks[k].occupied :
                SubSeq(blocks[k].memory, 1, blocks[k].occupied)[i] = blocks[k].memory[i]
<1>1. blocks \in Seq(Blocks)
  BY DEF PackedTo
<1> PICK o : o = blocks[k].occupied
  OBVIOUS
<1> PICK m : m = blocks[k].memory
  OBVIOUS
<1>2. o \in 0 .. BlockSize /\ m \in [1 .. BlockSize -> Bytes \cup {Junk}] /\ BlockSize \in Nat
  BY <1>1, BlocksAreTyped, Sizes
<1>3. \A i \in 1 .. o : m[i] # Junk
  BY DEF PackedTo
<1>4. \A i \in 1 .. o : m[i] \in Bytes
  BY ONLY <1>2, <1>3
<1>5. o \in Int /\ 1 \in Int
  BY ONLY <1>2
<1>6. /\ SubSeq(m, 1, o) \in Seq(Bytes)
      /\ Len(SubSeq(m, 1, o)) = IF 1 <= o THEN o - 1 + 1 ELSE 0
      /\ \A i \in 1 .. o - 1 + 1 : SubSeq(m, 1, o)[i] = m[1 + i - 1]
  BY ONLY <1>4, <1>5, SubSeqProperties
<1>7. Len(SubSeq(m, 1, o)) = o
  BY ONLY <1>2, <1>6
<1>8. \A i \in 1 .. o : SubSeq(m, 1, o)[i] = m[i]
  <2> SUFFICES ASSUME NEW i \in 1 .. o PROVE SubSeq(m, 1, o)[i] = m[i]
    OBVIOUS
  <2>1. i \in 1 .. o - 1 + 1 /\ 1 + i - 1 = i
    BY ONLY <1>2, i \in 1 .. o
  <2> QED
    BY ONLY <1>6, <2>1
<1> QED
  BY ONLY <1>2, <1>6, <1>7, <1>8, o = blocks[k].occupied, m = blocks[k].memory, Zenon

\* What ufs_read finds by counting is what file_write put there by its index.
LEMMA StoredIsContent ==
    ASSUME NEW size, PackedTo(blocks, size)
    PROVE  /\ Stored = [i \in 1 .. size |-> ByteAt(blocks, i)]
           /\ \A i \in 1 .. size : ByteAt(blocks, i) \in Bytes
<1>1. /\ blocks \in Seq(Blocks) /\ size \in Nat
      /\ BlockSize * (Len(blocks) - 1) < size \/ (blocks = <<>> /\ size = 0)
      /\ size <= BlockSize * Len(blocks)
      /\ \A k \in DOMAIN blocks : blocks[k].occupied = Least(BlockSize, size - BlockSize * (k - 1))
  BY DEF PackedTo
<1>0. size \in Nat
  BY <1>1
<1> PICK s : s = [k \in DOMAIN blocks |-> SubSeq(blocks[k].memory, 1, blocks[k].occupied)]
  OBVIOUS
<1>2. Stored = FlattenSeq(s)
  BY DEF Stored
<1> PICK L \in Nat : L = Len(blocks) /\ DOMAIN blocks = 1 .. L
  BY <1>1
<1>3. \A k \in 1 .. L : s[k] \in Seq(Bytes) /\ Len(s[k]) = blocks[k].occupied
  BY OccupiedBytes
<1>4. s \in Seq(Seq(Bytes)) /\ Len(s) = L /\ DOMAIN s = 1 .. L
  <2>1. s = [k \in 1 .. L |-> s[k]]
    OBVIOUS
  <2> QED
    BY ONLY <1>3, <2>1, L \in Nat
<1>5. CASE L = 0
  <2>1. size = 0
    BY <1>1, <1>5, Sizes
  <2>2. Stored = <<>>
    BY ONLY <1>2, <1>4, <1>5 DEF FlattenSeq
  <2>3. [i \in 1 .. size |-> ByteAt(blocks, i)] = <<>>
    BY ONLY <2>1
  <2>4. 1 .. size = {}
    BY ONLY <2>1
  <2> QED
    BY ONLY <2>2, <2>3, <2>4
<1>6. CASE L # 0
  <2>1. blocks # <<>>
    BY <1>6
  <2>2. BlockSize * (L - 1) < size /\ size <= BlockSize * L
    BY <1>1, <2>1
  <2>3. /\ BlockSize * (L - 1) \in Int /\ BlockSize * L = BlockSize * (L - 1) + BlockSize
        /\ BlockSize \in Nat \ {0}
    <3>1. BlockSize * L \in Int /\ BlockSize * (L - 1) = BlockSize * L - BlockSize
      BY ONLY L \in Nat, Sizes, BlocksInOrder
    <3> QED
      BY ONLY <3>1, Sizes
  <2>4. \A k \in 1 .. L : Len(s[k]) \in 0 .. BlockSize
    BY <1>3, OccupiedBytes
  <2>5. ASSUME NEW k \in 1 .. L, k < L PROVE Len(s[k]) = BlockSize
    <3>1. BlockSize * (k - 1) + BlockSize <= BlockSize * (L - 1) /\ BlockSize * (k - 1) \in Int
      <4>1. k - 1 \in Int /\ L - 1 \in Int /\ k - 1 < L - 1
        BY ONLY <2>5, L \in Nat, k \in 1 .. L
      <4> QED
        BY ONLY <4>1, Sizes, BlocksInOrder
    <3>2. blocks[k].occupied = Least(BlockSize, size - BlockSize * (k - 1))
      BY <1>1
    <3>3. blocks[k].occupied = BlockSize
      BY ONLY <1>0, <2>2, <2>3, <3>1, <3>2 DEF Least
    <3> QED
      BY <1>3, <3>3
  <2>6. Pieces(s, BlockSize, Bytes)
    BY ONLY <1>4, <2>3, <2>4, <2>5 DEF Pieces
  <2>7. Stored = UpTo(s, BlockSize, L)
    BY ONLY <1>2, <1>4, <1>6, <2>6, Flattened
  <2>8. BlockSize * (L - 1) + Len(s[L]) = size
    <3>1. L \in 1 .. L
      BY ONLY <1>6, L \in Nat
    <3>2. Len(s[L]) = Least(BlockSize, size - BlockSize * (L - 1))
      BY <1>1, <1>3, <3>1
    <3> QED
      BY ONLY <1>0, <2>2, <2>3, <3>2 DEF Least
  <2>9. ASSUME NEW i \in 1 .. size
        PROVE  /\ s[(i - 1) \div BlockSize + 1][((i - 1) % BlockSize) + 1] = ByteAt(blocks, i)
               /\ ByteAt(blocks, i) \in Bytes
    <3> PICK k : k = (i - 1) \div BlockSize
      OBVIOUS
    <3> PICK r : r = (i - 1) % BlockSize
      OBVIOUS
    <3>1. k \in Nat /\ r \in Nat /\ r < BlockSize /\ i - 1 = BlockSize * k + r
      <4>1. i - 1 \in Nat
        BY ONLY <1>0, i \in 1 .. size
      <4> QED
        BY ONLY <4>1, Sizes, DivMod, k = (i - 1) \div BlockSize, r = (i - 1) % BlockSize
    <3>2. BlockSize * k \in Int /\ BlockSize * L \in Int
      BY ONLY <3>1, L \in Nat, Sizes, BlocksInOrder
    <3>3. k < L
      <4>1. L < k => BlockSize * L + BlockSize <= BlockSize * k
        BY ONLY <3>1, L \in Nat, Sizes, BlocksInOrder
      <4>2. BlockSize * k < BlockSize * L
        BY ONLY <1>0, <2>2, <2>3, <3>1, <3>2, i \in 1 .. size
      <4>3. k < L \/ k = L \/ L < k
        BY ONLY <3>1, L \in Nat
      <4> QED
        BY ONLY <2>3, <3>2, <4>1, <4>2, <4>3
    <3>4. k + 1 \in 1 .. L /\ (k + 1) - 1 = k
      BY ONLY <3>1, <3>3, L \in Nat
    <3>5. blocks[k + 1].occupied = Least(BlockSize, size - BlockSize * k)
      <4>1. blocks[k + 1].occupied = Least(BlockSize, size - BlockSize * ((k + 1) - 1))
        BY <1>1, <3>4
      <4> QED
        BY ONLY <3>4, <4>1
    <3>6. r + 1 \in 1 .. blocks[k + 1].occupied
      BY ONLY <1>0, <2>3, <3>1, <3>2, <3>5, i \in 1 .. size DEF Least
    <3>7. s[k + 1][r + 1] = blocks[k + 1].memory[r + 1]
      BY <3>4, <3>6, OccupiedBytes
    <3>8. s[k + 1][r + 1] \in Bytes
      <4>1. s[k + 1] \in Seq(Bytes) /\ r + 1 \in 1 .. Len(s[k + 1])
        BY <1>3, <3>4, <3>6
      <4> QED
        BY ONLY <4>1
    <3> QED
      BY ONLY <3>7, <3>8, k = (i - 1) \div BlockSize, r = (i - 1) % BlockSize DEF ByteAt
  <2>10. Stored = [j \in 1 .. size |-> s[(j - 1) \div BlockSize + 1][((j - 1) % BlockSize) + 1]]
    BY ONLY <2>7, <2>8 DEF UpTo
  <2>11. Stored = [i \in 1 .. size |-> ByteAt(blocks, i)]
    BY ONLY <2>9, <2>10
  <2> QED
    BY ONLY <2>9, <2>11
<1> QED
  BY <1>5, <1>6

-----------------------------------------------------------------------------
(* The file as a sequence of bytes *)

ContentOf(bs, size) == [i \in 1 .. size |-> ByteAt(bs, i)]

LEMMA SameSize == Size = SizeOf(blocks) /\ Size' = SizeOf(blocks')
BY DEF Size, SizeOf

LEMMA SameContent == Content = ContentOf(blocks, Size) /\ Content' = ContentOf(blocks', Size')
BY DEF Content, ContentOf, ByteAt

LEMMA InvariantPacks ==
    ASSUME BlocksArePacked PROVE PackedTo(blocks, Size) /\ Size \in Nat
<1>1. blocks \in Seq(Blocks) /\ PackedBlocks(blocks)
  BY DEF BlocksArePacked, TypeOK, PackedBlocks
<1>2. PackedTo(blocks, Size)
  BY <1>1, PackedToSize, SameSize
<1> QED
  BY <1>2 DEF PackedTo

LEMMA ContentIs ==
    ASSUME BlocksArePacked
    PROVE  Stored = Content /\ Len(Content) = Size /\ \A i \in 1 .. Size : Content[i] \in Bytes
<1>1. PackedTo(blocks, Size) /\ Size \in Nat
  BY InvariantPacks
<1>2. /\ Stored = [i \in 1 .. Size |-> ByteAt(blocks, i)]
      /\ \A i \in 1 .. Size : ByteAt(blocks, i) \in Bytes
  BY <1>1, StoredIsContent
<1>3. Content = [i \in 1 .. Size |-> ByteAt(blocks, i)]
  BY SameContent DEF ContentOf
<1> QED
  BY ONLY <1>1, <1>2, <1>3

\* What a write of n bytes at this place makes of a file of this size.
IsWritten(size, at, n, buf) ==
    /\ PackedTo(Written(buf, at), Most(size, at + n))
    /\ ContentOf(Written(buf, at), Most(size, at + n))
         = [i \in 1 .. Most(size, at + n) |->
              IF i \in (at + 1) .. (at + n) THEN buf[i - at] ELSE ContentOf(blocks, size)[i]]

\* A write of any length, also of none.
LEMMA WrittenFile ==
    ASSUME NEW size, PackedTo(blocks, size), NEW at \in 0 .. size, NEW n \in Nat,
           NEW buf \in [1 .. n -> Bytes]
    PROVE  IsWritten(size, at, n, buf)
<1>1. size \in Nat /\ blocks \in Seq(Blocks)
  BY DEF PackedTo
<1>2. at \in Nat /\ at <= size
  BY ONLY <1>1, at \in 0 .. size
<1> PICK M : M = Most(size, at + n)
  OBVIOUS
<1>3. M = size \/ M = at + n
  BY DEF Most
<1>4. /\ PackedTo(Written(buf, at), M)
      /\ \A i \in 1 .. M :
           ByteAt(Written(buf, at), i)
             = IF i \in (at + 1) .. (at + n) THEN buf[i - at] ELSE ByteAt(blocks, i)
  <2>1. CASE n = 0
    <3>1. Written(buf, at) = blocks
      BY <1>1, <1>2, <2>1, NothingWritten
    <3>2. M = size
      BY ONLY <1>1, <1>2, <2>1, M = Most(size, at + n) DEF Most
    <3>3. \A i \in 1 .. M : i \notin (at + 1) .. (at + n)
      BY ONLY <1>1, <1>2, <2>1, <3>2
    <3> QED
      BY <3>1, <3>2, <3>3
  <2>2. CASE n # 0
    <3>1. n \in Nat \ {0}
      BY <2>2
    <3> QED
      BY <3>1, WrittenIsPacked, WrittenBytes
  <2> QED
    BY <2>1, <2>2
<1>5. ASSUME NEW i \in 1 .. M, i \notin (at + 1) .. (at + n)
      PROVE  ByteAt(blocks, i) = ContentOf(blocks, size)[i]
  <2>1. i \in 1 .. size
    BY ONLY <1>1, <1>2, <1>3, <1>5, i \in 1 .. M, n \in Nat
  <2> QED
    BY ONLY <2>1 DEF ContentOf
<1>6. ContentOf(Written(buf, at), M)
        = [i \in 1 .. M |->
             IF i \in (at + 1) .. (at + n) THEN buf[i - at] ELSE ContentOf(blocks, size)[i]]
  <2> PICK f : f = ContentOf(blocks, size)
    OBVIOUS
  <2> PICK g : g = Written(buf, at)
    OBVIOUS
  <2>1. \A i \in 1 .. M :
          ByteAt(g, i) = IF i \in (at + 1) .. (at + n) THEN buf[i - at] ELSE f[i]
    BY <1>4, <1>5
  <2>2. ContentOf(g, M) = [i \in 1 .. M |->
             IF i \in (at + 1) .. (at + n) THEN buf[i - at] ELSE f[i]]
    BY ONLY <2>1 DEF ContentOf
  <2> QED
    BY <2>2
<1> QED
  BY <1>4, <1>6 DEF IsWritten

-----------------------------------------------------------------------------
(* The steps *)

\* A write, as the file sees it.
LEMMA WriteStep ==
    ASSUME BlocksArePacked, NEW d \in Fds, NEW n \in 0 .. MaxCall, NEW buf \in [1 .. n -> Bytes],
           file_write(buf, pos[d])
    PROVE  /\ PackedTo(blocks', Size') /\ Size' = Most(Size, pos[d] + n)
           /\ Content' = [i \in 1 .. Most(Size, pos[d] + n) |->
                IF i \in (pos[d] + 1) .. (pos[d] + n) THEN buf[i - pos[d]] ELSE Content[i]]
<1>1. PackedTo(blocks, Size) /\ Size \in Nat /\ pos[d] \in 0 .. Size
  BY InvariantPacks DEF BlocksArePacked, TypeOK
<1>2. n \in Nat
  BY Sizes
<1> PICK at \in 0 .. Size : at = pos[d]
  BY <1>1
<1>3. blocks' = Written(buf, at)
  BY WriteLeaves
<1>4. /\ PackedTo(Written(buf, at), Most(Size, at + n))
      /\ ContentOf(Written(buf, at), Most(Size, at + n))
           = [i \in 1 .. Most(Size, at + n) |->
                IF i \in (at + 1) .. (at + n) THEN buf[i - at] ELSE ContentOf(blocks, Size)[i]]
  <2>1. PackedTo(blocks, Size) /\ n \in Nat /\ buf \in [1 .. n -> Bytes]
    BY <1>1, <1>2
  <2>2. at \in 0 .. Size
    OBVIOUS
  <2>3. IsWritten(Size, at, n, buf)
    BY ONLY <2>1, <2>2, WrittenFile, ZenonT(60)
  <2> QED
    BY ONLY <2>3, Zenon DEF IsWritten
<1>5. SizeOf(blocks') = Most(Size, at + n)
  BY <1>3, <1>4, SizeIsPacked
<1>6. Size' = Most(Size, at + n)
  BY <1>5, SameSize
<1> QED
  BY <1>3, <1>4, <1>6, SameContent

LEMMA PackedAgain ==
    ASSUME TypeOK', PackedTo(blocks', Size') PROVE BlocksArePacked'
<1>1. PackedBlocks(blocks')
  BY SizeIsPacked
<1> QED
  BY <1>1 DEF BlocksArePacked, PackedBlocks

\* A call that leaves the blocks alone.
LEMMA SameBlocks ==
    ASSUME BlocksArePacked, blocks' = blocks
    PROVE  /\ blocks' \in Seq(Blocks) /\ Size' = Size /\ Size' <= MaxFileSize
           /\ Content' = Content /\ PackedTo(blocks', Size')
<1>1. Size' = Size
  BY SameSize
<1>2. PackedTo(blocks, Size)
  BY InvariantPacks
<1> QED
  BY <1>1, <1>2, SameContent DEF BlocksArePacked, TypeOK

LEMMA OpenKeeps ==
    ASSUME BlocksArePacked, NEW d \in Fds, Open(d) PROVE BlocksArePacked' /\ Flat!Open(d)
<1>1. /\ blocks' = blocks /\ mode[d] = None /\ got' = <<>> /\ pos' = [pos EXCEPT ![d] = 0]
  BY DEF Open
<1>2. PICK right \in OpenFlags : mode' = [mode EXCEPT ![d] = right]
  BY DEF Open, ModeOf, OpenFlags
<1>3. /\ pos \in [Fds -> 0 .. Size] /\ mode \in [Fds -> OpenFlags \cup {None}] /\ Size \in Nat
  BY InvariantPacks DEF BlocksArePacked, TypeOK
<1>4. /\ blocks' \in Seq(Blocks) /\ Size' = Size /\ Size' <= MaxFileSize
      /\ Content' = Content /\ PackedTo(blocks', Size')
  BY <1>1, SameBlocks
<1>5. pos' \in [Fds -> 0 .. Size']
  BY ONLY <1>1, <1>3, <1>4
<1>6. mode' \in [Fds -> OpenFlags \cup {None}] /\ got' \in Seq(Bytes)
  BY ONLY <1>1, <1>2, <1>3
<1>7. BlocksArePacked'
  BY <1>4, <1>5, <1>6, PackedAgain DEF TypeOK
<1>8. Flat!Open(d)
  BY <1>1, <1>2, <1>4 DEF Flat!Open, Flat!Rights, OpenFlags
<1> QED
  BY <1>7, <1>8

LEMMA CloseKeeps ==
    ASSUME BlocksArePacked, NEW d \in Fds, Close(d) PROVE BlocksArePacked' /\ Flat!Close(d)
<1>1. /\ blocks' = blocks /\ mode[d] # None /\ got' = <<>> /\ pos' = [pos EXCEPT ![d] = 0]
      /\ mode' = [mode EXCEPT ![d] = None]
  BY DEF Close
<1>2. /\ pos \in [Fds -> 0 .. Size] /\ mode \in [Fds -> OpenFlags \cup {None}] /\ Size \in Nat
  BY InvariantPacks DEF BlocksArePacked, TypeOK
<1>3. /\ blocks' \in Seq(Blocks) /\ Size' = Size /\ Size' <= MaxFileSize
      /\ Content' = Content /\ PackedTo(blocks', Size')
  BY <1>1, SameBlocks
<1>4. pos' \in [Fds -> 0 .. Size']
  BY ONLY <1>1, <1>2, <1>3
<1>5. mode' \in [Fds -> OpenFlags \cup {None}] /\ got' \in Seq(Bytes)
  BY ONLY <1>1, <1>2
<1>6. BlocksArePacked'
  BY <1>3, <1>4, <1>5, PackedAgain DEF TypeOK
<1>7. Flat!Close(d)
  BY <1>1, <1>3 DEF Flat!Close
<1> QED
  BY <1>6, <1>7

LEMMA WriteKeeps ==
    ASSUME BlocksArePacked, NEW d \in Fds, Write(d) PROVE BlocksArePacked' /\ Flat!Write(d)
<1>1. PICK buf \in Buffers :
        /\ mode[d] \in {"WRITE_ONLY", "READ_WRITE"}
        /\ Fits(pos[d], Len(buf)) /\ file_write(buf, pos[d])
        /\ pos' = [pos EXCEPT ![d] = @ + Len(buf)]
        /\ got' = <<>> /\ UNCHANGED mode
  BY DEF Write
<1>2. PICK n \in 0 .. MaxCall : buf \in [1 .. n -> Bytes]
  BY DEF Buffers
<1>3. Len(buf) = n /\ n \in Nat
  BY <1>2, Sizes
<1>4. /\ pos \in [Fds -> 0 .. Size] /\ mode \in [Fds -> OpenFlags \cup {None}] /\ Size \in Nat
      /\ Size <= MaxFileSize /\ pos[d] \in 0 .. Size
  BY InvariantPacks DEF BlocksArePacked, TypeOK
<1>5. pos[d] + n <= MaxFileSize
  BY <1>1, <1>3 DEF Fits
<1>6. /\ PackedTo(blocks', Size') /\ Size' = Most(Size, pos[d] + n)
      /\ Content' = [i \in 1 .. Most(Size, pos[d] + n) |->
           IF i \in (pos[d] + 1) .. (pos[d] + n) THEN buf[i - pos[d]] ELSE Content[i]]
  BY <1>1, <1>2, WriteStep
<1>7. Size' \in Nat /\ Size <= Size' /\ pos[d] + n <= Size' /\ Size' <= MaxFileSize
  BY ONLY <1>3, <1>4, <1>5, <1>6 DEF Most
<1>8. pos' \in [Fds -> 0 .. Size']
  <2>1. pos' = [pos EXCEPT ![d] = pos[d] + n]
    BY <1>1, <1>3
  <2>2. pos[d] + n \in 0 .. Size' /\ \A e \in Fds : pos[e] \in 0 .. Size'
    BY ONLY <1>3, <1>4, <1>7
  <2> QED
    BY ONLY <2>1, <2>2, <1>4
<1>9. mode' \in [Fds -> OpenFlags \cup {None}] /\ got' \in Seq(Bytes)
  BY <1>1, <1>4
<1>10. blocks' \in Seq(Blocks)
  BY <1>6 DEF PackedTo
<1>11. BlocksArePacked'
  BY <1>6, <1>7, <1>8, <1>9, <1>10, PackedAgain DEF TypeOK
<1>12. Content' = Flat!Overwritten(buf, pos[d])
  <2>1. Len(Content) = Size
    BY ContentIs
  <2>2. Most(Size, pos[d] + n) = IF pos[d] + n > Size THEN pos[d] + n ELSE Size
    BY ONLY <1>3, <1>4 DEF Most
  <2> QED
    BY ONLY <2>1, <2>2, <1>3, <1>6 DEF Flat!Overwritten
<1>13. buf \in Flat!Buffers
  BY <1>1 DEF Buffers, Flat!Buffers
<1>14. Flat!Write(d)
  BY ONLY <1>1, <1>3, <1>5, <1>12, <1>13 DEF Flat!Write
<1> QED
  BY <1>11, <1>14

LEMMA ReadKeeps ==
    ASSUME BlocksArePacked, NEW d \in Fds, Read(d) PROVE BlocksArePacked' /\ Flat!Read(d)
<1>1. PICK size \in 0 .. MaxCall :
        /\ mode[d] \in {"READ_ONLY", "READ_WRITE"}
        /\ got' = SubSeq(Stored, pos[d] + 1, pos[d] + Most(0, Least(size, Len(Stored) - pos[d])))
        /\ pos' = [pos EXCEPT ![d] = @ + Most(0, Least(size, Len(Stored) - pos[d]))]
        /\ UNCHANGED <<blocks, mode>>
  BY DEF Read
<1>2. Stored = Content /\ Len(Content) = Size /\ \A i \in 1 .. Size : Content[i] \in Bytes
  BY ContentIs
<1>3. /\ pos \in [Fds -> 0 .. Size] /\ mode \in [Fds -> OpenFlags \cup {None}] /\ Size \in Nat
      /\ pos[d] \in 0 .. Size /\ size \in Nat
  BY InvariantPacks, Sizes DEF BlocksArePacked, TypeOK
<1> PICK n : n = Least(size, Size - pos[d])
  OBVIOUS
<1>4. n \in Nat /\ pos[d] + n <= Size /\ Most(0, n) = n
  BY ONLY <1>3, n = Least(size, Size - pos[d]) DEF Least, Most
<1>5. got' = SubSeq(Content, pos[d] + 1, pos[d] + n) /\ pos' = [pos EXCEPT ![d] = pos[d] + n]
  BY <1>1, <1>2, <1>4
<1>6. /\ blocks' \in Seq(Blocks) /\ Size' = Size /\ Size' <= MaxFileSize
      /\ Content' = Content /\ PackedTo(blocks', Size')
  BY <1>1, SameBlocks
<1>7. pos' \in [Fds -> 0 .. Size']
  BY ONLY <1>3, <1>4, <1>5, <1>6
<1>8. got' \in Seq(Bytes)
  <2>1. pos[d] + 1 \in Int /\ pos[d] + n \in Int
    BY ONLY <1>3, <1>4
  <2>2. \A i \in (pos[d] + 1) .. (pos[d] + n) : Content[i] \in Bytes
    BY ONLY <1>2, <1>3, <1>4
  <2> QED
    BY ONLY <2>1, <2>2, <1>5, SubSeqProperties
<1>9. mode' \in [Fds -> OpenFlags \cup {None}]
  BY <1>1, <1>3
<1>10. BlocksArePacked'
  BY <1>6, <1>7, <1>8, <1>9, PackedAgain DEF TypeOK
<1>11. n = Flat!Least(size, Len(Content) - pos[d])
  BY <1>2 DEF Least, Flat!Least
<1>12. Flat!Read(d)
  BY ONLY <1>1, <1>5, <1>6, <1>11 DEF Flat!Read
<1> QED
  BY <1>10, <1>12

LEMMA DataStep ==
    ASSUME BlocksArePacked, [Next]_vars
    PROVE  BlocksArePacked' /\ [Flat!Next]_(Flat!flatVars)
<1>1. CASE Next
  <2>1. PICK d \in Fds : Open(d) \/ Close(d) \/ Write(d) \/ Read(d)
    BY <1>1 DEF Next
  <2>2. CASE Open(d)
    BY <2>2, OpenKeeps DEF Flat!Next
  <2>3. CASE Close(d)
    BY <2>3, CloseKeeps DEF Flat!Next
  <2>4. CASE Write(d)
    BY <2>4, WriteKeeps DEF Flat!Next
  <2>5. CASE Read(d)
    BY <2>5, ReadKeeps DEF Flat!Next
  <2> QED
    BY <2>1, <2>2, <2>3, <2>4, <2>5
<1>2. CASE UNCHANGED vars
  <2>1. blocks' = blocks /\ pos' = pos /\ mode' = mode /\ got' = got
    BY <1>2 DEF vars
  <2>2. Size' = Size /\ Content' = Content /\ PackedTo(blocks', Size')
    BY <2>1, SameBlocks
  <2>3. TypeOK'
    BY <2>1, <2>2 DEF BlocksArePacked, TypeOK
  <2>4. UNCHANGED Flat!flatVars
    BY <2>1, <2>2 DEF Flat!flatVars
  <2> QED
    BY <2>2, <2>3, <2>4, PackedAgain
<1> QED
  BY <1>1, <1>2

LEMMA DataInit == ASSUME Init PROVE BlocksArePacked /\ Flat!Init
<1>1. blocks = <<>> /\ pos = [d \in Fds |-> 0] /\ mode = [d \in Fds |-> None] /\ got = <<>>
  BY DEF Init
<1>2. Size = 0
  BY <1>1 DEF Size
<1>3. Content = <<>>
  BY <1>2 DEF Content
<1>4. TypeOK
  BY <1>1, <1>2, Sizes DEF TypeOK
<1> QED
  BY <1>1, <1>3, <1>4 DEF BlocksArePacked, Flat!Init

-----------------------------------------------------------------------------
(* The theorems *)

\* ufs_write and ufs_read, lines 193-316: the block a position is computed to be in is the
\* one that is found by counting, no byte that was never written counts as occupied, the file
\* stays within MAX_FILE_SIZE and no descriptor gets behind its end.
THEOREM BlocksStayPacked == Spec => []BlocksArePacked
<1>1. Init => BlocksArePacked
  BY DataInit
<1>2. BlocksArePacked /\ [Next]_vars => BlocksArePacked'
  BY DataStep
<1> QED
  BY <1>1, <1>2, PTL DEF Spec

\* userfs.h: whatever the size of a block, the calls do what they do to one sequence of
\* bytes, with a position and rights of each descriptor.
THEOREM BlocksAreInvisible == Spec => ImplementsFlatFile
<1>1. Init => Flat!Init
  BY DataInit
<1>2. BlocksArePacked /\ [Next]_vars => [Flat!Next]_(Flat!flatVars)
  BY DataStep
<1> QED
  BY <1>1, <1>2, BlocksStayPacked, PTL DEF Spec, ImplementsFlatFile, Flat!Spec
=============================================================================
