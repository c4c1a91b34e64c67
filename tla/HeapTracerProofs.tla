---------------------------- MODULE HeapTracerProofs ----------------------------
(***************************************************************************)
(* Proofs about the heap tracer of module HeapTracer, for any number of    *)
(* threads and addresses.  HeapInv is the inductive invariant.             *)
(***************************************************************************)
EXTENDS HeapTracerProperties, FiniteSetTheorems, SequenceTheorems,
        NaturalsInduction, WellFoundedInduction, TLAPS

-----------------------------------------------------------------------------
(* The invariant *)

Entering == {"lock", "dlsym", "resolved", "enter"}
Inside == {"enter", "take", "link", "default_free", "unlink_old", "exiting", "gone"}

\* What a thread's call is, by where it stands.
CallMatches(t) ==
    /\ pc[t] \in {"idle", "exiting", "gone"} => call[t] = NoCall
    /\ pc[t] \in Entering =>
         /\ call[t].op # "none" /\ call[t].res = None
         /\ (call[t].op \in {"free", "realloc"}) <=> (call[t].ptr \in Addrs)
    /\ pc[t] \in {"take", "link"} => call[t].res \in Addrs
    /\ pc[t] = "default_free" => call[t].op = "free" /\ call[t].ptr \in Addrs
    /\ pc[t] = "unlink_old" =>
         /\ call[t].op = "realloc" /\ call[t].ptr \in Addrs
         /\ call[t].res = Failed => lost

CallsMatch == \A t \in Threads : CallMatches(t)

\* The call of this thread has this block in its hands.
InHands(t, a) ==
    \/ pc[t] \in Entering \cup {"default_free"} /\ call[t].ptr = a
    \/ pc[t] = "unlink_old" /\ (call[t].res = a \/ (call[t].res = Failed /\ call[t].ptr = a))
    \/ pc[t] \in {"take", "link"} /\ call[t].res = a

\* A block is the program's, a library's, or in the hands of one call.
OneHolder ==
    /\ DOMAIN live \subseteq heap /\ hidden \subseteq heap /\ DOMAIN live \cap hidden = {}
    /\ \A t \in Threads, a \in Addrs :
         InHands(t, a) =>
           /\ a \in heap /\ a \notin DOMAIN live /\ a \notin hidden
           /\ \A u \in Threads \ {t} : ~InHands(u, a)

\* The lock is held where it is needed, and only a race initialises twice.
InitIsGuarded ==
    /\ \A t \in Threads :
         /\ pc[t] \in {"dlsym", "resolved"} => (init_lock = t \/ aborted # "no")
         /\ pc[t] = "resolved" => default_heap = "system"
         /\ pc[t] \in Inside => is_init_done
         /\ pc[t] \in {"dlsym", "resolved"} /\ is_init_done => raced
    /\ is_init_done => (default_heap = "system" \/ raced)

Linking == {t \in Threads : pc[t] = "link"}

\* Every record is in the list, in the pool or about to be linked.
RecordsAreKept ==
    /\ alloc_count = Len(allocs)
    /\ alloc_batch = alloc_pool + Len(allocs) + Cardinality(Linking)

\* No block has more records than owners, and a block loses its record early only
\* after a realloc has failed.
RecordsHaveOwners ==
    ~is_exit_done =>
        \A a \in Addrs : (Records(a) <= Owners(a) /\ (~lost => Records(a) = Owners(a)))

\* The call of this thread has got a block it does not return yet.
Fresh(t, a) == pc[t] \in {"take", "link", "unlink_old"} /\ call[t].res = a

\* As long as no address was given out again too early, a block that is not yet
\* recorded has no record of an earlier one, and the record of a block tells where
\* it was allocated.
FreshHaveNone ==
    \A t \in Threads, u \in Threads, a \in Addrs : Fresh(t, a) => ~HoldsRecord(u, a)
SiteIsRight(r) ==
    /\ r.mem \in DOMAIN live => live[r.mem] = r.site
    /\ \A t \in Threads : HoldsRecord(t, r.mem) /\ pc[t] # "unlink_old" => call[t].site = r.site
SitesAreRight == \A i \in DOMAIN allocs : SiteIsRight(allocs[i])
RecordsAreFresh == ~lost /\ ~reused /\ ~is_exit_done => FreshHaveNone /\ SitesAreRight

\* A block has or is getting its record from the call of this thread.
Keeps(t, a) ==
    \/ pc[t] \in Entering /\ call[t].ptr = a
    \/ pc[t] = "unlink_old" /\ call[t].res = Failed /\ call[t].ptr = a
    \/ pc[t] = "link" /\ call[t].res = a
Recorded == {a \in Addrs : a \in DOMAIN live \/ \E t \in Threads : Keeps(t, a)}
Pending == {t \in Threads : pc[t] = "unlink_old" /\ call[t].res # Failed}

\* There are no more records in use than blocks that have one and threads that
\* have not removed one yet.
RecordsHaveRoom ==
    aborted = "no" /\ ~is_exit_done =>
        alloc_batch - alloc_pool <= Cardinality(Recorded) + Cardinality(Pending)

\* From the exit on the table is what it was.
CountIsHeld ==
    /\ held # None => is_exit_done /\ Linking = {}
    /\ held # None /\ ~lost /\ ~reused => held = UserCounted
    /\ report # None => report = UserCounted

HeapInv ==
    /\ TypeOK
    /\ CallsMatch /\ OneHolder /\ InitIsGuarded
    /\ RecordsAreKept /\ RecordsHaveOwners /\ RecordsAreFresh
    /\ RecordsHaveRoom /\ NoFalseAlarm /\ CountIsHeld /\ RecordsAreReused

-----------------------------------------------------------------------------
(* Counting the records of a list *)

Recs == [mem : Addrs, site : Sites]
RecsOf(a) == {r \in Recs : r.mem = a}
SuppressedRecs == {r \in Recs : r.site = "internal"}

\* How many places of the list s have a record of P.
Count(s, P) == Cardinality({i \in DOMAIN s : s[i] \in P})

\* A nonempty set of numbers has a least one.
LEMMA LeastNumber ==
    ASSUME NEW S \in SUBSET Nat, S # {}
    PROVE  Min(S) \in S /\ \A n \in S : Min(S) <= n
<1>1. \E m \in S : \A n \in S : ~(<<n, m>> \in OpToRel(<, Nat))
  BY NatLessThanWellFounded, WFMin
<1>2. ASSUME NEW m \in S, NEW n \in S, ~(<<n, m>> \in OpToRel(<, Nat)) PROVE m <= n
  <2>1. ~(<<n, m>>[1] < <<n, m>>[2])
    BY <1>2 DEF OpToRel
  <2> QED
    BY <2>1
<1>3. \E m \in S : \A n \in S : m <= n
  BY <1>1, <1>2
<1> QED
  BY <1>3 DEF Min

LEMMA CountIsNat ==
    ASSUME NEW s \in Seq(Recs), NEW P
    PROVE  IsFiniteSet({i \in DOMAIN s : s[i] \in P}) /\ Count(s, P) \in Nat
<1>1. DOMAIN s = 1..Len(s) /\ Len(s) \in Nat
  OBVIOUS
<1>2. IsFiniteSet(1..Len(s))
  BY <1>1, FS_Interval
<1>3. {i \in DOMAIN s : s[i] \in P} \in SUBSET (1..Len(s))
  BY <1>1
<1> QED
  BY <1>2, <1>3, FS_Subset, FS_CardinalityType DEF Count

\* A record put before a list is counted once.
LEMMA CountOfLinked ==
    ASSUME NEW s \in Seq(Recs), NEW r \in Recs, NEW P
    PROVE  LET u == <<r>> \o s IN
           /\ u \in Seq(Recs) /\ Len(u) = Len(s) + 1
           /\ \A i \in DOMAIN u : u[i] = r \/ \E j \in DOMAIN s : u[i] = s[j]
           /\ Count(u, P) = Count(s, P) + IF r \in P THEN 1 ELSE 0
<1> DEFINE u == <<r>> \o s
           Old == {i \in DOMAIN s : s[i] \in P}
           New == {i \in DOMAIN u : u[i] \in P}
           f == [i \in Old |-> i + 1]
<1>1. /\ u \in Seq(Recs) /\ Len(u) = Len(s) + 1 /\ Len(s) \in Nat
      /\ DOMAIN s = 1..Len(s) /\ DOMAIN u = 1..(Len(s) + 1)
  OBVIOUS
<1>2. u[1] = r /\ \A i \in 1..Len(s) : u[i + 1] = s[i]
  BY <1>1
<1>3. \A i \in DOMAIN u : u[i] = r \/ (i - 1 \in DOMAIN s /\ u[i] = s[i - 1])
  BY <1>1, <1>2
<1> HIDE DEF u
<1>4. f \in Bijection(Old, New \ {1})
  <2>1. \A i \in New \ {1} : i - 1 \in Old /\ f[i - 1] = i
    BY <1>1, <1>2
  <2>2. \A i \in Old : f[i] \in New \ {1} /\ f[i] - 1 = i
    BY <1>1, <1>2
  <2>3. f \in [Old -> New \ {1}] /\ \A i, j \in Old : f[i] = f[j] => i = j
    BY <2>2
  <2> QED
    BY <2>1, <2>3 DEF Bijection, Injection, IsInjective, Surjection
<1>5. Cardinality(New \ {1}) = Cardinality(Old)
  <2>1. IsFiniteSet(Old)
    BY CountIsNat
  <2> QED
    BY <1>4, <2>1, FS_Bijection DEF ExistsBijection
<1>6. IsFiniteSet(New) /\ Cardinality(New) \in Nat
  BY <1>1, CountIsNat DEF Count
<1>7. Cardinality(New \ {1}) = IF 1 \in New THEN Cardinality(New) - 1 ELSE Cardinality(New)
  BY <1>6, FS_RemoveElement
<1>8. 1 \in New <=> r \in P
  BY <1>1, <1>2
<1>9. Count(u, P) = Count(s, P) + IF r \in P THEN 1 ELSE 0
  BY <1>5, <1>6, <1>7, <1>8 DEF Count
<1> QED
  BY <1>1, <1>3, <1>9 DEF u

\* A record taken out of a list is no longer counted.
LEMMA CountOfUnlinked ==
    ASSUME NEW s \in Seq(Recs), NEW k \in 1..Len(s), NEW P
    PROVE  LET u == RemoveAt(s, k) IN
           /\ u \in Seq(Recs) /\ Len(u) = Len(s) - 1
           /\ \A i \in DOMAIN u : \E j \in DOMAIN s : u[i] = s[j]
           /\ Count(u, P) = Count(s, P) - IF s[k] \in P THEN 1 ELSE 0
<1> DEFINE u == RemoveAt(s, k)
           Old == {i \in DOMAIN s : s[i] \in P}
           New == {i \in DOMAIN u : u[i] \in P}
           To(i) == IF i < k THEN i ELSE i + 1
           From(j) == IF j < k THEN j ELSE j - 1
           f == [i \in New |-> To(i)]
<1>0. Len(s) \in Nat /\ DOMAIN s = 1..Len(s)
  OBVIOUS
<1>1. /\ u \in Seq(Recs) /\ Len(u) = Len(s) - 1 /\ DOMAIN u = 1..(Len(s) - 1)
      /\ \A i \in 1..(Len(s) - 1) : u[i] = s[To(i)]
  <2> DEFINE v == SubSeq(s, 1, k - 1)
             w == SubSeq(s, k + 1, Len(s))
  <2>1. /\ v \in Seq(Recs) /\ Len(v) = k - 1
        /\ \A i \in 1..(k - 1) : v[i] = s[i]
    BY <1>0
  <2>2. w \in Seq(Recs) /\ Len(w) = Len(s) - k
    <3>1. \A i \in (k + 1)..Len(s) : s[i] \in Recs
      BY <1>0
    <3>2. k + 1 \in Int /\ Len(s) \in Int /\ k \in 1..Len(s)
      BY <1>0
    <3>3. w \in Seq(Recs) /\ Len(w) = IF k + 1 <= Len(s) THEN Len(s) - (k + 1) + 1 ELSE 0
      BY <3>1, <3>2, SubSeqProperties
    <3> QED
      BY <3>2, <3>3
  <2>3. \A i \in 1..(Len(s) - k) : w[i] = s[i + k]
    BY <1>0
  <2>4. u = v \o w
    BY DEF RemoveAt
  <2> HIDE DEF v, w, u
  <2>5. u \in Seq(Recs) /\ Len(u) = Len(s) - 1 /\ DOMAIN u = 1..(Len(s) - 1)
    <3>1. u \in Seq(Recs) /\ Len(u) = Len(v) + Len(w)
      BY <2>1, <2>2, <2>4, ConcatProperties
    <3>2. DOMAIN u = 1..Len(u)
      BY <3>1
    <3>3. Len(u) = Len(s) - 1
      BY <1>0, <2>1, <2>2, <3>1
    <3> QED
      BY <3>1, <3>2, <3>3
  <2>6. ASSUME NEW i \in 1..(Len(s) - 1) PROVE u[i] = s[To(i)]
    <3>1. CASE i < k
      BY <1>0, <2>1, <2>2, <2>4, <3>1
    <3>2. CASE ~(i < k)
      <4>1. u[i] = w[i - (k - 1)] /\ i - (k - 1) \in 1..(Len(s) - k)
        BY <1>0, <2>1, <2>2, <2>4, <3>2, SMTT(60)
      <4> QED
        BY <1>0, <2>3, <3>2, <4>1
    <3> QED
      BY <3>1, <3>2
  <2> QED
    BY <2>5, <2>6
<1> HIDE DEF u
<1>2. \A i \in 1..(Len(s) - 1) : To(i) \in DOMAIN s \ {k} /\ From(To(i)) = i
  BY <1>0
<1>3. \A j \in DOMAIN s \ {k} : From(j) \in 1..(Len(s) - 1) /\ To(From(j)) = j
  BY <1>0
<1> HIDE DEF To, From
<1>4. f \in Bijection(New, Old \ {k})
  <2>1. \A i \in New : f[i] \in Old \ {k} /\ From(f[i]) = i
    BY <1>1, <1>2
  <2>2. \A j \in Old \ {k} : From(j) \in New /\ f[From(j)] = j
    BY <1>1, <1>3
  <2>3. f = [i \in New |-> f[i]]
    OBVIOUS
  <2> HIDE DEF f, New, Old
  <2>4. f \in [New -> Old \ {k}]
    BY ONLY <2>1, <2>3
  <2>5. f \in Injection(New, Old \ {k})
    BY ONLY <2>1, <2>4 DEF Injection, IsInjective
  <2>6. f \in Surjection(New, Old \ {k})
    BY ONLY <2>2, <2>4, Zenon DEF Surjection
  <2> QED
    BY ONLY <2>5, <2>6, Zenon DEF Bijection
<1>5. IsFiniteSet(New) /\ IsFiniteSet(Old) /\ Cardinality(Old) \in Nat
  BY <1>1, CountIsNat DEF Count
<1>6. Cardinality(Old \ {k}) = Cardinality(New)
  BY <1>4, <1>5, FS_Bijection DEF ExistsBijection
<1>7. Cardinality(Old \ {k}) = IF k \in Old THEN Cardinality(Old) - 1 ELSE Cardinality(Old)
  BY <1>5, FS_RemoveElement
<1>8. k \in Old <=> s[k] \in P
  BY <1>0
<1>9. Count(u, P) = Count(s, P) - IF s[k] \in P THEN 1 ELSE 0
  BY <1>5, <1>6, <1>7, <1>8 DEF Count
<1>10. \A i \in DOMAIN u : \E j \in DOMAIN s : u[i] = s[j]
  BY <1>1, <1>2
<1> QED
  BY <1>1, <1>9, <1>10 DEF u

\* alloc_free takes out a record of the address.
LEMMA UnlinkedTakesOne ==
    ASSUME NEW a \in Addrs, allocs \in Seq(Recs), IsTraced(a), Unlinked(a)
    PROVE  \E k \in 1..Len(allocs) : allocs[k].mem = a /\ allocs' = RemoveAt(allocs, k)
<1> DEFINE S == {i \in 1..Len(allocs) : allocs[i].mem = a}
<1>1. SelectInSeq(allocs, LAMBDA r : r.mem = a) = IF S # {} THEN Min(S) ELSE 0
  BY DEF SelectInSeq
<1>2. S # {} /\ S \in SUBSET Nat
  BY DEF IsTraced
<1>3. Min(S) \in S
  BY <1>2, LeastNumber
<1> QED
  BY <1>1, <1>2, <1>3 DEF Unlinked

LEMMA RecordsAreCounted ==
    ASSUME NEW s \in Seq(Recs)
    PROVE  /\ \A a \in Addrs : Cardinality({i \in DOMAIN s : s[i].mem = a}) = Count(s, RecsOf(a))
           /\ Cardinality({i \in DOMAIN s : s[i].site = "internal"}) = Count(s, SuppressedRecs)
<1>1. \A i \in DOMAIN s : s[i] \in Recs
  OBVIOUS
<1>2. \A a \in Addrs : {i \in DOMAIN s : s[i] \in RecsOf(a)} = {i \in DOMAIN s : s[i].mem = a}
  BY <1>1 DEF RecsOf
<1>3. {i \in DOMAIN s : s[i] \in SuppressedRecs} = {i \in DOMAIN s : s[i].site = "internal"}
  BY <1>1 DEF SuppressedRecs
<1> QED
  BY <1>2, <1>3 DEF Count

LEMMA RecordsIsNat ==
    ASSUME allocs \in Seq(Recs), NEW a \in Addrs
    PROVE  Records(a) \in Nat /\ (Records(a) = 0 <=> ~IsTraced(a))
<1>1. Records(a) = Count(allocs, RecsOf(a))
  BY RecordsAreCounted DEF Records
<1>2. \A i \in DOMAIN allocs : allocs[i] \in RecsOf(a) <=> allocs[i].mem = a
  BY DEF RecsOf
<1>3. {i \in DOMAIN allocs : allocs[i] \in RecsOf(a)} = {} <=> ~IsTraced(a)
  BY <1>2 DEF IsTraced
<1> QED
  BY <1>1, <1>3, CountIsNat, FS_EmptySet DEF Count

\* What a step does to the table when it puts this record into it, or takes out
\* one of this address.
RecordComes(r) ==
    /\ allocs' \in Seq(Recs) /\ Len(allocs') = Len(allocs) + 1
    /\ alloc_count' = alloc_count + 1
    /\ \A i \in DOMAIN allocs' : allocs'[i] = r \/ \E j \in DOMAIN allocs : allocs'[i] = allocs[j]
    /\ \A a \in Addrs : Records(a)' = Records(a) + IF a = r.mem THEN 1 ELSE 0

RecordGoes(a) ==
    /\ allocs' \in Seq(Recs) /\ Len(allocs') = Len(allocs) - 1
    /\ alloc_count' = alloc_count - 1 /\ alloc_pool' = alloc_pool + 1
    /\ UNCHANGED alloc_batch
    /\ \A i \in DOMAIN allocs' : \E j \in DOMAIN allocs : allocs'[i] = allocs[j]
    /\ \A b \in Addrs : Records(b)' = Records(b) - IF b = a THEN 1 ELSE 0

LEMMA LinkedComes ==
    ASSUME NEW a \in Addrs, NEW s \in Sites, allocs \in Seq(Recs), Linked(a, s)
    PROVE  RecordComes(Record(a, s))
<1> DEFINE r == Record(a, s)
<1>1. r \in Recs /\ allocs' = <<r>> \o allocs
  BY DEF Record, Recs, Linked
<1>2. \A b \in Addrs : r \in RecsOf(b) <=> b = r.mem
  BY <1>1 DEF RecsOf
<1> HIDE DEF r
<1>3. allocs' \in Seq(Recs) /\ Len(allocs') = Len(allocs) + 1
  BY <1>1, CountOfLinked
<1>4. \A i \in DOMAIN allocs' : allocs'[i] = r \/ \E j \in DOMAIN allocs : allocs'[i] = allocs[j]
  BY <1>1, CountOfLinked
<1>5. ASSUME NEW b \in Addrs PROVE Records(b)' = Records(b) + IF b = r.mem THEN 1 ELSE 0
  <2>1. Count(allocs', RecsOf(b)) = Count(allocs, RecsOf(b)) + IF r \in RecsOf(b) THEN 1 ELSE 0
    BY <1>1, CountOfLinked
  <2> QED
    BY <1>2, <1>3, <2>1, RecordsAreCounted DEF Records
<1>6. alloc_count' = alloc_count + 1
  BY DEF Linked
<1> QED
  BY <1>3, <1>4, <1>5, <1>6 DEF RecordComes, r

LEMMA UnlinkedGoes ==
    ASSUME NEW a \in Addrs, allocs \in Seq(Recs), IsTraced(a), Unlinked(a)
    PROVE  RecordGoes(a)
<1>1. PICK k \in 1..Len(allocs) : allocs[k].mem = a /\ allocs' = RemoveAt(allocs, k)
  BY UnlinkedTakesOne
<1>2. allocs[k] \in Recs
  OBVIOUS
<1>3. \A b \in Addrs : allocs[k] \in RecsOf(b) <=> b = a
  BY <1>1, <1>2 DEF RecsOf
<1>4. allocs' \in Seq(Recs) /\ Len(allocs') = Len(allocs) - 1
  BY <1>1, CountOfUnlinked
<1>5. \A i \in DOMAIN allocs' : \E j \in DOMAIN allocs : allocs'[i] = allocs[j]
  BY <1>1, CountOfUnlinked
<1>6. ASSUME NEW b \in Addrs PROVE Records(b)' = Records(b) - IF b = a THEN 1 ELSE 0
  <2>1. Count(allocs', RecsOf(b)) = Count(allocs, RecsOf(b)) - IF allocs[k] \in RecsOf(b) THEN 1 ELSE 0
    BY <1>1, CountOfUnlinked
  <2> QED
    BY <1>3, <1>4, <2>1, RecordsAreCounted DEF Records
<1>7. alloc_count' = alloc_count - 1 /\ alloc_pool' = alloc_pool + 1 /\ UNCHANGED alloc_batch
  BY DEF Unlinked
<1> QED
  BY <1>4, <1>5, <1>6, <1>7 DEF RecordGoes

\* What alloc_free does: nothing after the exit, else it takes out a record of
\* the address or ends the program.
LEMMA UntraceCases ==
    ASSUME NEW t \in Threads, allocs \in Seq(Recs), call[t].ptr \in Addrs, Untrace(t)
    PROVE  \/ is_exit_done /\ UNCHANGED <<tableVars, aborted>>
           \/ ~is_exit_done /\ Records(call[t].ptr) > 0 /\ RecordGoes(call[t].ptr) /\ UNCHANGED aborted
           \/ /\ ~is_exit_done /\ Records(call[t].ptr) = 0
              /\ UNCHANGED tableVars /\ aborted' = "freeing bad memory"
<1>1. Records(call[t].ptr) \in Nat /\ (Records(call[t].ptr) = 0 <=> ~IsTraced(call[t].ptr))
  BY RecordsIsNat
<1>2. CASE is_exit_done
  BY <1>2 DEF Untrace, tableVars
<1>3. CASE ~is_exit_done /\ IsTraced(call[t].ptr)
  <2>1. Unlinked(call[t].ptr) /\ UNCHANGED aborted
    BY <1>3 DEF Untrace
  <2>2. RecordGoes(call[t].ptr)
    BY <1>3, <2>1, UnlinkedGoes
  <2>3. Records(call[t].ptr) > 0
    BY <1>1, <1>3
  <2> QED
    BY <1>3, <2>1, <2>2, <2>3
<1>4. CASE ~is_exit_done /\ ~IsTraced(call[t].ptr)
  BY <1>1, <1>4 DEF Untrace, Aborts, tableVars
<1> QED
  BY <1>2, <1>3, <1>4
-----------------------------------------------------------------------------
(* The steps *)

CallNext(t) ==
    \E o \in {"alloc", "strdup", "free", "realloc"}, a \in Addrs \cup {None}, s \in Sites :
        Call(t, o, a, s)

\* Every step is a thread's.
ThreadNext(t) ==
    \/ CallNext(t)
    \/ InitBegins(t) \/ InitNested(t) \/ InitResolves(t) \/ InitEnds(t)
    \/ StaticAgain(t) \/ StrdupAtExit(t) \/ Allocate(t) \/ Take(t)
    \/ TakeNothing(t) \/ Link(t) \/ Nested(t) \/ Untraced(t)
    \/ DefaultFree(t) \/ ReallocInPlace(t) \/ ReallocMoves(t) \/ ReallocFrees(t)
    \/ ReallocFails(t) \/ UnlinkOld(t) \/ Exit(t) \/ Report(t)

LEMMA NextIsOfThread ==
    ASSUME Next PROVE \E t \in Threads : ThreadNext(t)
BY DEF Next, Step, CallNext, ThreadNext

\* What a step leaves alone when it is not about the blocks or the table.
USE DEF initVars, tableVars, exitVars, blockVars

Calls == [op : {"none", "alloc", "strdup", "free", "realloc"}, ptr : Addrs \cup {None},
          res : Addrs \cup {None, Failed}, site : Sites]

\* A call gets its result.
LEMMA ResultIsSet ==
    ASSUME TypeOK, NEW t \in Threads, NEW a \in Addrs \cup {Failed}, NEW s \in Sites,
           \/ call' = [call EXCEPT ![t].res = a] /\ s = call[t].site
           \/ call' = [call EXCEPT ![t].res = a, ![t].site = s]
    PROVE  /\ call' \in [Threads -> Calls]
           /\ call'[t].op = call[t].op /\ call'[t].ptr = call[t].ptr
           /\ call'[t].res = a /\ call'[t].site = s
           /\ \A u \in Threads \ {t} : call'[u] = call[u]
<1>1. PICK c \in Calls : c = call[t]
  BY DEF TypeOK, Calls
<1>2. call' = [call EXCEPT ![t] = [c EXCEPT !.res = a, !.site = s]]
  <2>1. CASE call' = [call EXCEPT ![t].res = a] /\ s = call[t].site
    <3>1. [c EXCEPT !.res = a] = [c EXCEPT !.res = a, !.site = s]
      BY <1>1, <2>1 DEF Calls
    <3> QED
      BY <1>1, <2>1, <3>1
  <2>2. CASE call' = [call EXCEPT ![t].res = a, ![t].site = s]
    <3>1. [call EXCEPT ![t].res = a, ![t].site = s] = [call EXCEPT ![t] = [c EXCEPT !.res = a, !.site = s]]
      BY <1>1 DEF TypeOK
    <3> QED
      BY <2>2, <3>1
  <2> QED
    BY <2>1, <2>2
<1>3. [c EXCEPT !.res = a, !.site = s] \in Calls
  BY DEF Calls
<1>4. call \in [Threads -> Calls]
  BY DEF TypeOK, Calls
<1>5. call' \in [Threads -> Calls] /\ call'[t] = [c EXCEPT !.res = a, !.site = s]
  BY <1>2, <1>3, <1>4
<1>6. \A u \in Threads \ {t} : call'[u] = call[u]
  BY <1>2, <1>4
<1>7. LET d == [c EXCEPT !.res = a, !.site = s] IN
      d.op = c.op /\ d.ptr = c.ptr /\ d.res = a /\ d.site = s
  BY DEF Calls
<1> QED
  BY <1>1, <1>5, <1>6, <1>7

\* A call ends.
LEMMA EndsCall ==
    ASSUME TypeOK, NEW t \in Threads, Ends(t)
    PROVE  /\ pc' \in [Threads -> Pcs] /\ call' \in [Threads -> Calls]
           /\ pc'[t] = "idle" /\ call'[t] = NoCall
           /\ \A u \in Threads \ {t} : pc'[u] = pc[u] /\ call'[u] = call[u]
BY DEF TypeOK, Ends, Goes, NoCall, Calls, Sites, Pcs

LEMMA ReturnsBlock ==
    ASSUME TypeOK, NEW t \in Threads, NEW a \in Addrs, NEW s \in Sites, Returns(t, a, s)
    PROVE  /\ live' \in [DOMAIN live' -> Sites] /\ DOMAIN live' = DOMAIN live \cup {a}
           /\ DOMAIN live' \subseteq Addrs
           /\ live'[a] = s /\ \A b \in DOMAIN live \ {a} : live'[b] = live[b]
           /\ pc' \in [Threads -> Pcs] /\ call' \in [Threads -> Calls]
           /\ pc'[t] = "idle" /\ call'[t] = NoCall
           /\ \A u \in Threads \ {t} : pc'[u] = pc[u] /\ call'[u] = call[u]
<1>1. Ends(t)
  BY DEF Returns
<1>2. /\ live' \in [DOMAIN live' -> Sites] /\ DOMAIN live' = DOMAIN live \cup {a}
      /\ DOMAIN live' \subseteq Addrs
      /\ live'[a] = s /\ \A b \in DOMAIN live \ {a} : live'[b] = live[b]
  BY DEF TypeOK, Returns
<1> QED
  BY <1>1, <1>2, EndsCall

LEMMA UntraceTypes ==
    ASSUME TypeOK, NEW t \in Threads, call[t].ptr \in Addrs, Untrace(t)
    PROVE  /\ allocs' \in Seq(Recs) /\ alloc_count' \in Int
           /\ alloc_pool' \in Nat /\ alloc_batch' \in Nat
<1>1. /\ allocs \in Seq(Recs) /\ alloc_count \in Int
      /\ alloc_pool \in Nat /\ alloc_batch \in Nat
  BY DEF TypeOK, Recs
<1>2. UNCHANGED tableVars \/ RecordGoes(call[t].ptr)
  BY <1>1, UntraceCases
<1> QED
  BY <1>1, <1>2, SMTT(60) DEF RecordGoes

LEMMA TypeIsKept ==
    ASSUME TypeOK, CallsMatch, Next
    PROVE  TypeOK'
<1>a. \A t \in Threads, a \in Addrs, s \in Sites :
        Returns(t, a, s) =>
          /\ pc' \in [Threads -> Pcs] /\ call' \in [Threads -> Calls]
          /\ live' \in [DOMAIN live' -> Sites] /\ DOMAIN live' \subseteq Addrs
  BY ReturnsBlock
<1>b. \A t \in Threads : Ends(t) => pc' \in [Threads -> Pcs] /\ call' \in [Threads -> Calls]
  BY EndsCall
<1> USE HeapAssumption DEF HeapAssumption, TypeOK, At, Goes, NoCall, Pcs, Sites
<1>0. PICK t \in Threads : ThreadNext(t)
  BY NextIsOfThread
<1>1. CASE CallNext(t)
  BY <1>1 DEF CallNext, Call, Touched
<1>2. CASE InitBegins(t)
  BY <1>2 DEF InitBegins
<1>3. CASE InitNested(t)
  BY <1>3 DEF InitNested, Aborts
<1>4. CASE InitResolves(t)
  BY <1>4 DEF InitResolves
<1>5. CASE InitEnds(t)
  BY <1>5 DEF InitEnds, LockReleased, Aborts
<1>6. CASE StaticAgain(t)
  BY <1>6 DEF StaticAgain, Aborts
<1>7. CASE StrdupAtExit(t)
  BY <1>7 DEF StrdupAtExit, Aborts, Enters
<1>8. CASE Allocate(t)
  <2>1. CASE heap = Addrs /\ Ends(t) /\ UNCHANGED heap
    BY <1>8, <2>1, <1>b DEF Allocate, Calls
  <2>2. CASE \E a \in Addrs \ heap : heap' = heap \cup {a} /\ call' = [call EXCEPT ![t].res = a] /\ Goes(t, "take")
    <3>1. call' \in [Threads -> Calls] /\ heap' \subseteq Addrs
      BY <2>2, ResultIsSet, ZenonT(120)
    <3> QED
      BY <1>8, <2>2, <3>1 DEF Allocate, Calls
  <2> QED
    BY <1>8, <2>1, <2>2 DEF Allocate
<1>9. CASE Take(t)
  BY <1>9 DEF Take, RecordTaken, Reuses
<1>10. CASE TakeNothing(t)
  BY <1>10, <1>a DEF TakeNothing, CallsMatch, CallMatches, Calls
<1>11. CASE Link(t)
  <2>1. call[t].res \in Addrs /\ call[t].site \in Sites
    BY <1>11 DEF Link, CallsMatch, CallMatches
  <2>2. RecordComes(Record(call[t].res, call[t].site))
    BY <1>11, <2>1, LinkedComes DEF Link, Recs
  <2>3. Returns(t, call[t].res, call[t].site)
    BY <1>11 DEF Link
  <2>4. /\ pc' \in [Threads -> Pcs] /\ call' \in [Threads -> Calls]
        /\ live' \in [DOMAIN live' -> Sites] /\ DOMAIN live' \subseteq Addrs
    BY <2>1, <2>3, <1>a
  <2> QED
    BY <1>11, <2>2, <2>4 DEF Link, RecordComes, Recs, Calls
<1>12. CASE Nested(t)
  BY <1>12 DEF Nested, TracedAt
<1>13. CASE Untraced(t)
  <2>1. call[t].ptr \in Addrs
    BY <1>13 DEF Untraced, Enters, CallsMatch, CallMatches, Entering
  <2>2. allocs' \in Seq(Recs) /\ alloc_count' \in Int /\ alloc_pool' \in Nat /\ alloc_batch' \in Nat
    BY <1>13, <2>1, UntraceTypes DEF Untraced
  <2> QED
    BY <1>13, <2>2 DEF Untraced, Recs
<1>14. CASE DefaultFree(t)
  BY <1>14, <1>b DEF DefaultFree, Calls
<1>15. CASE ReallocInPlace(t)
  <2>1. call[t].ptr \in Addrs /\ call[t].site \in Sites
    BY <1>15 DEF ReallocInPlace, Enters, CallsMatch, CallMatches, Entering
  <2>2. Returns(t, call[t].ptr, call[t].site)
    BY <1>15 DEF ReallocInPlace
  <2>3. /\ pc' \in [Threads -> Pcs] /\ call' \in [Threads -> Calls]
        /\ live' \in [DOMAIN live' -> Sites] /\ DOMAIN live' \subseteq Addrs
    BY <2>1, <2>2, <1>a
  <2> QED
    BY <1>15, <2>3 DEF ReallocInPlace, Calls
<1>16. CASE ReallocMoves(t)
  <2>1. call' \in [Threads -> Calls] /\ heap' \subseteq Addrs
    BY <1>16, ResultIsSet, ZenonT(60) DEF ReallocMoves
  <2> QED
    BY <1>16, <2>1 DEF ReallocMoves, Calls
<1>17. CASE ReallocFrees(t)
  BY <1>17 DEF ReallocFrees, Enters
<1>18. CASE ReallocFails(t)
  <2>1. call' \in [Threads -> Calls]
    BY <1>18, ResultIsSet DEF ReallocFails
  <2> QED
    BY <1>18, <2>1 DEF ReallocFails, Calls
<1>19. CASE UnlinkOld(t)
  <2>1. call[t].ptr \in Addrs /\ call[t].site \in Sites
    BY <1>19 DEF UnlinkOld, CallsMatch, CallMatches
  <2>2. allocs' \in Seq(Recs) /\ alloc_count' \in Int /\ alloc_pool' \in Nat /\ alloc_batch' \in Nat
    BY <1>19, <2>1, UntraceTypes DEF UnlinkOld
  <2>3. /\ pc' \in [Threads -> Pcs] /\ call' \in [Threads -> Calls]
        /\ live' \in [DOMAIN live' -> Sites] /\ DOMAIN live' \subseteq Addrs
    <3>1. CASE call[t].res = None
      BY <1>19, <3>1, <1>b DEF UnlinkOld
    <3>2. CASE call[t].res = Failed
      <4>1. Returns(t, call[t].ptr, call[t].site)
        BY <1>19, <3>2 DEF UnlinkOld
      <4> QED
        BY <2>1, <4>1, <1>a
    <3>3. CASE call[t].res \notin {None, Failed}
      BY <1>19, <3>3 DEF UnlinkOld, Calls
    <3> QED
      BY <3>1, <3>2, <3>3
  <2> QED
    BY <1>19, <2>2, <2>3 DEF UnlinkOld, Recs, Calls
<1>20. CASE Exit(t)
  BY <1>20 DEF Exit
<1>21. CASE Report(t)
  BY <1>21 DEF Report
<1> QED
  BY <1>0, <1>1, <1>2, <1>3, <1>4, <1>5, <1>6, <1>7, <1>8, <1>9, <1>10, <1>11, <1>12, <1>13, <1>14, <1>15, <1>16, <1>17, <1>18, <1>19, <1>20, <1>21 DEF ThreadNext

\* A step is about one thread.
LEMMA OthersStay ==
    ASSUME TypeOK, NEW t \in Threads, ThreadNext(t)
    PROVE  \A u \in Threads \ {t} : pc'[u] = pc[u] /\ call'[u] = call[u]
<1>a. \A a, s : Returns(t, a, s) => Ends(t)
  BY DEF Returns
<1> USE DEF TypeOK, Goes, Ends
<1>1. CASE CallNext(t)
  BY <1>1 DEF CallNext, Call
<1>2. CASE InitBegins(t)
  BY <1>2 DEF InitBegins
<1>3. CASE InitNested(t)
  BY <1>3 DEF InitNested
<1>4. CASE InitResolves(t)
  BY <1>4 DEF InitResolves
<1>5. CASE InitEnds(t)
  BY <1>5 DEF InitEnds
<1>6. CASE StaticAgain(t)
  BY <1>6 DEF StaticAgain
<1>7. CASE StrdupAtExit(t)
  BY <1>7 DEF StrdupAtExit
<1>8. CASE Allocate(t)
  BY <1>8 DEF Allocate
<1>9. CASE Take(t)
  BY <1>9 DEF Take
<1>10. CASE TakeNothing(t)
  BY <1>10, <1>a DEF TakeNothing
<1>11. CASE Link(t)
  BY <1>11, <1>a DEF Link
<1>12. CASE Nested(t)
  BY <1>12 DEF Nested
<1>13. CASE Untraced(t)
  BY <1>13 DEF Untraced
<1>14. CASE DefaultFree(t)
  BY <1>14 DEF DefaultFree
<1>15. CASE ReallocInPlace(t)
  BY <1>15, <1>a DEF ReallocInPlace
<1>16. CASE ReallocMoves(t)
  BY <1>16 DEF ReallocMoves
<1>17. CASE ReallocFrees(t)
  BY <1>17 DEF ReallocFrees
<1>18. CASE ReallocFails(t)
  BY <1>18 DEF ReallocFails
<1>19. CASE UnlinkOld(t)
  BY <1>19, <1>a DEF UnlinkOld
<1>20. CASE Exit(t)
  BY <1>20 DEF Exit
<1>21. CASE Report(t)
  BY <1>21 DEF Report
<1> QED
  BY <1>1, <1>2, <1>3, <1>4, <1>5, <1>6, <1>7, <1>8, <1>9, <1>10, <1>11, <1>12, <1>13, <1>14, <1>15, <1>16, <1>17, <1>18, <1>19, <1>20, <1>21 DEF ThreadNext

LEMMA CallsStillMatch ==
    ASSUME TypeOK, CallsMatch, Next
    PROVE  CallsMatch'
<1>0. PICK t \in Threads : ThreadNext(t)
  BY NextIsOfThread
<1>a. \A a, s : Returns(t, a, s) => Ends(t)
  BY DEF Returns
<1>b. Ends(t) => CallMatches(t)'
  BY EndsCall DEF CallMatches, Entering
<1>c. CallMatches(t) /\ HeapAssumption
  BY HeapAssumption DEF CallsMatch
<1>d. pc \in [Threads -> Pcs] /\ call \in [Threads -> Calls]
  BY DEF TypeOK, Calls
<1>e. \A a \in Addrs \cup {Failed}, s \in Sites :
        (\/ call' = [call EXCEPT ![t].res = a] /\ s = call[t].site
         \/ call' = [call EXCEPT ![t].res = a, ![t].site = s])
        => call'[t].op = call[t].op /\ call'[t].ptr = call[t].ptr /\ call'[t].res = a
  BY ResultIsSet
<1>f. call[t].site \in Sites
  BY <1>d DEF Calls
<1> USE <1>c, <1>d DEF At, Goes, CallMatches, Entering, Enters
<1>1. ASSUME CallNext(t) PROVE CallMatches(t)'
  <2>1. PICK o \in {"alloc", "strdup", "free", "realloc"}, a \in Addrs \cup {None}, s \in Sites :
            Call(t, o, a, s)
    BY <1>1 DEF CallNext
  <2>2. call' = [call EXCEPT ![t] = [op |-> o, ptr |-> a, res |-> None, site |-> IF a = None THEN s ELSE live[a]]]
        /\ pc'[t] \in {"enter", "lock"}
    BY <2>1 DEF Call, Touched
  <2>3. call'[t].op = o /\ call'[t].ptr = a /\ call'[t].res = None
    BY <2>2
  <2>4. o \in {"free", "realloc"} <=> a \in Addrs
    BY <2>1 DEF Call, TypeOK, HeapAssumption
  <2> QED
    BY <2>2, <2>3, <2>4
<1>2. ASSUME InitBegins(t) PROVE CallMatches(t)'
  BY <1>2 DEF InitBegins
<1>3. ASSUME InitNested(t) PROVE CallMatches(t)'
  BY <1>3 DEF InitNested
<1>4. ASSUME InitResolves(t) PROVE CallMatches(t)'
  BY <1>4 DEF InitResolves
<1>5. ASSUME InitEnds(t) PROVE CallMatches(t)'
  BY <1>5 DEF InitEnds
<1>6. ASSUME StaticAgain(t) PROVE CallMatches(t)'
  BY <1>6 DEF StaticAgain
<1>7. ASSUME StrdupAtExit(t) PROVE CallMatches(t)'
  BY <1>7 DEF StrdupAtExit
<1>8. ASSUME Allocate(t) PROVE CallMatches(t)'
  BY <1>8, <1>a, <1>b, <1>e, <1>f DEF Allocate, HeapAssumption
<1>9. ASSUME Take(t) PROVE CallMatches(t)'
  BY <1>9 DEF Take
<1>10. ASSUME TakeNothing(t) PROVE CallMatches(t)'
  BY <1>10, <1>a, <1>b DEF TakeNothing
<1>11. ASSUME Link(t) PROVE CallMatches(t)'
  BY <1>11, <1>a, <1>b DEF Link
<1>12. ASSUME Nested(t) PROVE CallMatches(t)'
  BY <1>12 DEF Nested
<1>13. ASSUME Untraced(t) PROVE CallMatches(t)'
  BY <1>13 DEF Untraced
<1>14. ASSUME DefaultFree(t) PROVE CallMatches(t)'
  BY <1>14, <1>a, <1>b DEF DefaultFree
<1>15. ASSUME ReallocInPlace(t) PROVE CallMatches(t)'
  BY <1>15, <1>a, <1>b DEF ReallocInPlace, HeapAssumption
<1>16. ASSUME ReallocMoves(t) PROVE CallMatches(t)'
  <2>1. PICK a \in Addrs \ heap, s \in Sites : call' = [call EXCEPT ![t].res = a, ![t].site = s]
    BY <1>16 DEF ReallocMoves
  <2>2. call'[t].op = call[t].op /\ call'[t].ptr = call[t].ptr /\ call'[t].res = a
    BY <1>e, <2>1
  <2>3. pc'[t] = "unlink_old" /\ call[t].op = "realloc" /\ call[t].ptr \in Addrs
    BY <1>16 DEF ReallocMoves
  <2> QED
    BY <2>2, <2>3 DEF HeapAssumption
<1>17. ASSUME ReallocFrees(t) PROVE CallMatches(t)'
  BY <1>17 DEF ReallocFrees, HeapAssumption
<1>18. ASSUME ReallocFails(t) PROVE CallMatches(t)'
  BY <1>18, <1>e, <1>f, ZenonT(60) DEF ReallocFails, HeapAssumption
<1>19. ASSUME UnlinkOld(t) PROVE CallMatches(t)'
  <2>1. CASE call[t].res = None
    BY <1>19, <1>b, <2>1 DEF UnlinkOld
  <2>2. CASE call[t].res = Failed
    <3>1. Returns(t, call[t].ptr, call[t].site)
      BY <1>19, <1>c, <2>2 DEF UnlinkOld, HeapAssumption
    <3> QED
      BY <1>a, <1>b, <3>1
  <2>3. CASE call[t].res \notin {None, Failed}
    <3>1. pc'[t] = "take" /\ call' = call
      BY <1>19, <2>3 DEF UnlinkOld
    <3>2. call[t].res \in Addrs
      BY <2>3 DEF Calls
    <3> QED
      BY <3>1, <3>2
  <2> QED
    BY <2>1, <2>2, <2>3
<1>20. ASSUME Exit(t) PROVE CallMatches(t)'
  BY <1>20 DEF Exit, NoCall
<1>21. ASSUME Report(t) PROVE CallMatches(t)'
  BY <1>21 DEF Report, NoCall
<1>g. CallMatches(t)'
  BY <1>0, <1>1, <1>2, <1>3, <1>4, <1>5, <1>6, <1>7, <1>8, <1>9, <1>10, <1>11, <1>12, <1>13, <1>14, <1>15, <1>16, <1>17, <1>18, <1>19, <1>20, <1>21 DEF ThreadNext
<1>h. lost => lost'
  BY <1>0 DEF ThreadNext, CallNext, Call, InitBegins, InitNested, InitResolves, InitEnds, StaticAgain, StrdupAtExit,
     Allocate, Take, TakeNothing, Link, Nested, Untraced,
     DefaultFree, ReallocInPlace, ReallocMoves, ReallocFrees, ReallocFails, UnlinkOld,
     Exit, Report
<1> QED
  BY <1>0, <1>g, <1>h, OthersStay DEF CallsMatch, CallMatches

LEMMA InitStaysGuarded ==
    ASSUME TypeOK, InitIsGuarded, Next
    PROVE  InitIsGuarded'
<1>0. PICK t \in Threads : ThreadNext(t)
  BY NextIsOfThread
<1>a. \A u \in Threads \ {t} : pc'[u] = pc[u]
  BY <1>0, OthersStay
<1>b. pc \in [Threads -> Pcs]
  BY DEF TypeOK
<1>c. \A a, s : Returns(t, a, s) => Ends(t)
  BY DEF Returns
<1>d. Ends(t) => pc'[t] = "idle"
  BY <1>b DEF Ends, Goes
<1> USE HeapAssumption, <1>a, <1>b DEF HeapAssumption, InitIsGuarded, At, Running, Goes, Inside
<1>1. CASE InitBegins(t)
  BY <1>1 DEF InitBegins, LockFree
<1>2. CASE InitResolves(t)
  BY <1>2 DEF InitResolves
<1>3. CASE InitEnds(t)
  BY <1>3, ZenonT(60) DEF InitEnds, LockReleased, Aborts
<1>4. CASE /\ UNCHANGED <<initVars, raced>> /\ aborted = "no"
           /\ (pc'[t] = pc[t] \/ pc'[t] \in {"idle", "lock"}
               \/ (is_init_done /\ pc'[t] \in Inside))
  BY <1>4
<1>5. CASE CallNext(t)
  BY <1>4, <1>5 DEF CallNext, Call, Touched
<1>6. CASE InitNested(t)
  BY <1>4, <1>6 DEF InitNested
<1>7. CASE StaticAgain(t)
  BY <1>4, <1>7 DEF StaticAgain, Enters
<1>8. CASE StrdupAtExit(t)
  BY <1>4, <1>8 DEF StrdupAtExit, Enters
<1>9. CASE Allocate(t)
  BY <1>4, <1>9, <1>c, <1>d DEF Allocate, Enters
<1>10. CASE Take(t)
  BY <1>4, <1>10 DEF Take
<1>11. CASE TakeNothing(t)
  BY <1>4, <1>11, <1>c, <1>d DEF TakeNothing
<1>12. CASE Link(t)
  BY <1>4, <1>12, <1>c, <1>d DEF Link
<1>13. CASE Nested(t)
  BY <1>4, <1>13 DEF Nested
<1>14. CASE Untraced(t)
  BY <1>4, <1>14 DEF Untraced, Enters
<1>15. CASE DefaultFree(t)
  BY <1>4, <1>15, <1>c, <1>d DEF DefaultFree
<1>16. CASE ReallocInPlace(t)
  BY <1>4, <1>16, <1>c, <1>d DEF ReallocInPlace, Enters
<1>17. CASE ReallocMoves(t)
  BY <1>4, <1>17 DEF ReallocMoves, Enters
<1>18. CASE ReallocFrees(t)
  BY <1>4, <1>18 DEF ReallocFrees, Enters
<1>19. CASE ReallocFails(t)
  BY <1>4, <1>19 DEF ReallocFails, Enters
<1>20. CASE UnlinkOld(t)
  BY <1>4, <1>20, <1>c, <1>d DEF UnlinkOld
<1>21. CASE Exit(t)
  BY <1>4, <1>21 DEF Exit
<1>22. CASE Report(t)
  BY <1>4, <1>22 DEF Report
<1> QED
  BY <1>0, <1>1, <1>2, <1>3, <1>5, <1>6, <1>7, <1>8, <1>9, <1>10, <1>11, <1>12, <1>13, <1>14, <1>15, <1>16, <1>17, <1>18, <1>19, <1>20, <1>21, <1>22 DEF ThreadNext

LEMMA HoldersStayApart ==
    ASSUME TypeOK, CallsMatch, OneHolder, Next
    PROVE  OneHolder'
<1>0. PICK t \in Threads : ThreadNext(t)
  BY NextIsOfThread
<1>a. \A u \in Threads \ {t}, a \in Addrs : InHands(u, a)' <=> InHands(u, a)
  BY <1>0, OthersStay DEF InHands
<1>b. \A a, s : Returns(t, a, s) => Ends(t) /\ DOMAIN live' = DOMAIN live \cup {a}
  BY DEF Returns
<1>c. Ends(t) => \A a \in Addrs : ~InHands(t, a)'
  BY EndsCall DEF InHands, Entering
<1>d. pc \in [Threads -> Pcs] /\ call \in [Threads -> Calls]
  BY DEF TypeOK, Calls
<1>e. \A a \in Addrs \cup {Failed}, s \in Sites :
        (\/ call' = [call EXCEPT ![t].res = a] /\ s = call[t].site
         \/ call' = [call EXCEPT ![t].res = a, ![t].site = s])
        => call'[t].op = call[t].op /\ call'[t].ptr = call[t].ptr /\ call'[t].res = a
  BY ResultIsSet
<1>f. call[t].site \in Sites /\ CallMatches(t) /\ HeapAssumption
  BY <1>d, HeapAssumption DEF Calls, CallsMatch
<1>g. heap \subseteq Addrs /\ hidden \subseteq Addrs
  BY DEF TypeOK
\* The cases: nothing moves; t gives up or passes on what it has.
<1>1. ASSUME UNCHANGED <<heap, hidden>>, DOMAIN live' = DOMAIN live,
             \A a \in Addrs : InHands(t, a)' => InHands(t, a)
      PROVE  OneHolder'
  BY <1>a, <1>1 DEF OneHolder
<1>2. ASSUME NEW a \in Addrs, InHands(t, a), UNCHANGED <<heap, hidden>>,
             DOMAIN live' = DOMAIN live \cup {a}, \A b \in Addrs : ~InHands(t, b)'
      PROVE  OneHolder'
  BY <1>a, <1>2, <1>g DEF OneHolder
<1>3. ASSUME NEW a \in Addrs, InHands(t, a), heap' = heap \ {a}, UNCHANGED hidden,
             DOMAIN live' = DOMAIN live, \A b \in Addrs : ~InHands(t, b)'
      PROVE  OneHolder'
  BY <1>a, <1>3, <1>g DEF OneHolder
<1> USE <1>d, <1>f DEF At, Goes, Entering, Enters, InHands, CallMatches
<1>4. ASSUME CallNext(t) PROVE OneHolder'
  <2>1. PICK o \in {"alloc", "strdup", "free", "realloc"}, a \in Addrs \cup {None}, s \in Sites :
            Call(t, o, a, s)
    BY <1>4 DEF CallNext
  <2>2. pc'[t] \in {"enter", "lock"} /\ call'[t].ptr = a
    BY <2>1 DEF Call, Touched
  <2>3. DOMAIN live' = DOMAIN live \ {a} /\ UNCHANGED <<heap, hidden>>
    BY <2>1 DEF Call
  <2>4. \A b \in Addrs : InHands(t, b)' <=> b = a
    BY <2>2
  <2>5. a = None \/ a \in DOMAIN live
    BY <2>1 DEF Call
  <2>6. \A u \in Threads \ {t}, b \in Addrs : InHands(u, b) => b \in heap /\ b \notin DOMAIN live /\ b \notin hidden
    BY DEF OneHolder
  <2> HIDE DEF InHands
  <2> QED
    BY <1>a, <2>3, <2>4, <2>5, <2>6, <1>g DEF OneHolder
<1>5. ASSUME Allocate(t) PROVE OneHolder'
  <2>1. CASE UNCHANGED heap /\ Ends(t)
    BY <1>5, <1>1, <1>c, <2>1 DEF Allocate
  <2>2. CASE \E a \in Addrs \ heap : /\ heap' = heap \cup {a} /\ call' = [call EXCEPT ![t].res = a]
                                     /\ Goes(t, "take")
    <3>1. PICK a \in Addrs \ heap : /\ heap' = heap \cup {a} /\ call' = [call EXCEPT ![t].res = a]
                                    /\ Goes(t, "take")
      BY <2>2
    <3>2. call'[t].res = a
      BY <1>e, <3>1
    <3>3. \A b \in Addrs : InHands(t, b)' <=> b = a
      BY <3>1, <3>2
    <3>4. UNCHANGED <<live, hidden>>
      BY <1>5 DEF Allocate
    <3> HIDE DEF InHands
    <3> QED
      BY <1>a, <3>1, <3>3, <3>4, <1>g DEF OneHolder
  <2> QED
    BY <1>5, <2>1, <2>2 DEF Allocate
<1>6. ASSUME Nested(t) PROVE OneHolder'
  <2>1. \A b \in Addrs : InHands(t, b)' <=> InHands(t, b)
    BY <1>6 DEF Nested
  <2>2. /\ live' = live
        /\ \/ \E a \in Addrs \ heap : heap' = heap \cup {a} /\ hidden' = hidden \cup {a}
           \/ \E a \in hidden : heap' = heap \ {a} /\ hidden' = hidden \ {a}
    BY <1>6 DEF Nested
  <2>3. \A u \in Threads, b \in Addrs : InHands(u, b)' <=> InHands(u, b)
    BY <1>a, <2>1
  <2> HIDE DEF InHands
  <2>4. CASE \E a \in Addrs \ heap : heap' = heap \cup {a} /\ hidden' = hidden \cup {a}
    BY <2>2, <2>3, <2>4 DEF OneHolder
  <2>5. CASE \E a \in hidden : heap' = heap \ {a} /\ hidden' = hidden \ {a}
    <3>1. PICK a \in hidden : heap' = heap \ {a} /\ hidden' = hidden \ {a}
      BY <2>5
    <3>2. \A u \in Threads, b \in Addrs : InHands(u, b) => b # a
      BY DEF OneHolder
    <3>3. a \notin DOMAIN live
      BY <3>1 DEF OneHolder
    <3>4. live' = live
      BY <2>2
    <3> QED
      BY <2>3, <3>1, <3>2, <3>3, <3>4 DEF OneHolder
  <2> QED
    BY <2>2, <2>4, <2>5
<1>7. ASSUME DefaultFree(t) PROVE OneHolder'
  <2>1. InHands(t, call[t].ptr) /\ call[t].ptr \in Addrs
    BY <1>7 DEF DefaultFree
  <2> QED
    BY <1>7, <1>3, <1>c, <2>1 DEF DefaultFree
<1>8. ASSUME NEW a \in Addrs, NEW s, InHands(t, a), Returns(t, a, s), UNCHANGED <<heap, hidden>>
      PROVE  OneHolder'
  <2> HIDE DEF InHands
  <2> QED
    BY <1>2, <1>8, <1>b, <1>c
<1>9. ASSUME TakeNothing(t) PROVE OneHolder'
  BY <1>8, <1>9 DEF TakeNothing
<1>10. ASSUME Link(t) PROVE OneHolder'
  BY <1>8, <1>10 DEF Link
<1>11. ASSUME ReallocInPlace(t) PROVE OneHolder'
  BY <1>8, <1>11 DEF ReallocInPlace
<1>12. ASSUME ReallocMoves(t) PROVE OneHolder'
  <2>1. PICK a \in Addrs \ heap, s \in Sites :
            /\ heap' = (heap \ {call[t].ptr}) \cup {a}
            /\ call' = [call EXCEPT ![t].res = a, ![t].site = s]
    BY <1>12 DEF ReallocMoves
  <2>2. call'[t].res = a
    BY <1>e, <2>1
  <2>3. /\ pc[t] = "enter" /\ call[t].ptr \in Addrs /\ pc'[t] = "unlink_old"
        /\ UNCHANGED <<live, hidden>>
    BY <1>12 DEF ReallocMoves
  <2>4. InHands(t, call[t].ptr) /\ \A b \in Addrs : InHands(t, b)' <=> b = a
    BY <2>2, <2>3 DEF HeapAssumption
  <2> HIDE DEF InHands
  <2> QED
    BY <1>a, <2>1, <2>3, <2>4, <1>g DEF OneHolder
<1>13. ASSUME ReallocFrees(t) PROVE OneHolder'
  <2>1. /\ pc[t] = "enter" /\ call[t].ptr \in Addrs /\ pc'[t] = "unlink_old" /\ call' = call
        /\ call[t].res = None
    BY <1>13 DEF ReallocFrees
  <2>2. InHands(t, call[t].ptr) /\ \A b \in Addrs : ~InHands(t, b)'
    BY <2>1 DEF HeapAssumption
  <2> HIDE DEF InHands
  <2> QED
    BY <1>13, <1>3, <2>1, <2>2 DEF ReallocFrees
<1>14. ASSUME ReallocFails(t) PROVE OneHolder'
  <2>1. call'[t].res = Failed /\ call'[t].ptr = call[t].ptr
    BY <1>14, <1>e DEF ReallocFails
  <2>2. \A b \in Addrs : InHands(t, b)' => InHands(t, b)
    BY <1>14, <2>1 DEF ReallocFails, HeapAssumption
  <2> QED
    BY <1>14, <1>1, <2>2 DEF ReallocFails
<1>15. ASSUME UnlinkOld(t) PROVE OneHolder'
  <2>1. UNCHANGED <<heap, hidden>> /\ pc[t] = "unlink_old" /\ call[t].ptr \in Addrs
    BY <1>15 DEF UnlinkOld
  <2>2. CASE call[t].res = None
    BY <1>15, <1>1, <1>c, <2>1, <2>2 DEF UnlinkOld
  <2>3. CASE call[t].res = Failed
    <3>1. Returns(t, call[t].ptr, call[t].site)
      BY <1>15, <2>3 DEF UnlinkOld, HeapAssumption
    <3> QED
      BY <1>8, <2>1, <2>3, <3>1
  <2>4. CASE call[t].res \notin {None, Failed}
    <3>1. pc'[t] = "take" /\ call' = call /\ live' = live
      BY <1>15, <2>4 DEF UnlinkOld
    <3> QED
      BY <1>1, <2>1, <2>4, <3>1
  <2> QED
    BY <2>2, <2>3, <2>4
<1>16. ASSUME InitBegins(t) PROVE OneHolder'
  BY <1>1, <1>16 DEF InitBegins
<1>17. ASSUME InitNested(t) PROVE OneHolder'
  BY <1>1, <1>17 DEF InitNested
<1>18. ASSUME InitResolves(t) PROVE OneHolder'
  BY <1>1, <1>18 DEF InitResolves
<1>19. ASSUME InitEnds(t) PROVE OneHolder'
  BY <1>1, <1>19 DEF InitEnds
<1>20. ASSUME StaticAgain(t) PROVE OneHolder'
  BY <1>1, <1>20 DEF StaticAgain
<1>21. ASSUME StrdupAtExit(t) PROVE OneHolder'
  BY <1>1, <1>21 DEF StrdupAtExit
<1>22. ASSUME Take(t) PROVE OneHolder'
  BY <1>1, <1>22 DEF Take
<1>23. ASSUME Untraced(t) PROVE OneHolder'
  BY <1>1, <1>23 DEF Untraced
<1>24. ASSUME Exit(t) PROVE OneHolder'
  BY <1>1, <1>24 DEF Exit
<1>25. ASSUME Report(t) PROVE OneHolder'
  BY <1>1, <1>25 DEF Report
<1> QED
  BY <1>0, <1>4, <1>5, <1>6, <1>7, <1>9, <1>10, <1>11, <1>12, <1>13, <1>14, <1>15,
     <1>16, <1>17, <1>18, <1>19, <1>20, <1>21, <1>22, <1>23, <1>24, <1>25 DEF ThreadNext

LEMMA RecordsStayKept ==
    ASSUME TypeOK, CallsMatch, RecordsAreKept, Next
    PROVE  RecordsAreKept'
<1>0. PICK t \in Threads : ThreadNext(t)
  BY NextIsOfThread
<1>a. \A u \in Threads \ {t} : pc'[u] = pc[u]
  BY <1>0, OthersStay
<1>b. /\ pc \in [Threads -> Pcs] /\ allocs \in Seq(Recs) /\ Len(allocs) \in Nat
      /\ alloc_count \in Int /\ alloc_pool \in Nat /\ alloc_batch \in Nat
      /\ call \in [Threads -> Calls]
  BY DEF TypeOK, Calls, Recs
<1>c. IsFiniteSet(Linking) /\ Cardinality(Linking) \in Nat
  <2>1. Linking \in SUBSET Threads
    BY DEF Linking
  <2> QED
    BY <2>1, HeapAssumption, FS_Subset, FS_CardinalityType DEF HeapAssumption
<1>d. \A a, s : Returns(t, a, s) => Ends(t)
  BY DEF Returns
<1>e. Ends(t) => pc'[t] = "idle"
  BY <1>b DEF Ends, Goes
<1>f. CallMatches(t)
  BY DEF CallsMatch
<1>1. ASSUME UNCHANGED tableVars, pc'[t] = "link" <=> pc[t] = "link" PROVE RecordsAreKept'
  <2>1. Linking' = Linking
    BY <1>a, <1>1 DEF Linking
  <2> QED
    BY <1>1, <2>1 DEF RecordsAreKept
<1>2. ASSUME NEW a, RecordGoes(a), pc'[t] # "link", pc[t] # "link" PROVE RecordsAreKept'
  <2>1. Linking' = Linking
    BY <1>a, <1>2 DEF Linking
  <2> QED
    BY <1>b, <1>c, <1>2, <2>1 DEF RecordsAreKept, RecordGoes
<1> USE <1>b DEF At, Goes, Enters
<1>3. ASSUME CallNext(t) PROVE RecordsAreKept'
  <2>1. UNCHANGED tableVars /\ pc[t] = "idle" /\ pc'[t] \in {"enter", "lock"}
    BY <1>3 DEF CallNext, Call, Touched
  <2> QED
    BY <1>1, <2>1
<1>4. ASSUME Take(t) PROVE RecordsAreKept'
  <2>1. Linking' = Linking \cup {t} /\ t \notin Linking
    BY <1>4, <1>a DEF Take, Linking
  <2>2. Cardinality(Linking') = Cardinality(Linking) + 1
    BY <1>c, <2>1, FS_AddElement
  <2>3. allocs' = allocs /\ alloc_count' = alloc_count
    BY <1>4, Zenon DEF Take
  <2>4. \/ alloc_pool' = alloc_pool - 1 /\ alloc_batch' = alloc_batch
        \/ alloc_batch' = alloc_batch + 1 /\ alloc_pool' = alloc_pool
    BY <1>4, Zenon DEF Take, RecordTaken
  <2>5. alloc_count = Len(allocs) /\ alloc_batch = alloc_pool + Len(allocs) + Cardinality(Linking)
    BY Zenon DEF RecordsAreKept
  <2>6. alloc_batch' = alloc_pool' + Len(allocs) + Cardinality(Linking')
    <3>0. Len(allocs) \in Nat /\ alloc_pool \in Nat /\ Cardinality(Linking) \in Nat
      BY ONLY <1>b, <1>c, Zenon
    <3>1. /\ alloc_batch = (alloc_pool - 1) + Len(allocs) + (Cardinality(Linking) + 1)
          /\ alloc_batch + 1 = alloc_pool + Len(allocs) + (Cardinality(Linking) + 1)
      BY ONLY <2>5, <3>0
    <3>2. CASE alloc_pool' = alloc_pool - 1 /\ alloc_batch' = alloc_batch
      BY ONLY <2>2, <3>1, <3>2, Zenon
    <3>3. CASE alloc_batch' = alloc_batch + 1 /\ alloc_pool' = alloc_pool
      BY ONLY <2>2, <3>1, <3>3, Zenon
    <3> QED
      BY ONLY <2>4, <3>2, <3>3, Zenon
  <2> QED
    BY ONLY <2>3, <2>5, <2>6, Zenon DEF RecordsAreKept
<1>5. ASSUME Link(t) PROVE RecordsAreKept'
  <2>0. pc[t] = "link" /\ pc'[t] = "idle"
    BY <1>5, <1>d, <1>e DEF Link
  <2>1. Linking' = Linking \ {t} /\ t \in Linking
    BY <1>a, <2>0 DEF Linking
  <2>2. Cardinality(Linking') = Cardinality(Linking) - 1
    BY <1>c, <2>1, FS_RemoveElement
  <2>3. call[t].res \in Addrs /\ call[t].site \in Sites
    BY <1>f, <2>0 DEF CallMatches, Calls
  <2>4. RecordComes(Record(call[t].res, call[t].site)) /\ UNCHANGED <<alloc_pool, alloc_batch>>
    BY <1>5, <2>3, LinkedComes DEF Link
  <2> QED
    BY <1>c, <2>2, <2>4 DEF RecordsAreKept, RecordComes
<1>6. ASSUME Untraced(t) PROVE RecordsAreKept'
  <2>1. call[t].ptr \in Addrs /\ pc[t] = "enter" /\ pc'[t] = "default_free" /\ Untrace(t)
    BY <1>6, <1>f DEF Untraced, CallMatches, Entering
  <2>2. UNCHANGED tableVars \/ RecordGoes(call[t].ptr)
    BY <2>1, UntraceCases
  <2> QED
    BY <1>1, <1>2, <2>1, <2>2
<1>7. ASSUME UnlinkOld(t) PROVE RecordsAreKept'
  <2>1. call[t].ptr \in Addrs /\ pc[t] = "unlink_old" /\ Untrace(t)
    BY <1>7, <1>f DEF UnlinkOld, CallMatches
  <2>2. pc'[t] \in {"idle", "take"}
    BY <1>7, <1>d, <1>e DEF UnlinkOld
  <2>3. UNCHANGED tableVars \/ RecordGoes(call[t].ptr)
    BY <2>1, UntraceCases
  <2> QED
    BY <1>1, <1>2, <2>1, <2>2, <2>3
<1>8. ASSUME InitBegins(t) PROVE RecordsAreKept'
  BY <1>1, <1>8 DEF InitBegins
<1>9. ASSUME InitNested(t) PROVE RecordsAreKept'
  BY <1>1, <1>9 DEF InitNested
<1>10. ASSUME InitResolves(t) PROVE RecordsAreKept'
  BY <1>1, <1>10 DEF InitResolves
<1>11. ASSUME InitEnds(t) PROVE RecordsAreKept'
  BY <1>1, <1>11 DEF InitEnds
<1>12. ASSUME StaticAgain(t) PROVE RecordsAreKept'
  BY <1>1, <1>12 DEF StaticAgain
<1>13. ASSUME StrdupAtExit(t) PROVE RecordsAreKept'
  BY <1>1, <1>13 DEF StrdupAtExit
<1>14. ASSUME Allocate(t) PROVE RecordsAreKept'
  BY <1>1, <1>14, <1>d, <1>e DEF Allocate
<1>15. ASSUME TakeNothing(t) PROVE RecordsAreKept'
  BY <1>1, <1>15, <1>d, <1>e DEF TakeNothing
<1>16. ASSUME Nested(t) PROVE RecordsAreKept'
  BY <1>1, <1>16 DEF Nested, TracedAt
<1>17. ASSUME DefaultFree(t) PROVE RecordsAreKept'
  BY <1>1, <1>17, <1>d, <1>e DEF DefaultFree
<1>18. ASSUME ReallocInPlace(t) PROVE RecordsAreKept'
  BY <1>1, <1>18, <1>d, <1>e DEF ReallocInPlace
<1>19. ASSUME ReallocMoves(t) PROVE RecordsAreKept'
  BY <1>1, <1>19 DEF ReallocMoves
<1>20. ASSUME ReallocFrees(t) PROVE RecordsAreKept'
  BY <1>1, <1>20 DEF ReallocFrees
<1>21. ASSUME ReallocFails(t) PROVE RecordsAreKept'
  BY <1>1, <1>21 DEF ReallocFails
<1>22. ASSUME Exit(t) PROVE RecordsAreKept'
  BY <1>1, <1>22 DEF Exit
<1>23. ASSUME Report(t) PROVE RecordsAreKept'
  BY <1>1, <1>23 DEF Report
<1> QED
  BY <1>0, <1>3, <1>4, <1>5, <1>6, <1>7, <1>8, <1>9, <1>10, <1>11, <1>12, <1>13, <1>14, <1>15,
     <1>16, <1>17, <1>18, <1>19, <1>20, <1>21, <1>22, <1>23 DEF ThreadNext

-----------------------------------------------------------------------------
(* Records and owners *)

\* How often this thread and the program have this block.
Has(t, a) ==
    (IF HoldsRecord(t, a) THEN 1 ELSE 0) + (IF a \in DOMAIN live THEN 1 ELSE 0)

\* Owners change with what the thread that steps and the program have.
LEMMA OwnersMove ==
    ASSUME TypeOK, NEW t \in Threads, ThreadNext(t), NEW a \in Addrs
    PROVE  /\ Owners(a) \in Nat /\ Owners(a)' \in Nat
           /\ Has(t, a) \in Nat /\ Has(t, a)' \in Nat
           /\ Owners(a)' + Has(t, a) = Owners(a) + Has(t, a)'
<1>1. PICK H \in SUBSET Threads : H = {u \in Threads : HoldsRecord(u, a)}
  OBVIOUS
<1>2. PICK G \in SUBSET Threads : G = {u \in Threads : HoldsRecord(u, a)'}
  OBVIOUS
<1>3. H \ {t} = G \ {t}
  BY <1>1, <1>2, OthersStay DEF HoldsRecord
<1>4. /\ IsFiniteSet(H) /\ IsFiniteSet(G) /\ Cardinality(H) \in Nat /\ Cardinality(G) \in Nat
  BY HeapAssumption, FS_Subset, FS_CardinalityType DEF HeapAssumption
<1>5. Cardinality(H \ {t}) = IF t \in H THEN Cardinality(H) - 1 ELSE Cardinality(H)
  BY <1>4, FS_RemoveElement
<1>6. Cardinality(G \ {t}) = IF t \in G THEN Cardinality(G) - 1 ELSE Cardinality(G)
  BY <1>4, FS_RemoveElement
<1>7. /\ Owners(a) = Cardinality(H) + IF a \in DOMAIN live THEN 1 ELSE 0
      /\ Owners(a)' = Cardinality(G) + IF a \in DOMAIN live' THEN 1 ELSE 0
  BY <1>1, <1>2 DEF Owners
<1>8. (t \in H <=> HoldsRecord(t, a)) /\ (t \in G <=> HoldsRecord(t, a)')
  BY <1>1, <1>2
<1>9. Cardinality(G) + (IF t \in H THEN 1 ELSE 0) = Cardinality(H) + IF t \in G THEN 1 ELSE 0
  BY ONLY <1>3, <1>4, <1>5, <1>6
<1>10. /\ (IF HoldsRecord(t, a) THEN 1 ELSE 0) = (IF t \in H THEN 1 ELSE 0)
       /\ (IF HoldsRecord(t, a)' THEN 1 ELSE 0) = (IF t \in G THEN 1 ELSE 0)
  BY <1>8
<1>11. /\ (IF t \in H THEN 1 ELSE 0) \in Nat /\ (IF t \in G THEN 1 ELSE 0) \in Nat
       /\ (IF a \in DOMAIN live THEN 1 ELSE 0) \in Nat /\ (IF a \in DOMAIN live' THEN 1 ELSE 0) \in Nat
  OBVIOUS
<1> QED
  BY <1>4, <1>7, <1>9, <1>10, <1>11 DEF Has

LEMMA RecordsStayOwned ==
    ASSUME TypeOK, CallsMatch, OneHolder, RecordsHaveOwners, Next
    PROVE  RecordsHaveOwners'
<1>0. PICK t \in Threads : ThreadNext(t)
  BY NextIsOfThread
<1>a. \A a \in Addrs :
        /\ Owners(a) \in Nat /\ Owners(a)' \in Nat /\ Has(t, a) \in Nat /\ Has(t, a)' \in Nat
        /\ Owners(a)' + Has(t, a) = Owners(a) + Has(t, a)'
  BY <1>0, OwnersMove
<1>b. allocs \in Seq(Recs) /\ \A a \in Addrs : Records(a) \in Nat
  BY RecordsIsNat DEF TypeOK, Recs
<1>c. pc \in [Threads -> Pcs] /\ call \in [Threads -> Calls] /\ CallMatches(t)
  BY DEF TypeOK, Calls, CallsMatch
<1>d. ~is_exit_done => \A a \in Addrs : Records(a) <= Owners(a) /\ (~lost => Records(a) = Owners(a))
  BY DEF RecordsHaveOwners
<1>e. \A a, s : Returns(t, a, s) => Ends(t) /\ DOMAIN live' = DOMAIN live \cup {a}
  BY DEF Returns
<1>f. Ends(t) => \A a \in Addrs : ~HoldsRecord(t, a)'
  BY EndsCall DEF HoldsRecord
<1>g. \A a \in Addrs \cup {Failed}, s \in Sites :
        (\/ call' = [call EXCEPT ![t].res = a] /\ s = call[t].site
         \/ call' = [call EXCEPT ![t].res = a, ![t].site = s])
        => call'[t].op = call[t].op /\ call'[t].ptr = call[t].ptr
  BY ResultIsSet
<1>h. call[t].site \in Sites
  BY <1>c DEF Calls
<1>i. \A a \in Addrs : InHands(t, a) => a \notin DOMAIN live
  BY DEF OneHolder
<1> HIDE DEF Records, Owners, Has
\* The cases: nothing changes; a record comes with an owner, or goes with one; the
\* record of an owner is not there.
<1>1. ASSUME allocs' = allocs, \A a \in Addrs : Has(t, a)' = Has(t, a),
             is_exit_done => is_exit_done', lost => lost'
      PROVE  RecordsHaveOwners'
  <2>1. \A a \in Addrs : Records(a)' = Records(a)
    BY <1>1 DEF Records
  <2>2. \A a \in Addrs : Owners(a)' = Owners(a)
    BY <1>1, <1>a
  <2> QED
    BY <1>1, <1>d, <2>1, <2>2 DEF RecordsHaveOwners
<1>2. ASSUME NEW r, RecordComes(r), UNCHANGED <<is_exit_done, lost>>,
             \A a \in Addrs : Has(t, a)' = Has(t, a) + IF a = r.mem THEN 1 ELSE 0
      PROVE  RecordsHaveOwners'
  <2>1. \A a \in Addrs : Owners(a)' = Owners(a) + IF a = r.mem THEN 1 ELSE 0
    BY <1>2, <1>a
  <2>2. \A a \in Addrs : Records(a)' = Records(a) + IF a = r.mem THEN 1 ELSE 0
    BY <1>2 DEF RecordComes
  <2> QED
    BY <1>2, <1>a, <1>b, <1>d, <2>1, <2>2 DEF RecordsHaveOwners
<1>3. ASSUME NEW a \in Addrs, RecordGoes(a), UNCHANGED <<is_exit_done, lost>>,
             \A b \in Addrs \ {a} : Has(t, b)' = Has(t, b),
             Has(t, a)' = Has(t, a) - 1 \/ (lost /\ Has(t, a)' = Has(t, a))
      PROVE  RecordsHaveOwners'
  <2>1. \A b \in Addrs \ {a} : Owners(b)' = Owners(b) /\ Records(b)' = Records(b)
    BY <1>3, <1>a, <1>b, SMTT(90) DEF RecordGoes
  <2>2. Records(a)' = Records(a) - 1
    BY <1>3 DEF RecordGoes
  <2>3. Owners(a)' = Owners(a) - 1 \/ (lost /\ Owners(a)' = Owners(a))
    BY <1>3, <1>a
  <2>4. ~is_exit_done => Records(a)' <= Owners(a)' /\ (~lost => Records(a)' = Owners(a)')
    BY <1>a, <1>b, <1>d, <2>2, <2>3, SMTT(60)
  <2> QED
    BY <1>3, <1>d, <2>1, <2>4 DEF RecordsHaveOwners
<1>4. ASSUME NEW a \in Addrs, allocs' = allocs, Records(a) = 0, UNCHANGED <<is_exit_done, lost>>,
             \A b \in Addrs \ {a} : Has(t, b)' = Has(t, b),
             Has(t, a)' = Has(t, a) - 1 \/ lost
      PROVE  RecordsHaveOwners'
  <2>1. \A b \in Addrs : Records(b)' = Records(b)
    BY <1>4 DEF Records
  <2>2. \A b \in Addrs \ {a} : Owners(b)' = Owners(b)
    BY <1>4, <1>a
  <2>3. ~is_exit_done => lost
    <3> SUFFICES ASSUME ~is_exit_done, ~lost PROVE FALSE
      OBVIOUS
    <3>1. Owners(a) = 0 /\ Owners(a)' = Owners(a) - 1
      BY <1>4, <1>a, <1>d
    <3> QED
      BY <1>a, <3>1
  <2>4. Records(a)' <= Owners(a)'
    BY <1>4, <1>a, <2>1
  <2> QED
    BY <1>4, <1>d, <2>1, <2>2, <2>3, <2>4 DEF RecordsHaveOwners
<1>5. ASSUME is_exit_done' PROVE RecordsHaveOwners'
  BY <1>5 DEF RecordsHaveOwners
\* The same, from what the thread's call holds.
<1>6. ASSUME allocs' = allocs, DOMAIN live' = DOMAIN live,
             \A a \in Addrs : HoldsRecord(t, a)' <=> HoldsRecord(t, a),
             UNCHANGED is_exit_done, lost => lost'
      PROVE  RecordsHaveOwners'
  <2>1. \A a \in Addrs : Has(t, a)' = Has(t, a)
    BY <1>6 DEF Has
  <2> QED
    BY <1>1, <1>6, <2>1
<1> USE <1>c DEF At, Goes, Enters, Entering, CallMatches
<1>7. ASSUME CallNext(t) PROVE RecordsHaveOwners'
  <2>1. PICK o \in {"alloc", "strdup", "free", "realloc"}, a \in Addrs \cup {None}, s \in Sites :
            Call(t, o, a, s)
    BY <1>7 DEF CallNext
  <2>2. /\ pc[t] = "idle" /\ pc'[t] \in {"enter", "lock"}
        /\ call'[t].op = o /\ call'[t].ptr = a
        /\ UNCHANGED <<is_exit_done, lost, allocs>>
    BY <2>1 DEF Call, Touched
  <2>3. DOMAIN live' = DOMAIN live \ {a} /\ (o \in {"free", "realloc"} => a \in DOMAIN live)
    BY <2>1 DEF Call
  <2>4. ASSUME NEW b \in Addrs PROVE Has(t, b)' = Has(t, b)
    <3>1. ~HoldsRecord(t, b)
      BY <2>2 DEF HoldsRecord
    <3>2. HoldsRecord(t, b)' <=> (o \in {"free", "realloc"} /\ a = b)
      BY <2>2 DEF HoldsRecord
    <3>3. o \notin {"free", "realloc"} => a = None
      BY <2>1 DEF Call
    <3> QED
      BY <2>3, <3>1, <3>2, <3>3, HeapAssumption DEF Has, HeapAssumption
  <2> QED
    BY <1>1, <2>2, <2>4
<1>8. ASSUME Link(t) PROVE RecordsHaveOwners'
  <2>1. call[t].res \in Addrs /\ call[t].site \in Sites /\ pc[t] = "link"
    BY <1>8, <1>h DEF Link
  <2>2. RecordComes(Record(call[t].res, call[t].site))
    BY <1>8, <1>b, <2>1, LinkedComes DEF Link
  <2>3. Ends(t) /\ DOMAIN live' = DOMAIN live \cup {call[t].res}
    BY <1>8, <1>e DEF Link
  <2>4. call[t].res \notin DOMAIN live
    BY <1>i, <2>1 DEF InHands
  <2>5. \A a \in Addrs : ~HoldsRecord(t, a) /\ ~HoldsRecord(t, a)'
    BY <1>f, <2>1, <2>3 DEF HoldsRecord
  <2>6. \A a \in Addrs : Has(t, a)' = Has(t, a) + IF a = Record(call[t].res, call[t].site).mem THEN 1 ELSE 0
    BY <2>3, <2>4, <2>5 DEF Has, Record
  <2> QED
    BY <1>2, <1>8, <2>2, <2>6 DEF Link
<1>9. ASSUME NEW a \in Addrs, a = call[t].ptr, Untrace(t), UNCHANGED <<is_exit_done, lost>>,
             \A b \in Addrs \ {a} : Has(t, b)' = Has(t, b),
             Has(t, a)' = Has(t, a) - 1 \/ (lost /\ Has(t, a)' = Has(t, a))
      PROVE  RecordsHaveOwners'
  <2>1. \/ is_exit_done
        \/ RecordGoes(a)
        \/ Records(a) = 0 /\ allocs' = allocs
    BY <1>b, <1>9, UntraceCases
  <2> QED
    BY <1>3, <1>4, <1>5, <1>9, <2>1
<1>10. ASSUME Untraced(t) PROVE RecordsHaveOwners'
  <2>1. /\ pc[t] = "enter" /\ pc'[t] = "default_free" /\ call[t].op = "free" /\ call[t].ptr \in Addrs
        /\ Untrace(t) /\ UNCHANGED <<is_exit_done, lost>> /\ live' = live
    BY <1>10 DEF Untraced
  <2>2. \A b \in Addrs : (HoldsRecord(t, b) <=> b = call[t].ptr) /\ ~HoldsRecord(t, b)'
    BY <2>1 DEF HoldsRecord
  <2>3. \A b \in Addrs : Has(t, b)' = Has(t, b) - IF b = call[t].ptr THEN 1 ELSE 0
    BY <2>1, <2>2 DEF Has
  <2> QED
    BY <1>9, <1>a, <2>1, <2>3
<1>11. ASSUME UnlinkOld(t) PROVE RecordsHaveOwners'
  <2>1. /\ pc[t] = "unlink_old" /\ call[t].op = "realloc" /\ call[t].ptr \in Addrs
        /\ Untrace(t) /\ UNCHANGED <<is_exit_done, lost>>
    BY <1>11 DEF UnlinkOld
  <2>2. \A b \in Addrs : HoldsRecord(t, b) <=> b = call[t].ptr
    BY <2>1 DEF HoldsRecord
  <2>3. CASE call[t].res = None \/ call[t].res \notin {None, Failed}
    <3>1. live' = live /\ \A b \in Addrs : ~HoldsRecord(t, b)'
      <4>1. CASE call[t].res = None
        <5>1. Ends(t) /\ live' = live
          BY <1>11, <4>1, HeapAssumption DEF UnlinkOld, HeapAssumption
        <5> QED
          BY <1>f, <5>1
      <4>2. CASE call[t].res \notin {None, Failed}
        <5>1. live' = live /\ pc'[t] = "take"
          BY <1>11, <4>2 DEF UnlinkOld
        <5> QED
          BY <5>1 DEF HoldsRecord
      <4> QED
        BY <2>3, <4>1, <4>2
    <3>2. \A b \in Addrs : Has(t, b)' = Has(t, b) - IF b = call[t].ptr THEN 1 ELSE 0
      BY <2>2, <3>1 DEF Has
    <3> QED
      BY <1>9, <1>a, <2>1, <3>2
  <2>4. CASE call[t].res = Failed
    <3>1. Returns(t, call[t].ptr, call[t].site)
      BY <1>11, <2>4, HeapAssumption DEF UnlinkOld, HeapAssumption
    <3>2. DOMAIN live' = DOMAIN live \cup {call[t].ptr} /\ \A b \in Addrs : ~HoldsRecord(t, b)'
      BY <1>e, <1>f, <3>1
    <3>3. call[t].ptr \notin DOMAIN live
      BY <1>i, <2>1, <2>4 DEF InHands
    <3>4. \A b \in Addrs : Has(t, b)' = Has(t, b)
      BY <2>2, <3>2, <3>3 DEF Has
    <3> QED
      BY <1>9, <2>1, <2>4, <3>4
  <2> QED
    BY <2>3, <2>4
<1>12. ASSUME ReallocInPlace(t) PROVE RecordsHaveOwners'
  <2>1. /\ pc[t] = "enter" /\ call[t].op = "realloc" /\ call[t].ptr \in Addrs
        /\ UNCHANGED <<is_exit_done, lost, allocs>> /\ Returns(t, call[t].ptr, call[t].site)
    BY <1>12 DEF ReallocInPlace
  <2>2. DOMAIN live' = DOMAIN live \cup {call[t].ptr} /\ \A b \in Addrs : ~HoldsRecord(t, b)'
    BY <1>e, <1>f, <2>1
  <2>3. call[t].ptr \notin DOMAIN live
    BY <1>i, <2>1 DEF InHands
  <2>4. \A b \in Addrs : HoldsRecord(t, b) <=> b = call[t].ptr
    BY <2>1 DEF HoldsRecord
  <2>5. \A b \in Addrs : Has(t, b)' = Has(t, b)
    BY <2>2, <2>3, <2>4 DEF Has
  <2> QED
    BY <1>1, <2>1, <2>5
<1>13. ASSUME Allocate(t) PROVE RecordsHaveOwners'
  <2>1. /\ call[t].op \in {"alloc", "strdup"} /\ UNCHANGED <<is_exit_done, lost, allocs, live>>
    BY <1>13 DEF Allocate
  <2>2. \A b \in Addrs : ~HoldsRecord(t, b) /\ ~HoldsRecord(t, b)'
    <3>1. Ends(t) \/ (pc'[t] = "take")
      BY <1>13 DEF Allocate
    <3> QED
      BY <1>f, <2>1, <3>1 DEF HoldsRecord
  <2> QED
    BY <1>6, <2>1, <2>2
<1>14. ASSUME ReallocMoves(t) \/ ReallocFrees(t) \/ ReallocFails(t) PROVE RecordsHaveOwners'
  <2>1. /\ pc[t] = "enter" /\ pc'[t] = "unlink_old"
        /\ UNCHANGED <<is_exit_done, allocs, live>> /\ (lost => lost')
    BY <1>14 DEF ReallocMoves, ReallocFrees, ReallocFails
  <2>2. call'[t].op = call[t].op /\ call'[t].ptr = call[t].ptr
    BY <1>14, <1>g, <1>h, ZenonT(120) DEF ReallocMoves, ReallocFrees, ReallocFails
  <2>3. \A b \in Addrs : HoldsRecord(t, b)' <=> HoldsRecord(t, b)
    BY <2>1, <2>2 DEF HoldsRecord
  <2> QED
    BY <1>6, <2>1, <2>3
<1>15. ASSUME DefaultFree(t) PROVE RecordsHaveOwners'
  <2>1. \A b \in Addrs : ~HoldsRecord(t, b) /\ ~HoldsRecord(t, b)'
    BY <1>15, <1>f DEF DefaultFree, HoldsRecord
  <2> QED
    BY <1>6, <1>15, <2>1 DEF DefaultFree
<1>16. ASSUME TakeNothing(t) \/ Exit(t) PROVE RecordsHaveOwners'
  BY <1>5, <1>16 DEF TakeNothing, Exit
<1>17. ASSUME InitBegins(t) PROVE RecordsHaveOwners'
  BY <1>6, <1>17 DEF InitBegins, HoldsRecord
<1>18. ASSUME InitNested(t) PROVE RecordsHaveOwners'
  BY <1>6, <1>18 DEF InitNested, HoldsRecord
<1>19. ASSUME InitResolves(t) PROVE RecordsHaveOwners'
  BY <1>6, <1>19 DEF InitResolves, HoldsRecord
<1>20. ASSUME InitEnds(t) PROVE RecordsHaveOwners'
  BY <1>6, <1>20 DEF InitEnds, HoldsRecord
<1>21. ASSUME StaticAgain(t) PROVE RecordsHaveOwners'
  BY <1>6, <1>21 DEF StaticAgain, HoldsRecord
<1>22. ASSUME StrdupAtExit(t) PROVE RecordsHaveOwners'
  BY <1>6, <1>22 DEF StrdupAtExit, HoldsRecord
<1>23. ASSUME Take(t) PROVE RecordsHaveOwners'
  BY <1>6, <1>23 DEF Take, HoldsRecord
<1>24. ASSUME Nested(t) PROVE RecordsHaveOwners'
  BY <1>6, <1>24 DEF Nested, HoldsRecord, TracedAt
<1>25. ASSUME Report(t) PROVE RecordsHaveOwners'
  BY <1>6, <1>25 DEF Report, HoldsRecord
<1> QED
  BY <1>0, <1>7, <1>8, <1>9, <1>10, <1>11, <1>12, <1>13, <1>14, <1>15, <1>16,
     <1>17, <1>18, <1>19, <1>20, <1>21, <1>22, <1>23, <1>24, <1>25 DEF ThreadNext

\* A block in use that has its record, or is getting it, has it from one place.
LEMMA RoomStays ==
    ASSUME TypeOK, CallsMatch, OneHolder, RecordsHaveRoom, Next
    PROVE  RecordsHaveRoom'
<1>0. PICK t \in Threads : ThreadNext(t)
  BY NextIsOfThread
<1>a. \A u \in Threads \ {t} : /\ pc'[u] = pc[u] /\ call'[u] = call[u]
                               /\ \A a \in Addrs : Keeps(u, a)' <=> Keeps(u, a)
  BY <1>0, OthersStay DEF Keeps
<1>b. /\ alloc_pool \in Nat /\ alloc_batch \in Nat /\ allocs \in Seq(Recs)
      /\ pc \in [Threads -> Pcs] /\ call \in [Threads -> Calls] /\ CallMatches(t) /\ HeapAssumption
  BY HeapAssumption DEF TypeOK, Calls, CallsMatch, Recs
<1>c. /\ IsFiniteSet(Recorded) /\ Cardinality(Recorded) \in Nat
      /\ IsFiniteSet(Pending) /\ Cardinality(Pending) \in Nat
  <2>1. Recorded \in SUBSET Addrs /\ Pending \in SUBSET Threads
    BY DEF Recorded, Pending
  <2> QED
    BY <1>b, <2>1, FS_Subset, FS_CardinalityType DEF HeapAssumption
<1>d. \A a, s : Returns(t, a, s) => Ends(t) /\ DOMAIN live' = DOMAIN live \cup {a}
  BY DEF Returns
<1>e. Ends(t) => pc'[t] = "idle" /\ \A a \in Addrs : ~Keeps(t, a)'
  BY EndsCall DEF Keeps, Entering
<1>f. \A a \in Addrs \cup {Failed}, s \in Sites :
        (\/ call' = [call EXCEPT ![t].res = a] /\ s = call[t].site
         \/ call' = [call EXCEPT ![t].res = a, ![t].site = s])
        => call'[t].op = call[t].op /\ call'[t].ptr = call[t].ptr /\ call'[t].res = a
  BY ResultIsSet, SMTT(60)
<1>g. call[t].site \in Sites
  BY <1>b DEF Calls
<1>h. \A u \in Threads, a \in Addrs : Keeps(u, a) => InHands(u, a)
  BY DEF Keeps, InHands
<1>i. \A a \in Addrs : InHands(t, a) => /\ a \notin DOMAIN live
                                        /\ \A u \in Threads \ {t} : ~Keeps(u, a)
  BY <1>h DEF OneHolder
<1>j. aborted = "no"
  BY <1>0 DEF ThreadNext, CallNext, Call, At, Enters, Running, InitBegins, InitNested, InitResolves,
     InitEnds, StaticAgain, StrdupAtExit, Allocate, Take, TakeNothing, Link, Nested, Untraced,
     DefaultFree, ReallocInPlace, ReallocMoves, ReallocFrees, ReallocFails, UnlinkOld, Exit, Report
<1>k. ~is_exit_done => alloc_batch - alloc_pool <= Cardinality(Recorded) + Cardinality(Pending)
  BY <1>j DEF RecordsHaveRoom
\* What the step does to the two sets.
<1>1. ASSUME \A a \in Addrs : (Keeps(t, a) \/ a \in DOMAIN live) <=> (Keeps(t, a)' \/ a \in DOMAIN live')
      PROVE  Recorded' = Recorded
  BY <1>a, <1>1 DEF Recorded
<1>2. ASSUME NEW a \in Addrs, DOMAIN live' = DOMAIN live,
             \A b \in Addrs : (Keeps(t, b) <=> b = a) /\ ~Keeps(t, b)'
      PROVE  Cardinality(Recorded)' = Cardinality(Recorded) - 1
  <2>1. a \in Recorded /\ a \notin DOMAIN live /\ \A u \in Threads \ {t} : ~Keeps(u, a)
    BY <1>2, <1>h, <1>i DEF Recorded
  <2>2. \A b \in Addrs : (\E u \in Threads : Keeps(u, b)') <=> \E u \in Threads \ {t} : Keeps(u, b)
    BY <1>a, <1>2
  <2>3. Recorded' = Recorded \ {a}
    BY <1>2, <2>1, <2>2 DEF Recorded
  <2> QED
    BY <1>c, <2>1, <2>3, FS_RemoveElement
<1>3. ASSUME NEW a \in Addrs, DOMAIN live' = DOMAIN live, InHands(t, a),
             \A b \in Addrs : ~Keeps(t, b) /\ (Keeps(t, b)' <=> b = a)
      PROVE  Cardinality(Recorded)' = Cardinality(Recorded) + 1
  <2>1. a \notin Recorded
    BY <1>3, <1>i DEF Recorded
  <2>2. \A b \in Addrs : (\E u \in Threads : Keeps(u, b)') <=> b = a \/ \E u \in Threads : Keeps(u, b)
    BY <1>a, <1>3
  <2>3. Recorded' = Recorded \cup {a}
    BY <1>3, <2>2 DEF Recorded
  <2> QED
    BY <1>c, <2>1, <2>3, FS_AddElement
<1>4. ASSUME t \in Pending' <=> t \in Pending PROVE Pending' = Pending
  BY <1>a, <1>4 DEF Pending
<1>5. ASSUME t \in Pending, t \notin Pending' PROVE Cardinality(Pending)' = Cardinality(Pending) - 1
  <2>1. Pending' = Pending \ {t}
    BY <1>a, <1>5 DEF Pending
  <2> QED
    BY <1>c, <1>5, <2>1, FS_RemoveElement
<1>6. ASSUME t \notin Pending, t \in Pending' PROVE Cardinality(Pending)' = Cardinality(Pending) + 1
  <2>1. Pending' = Pending \cup {t}
    BY <1>a, <1>6 DEF Pending
  <2> QED
    BY <1>c, <1>6, <2>1, FS_AddElement
<1>7. ASSUME is_exit_done' PROVE RecordsHaveRoom'
  BY <1>7 DEF RecordsHaveRoom
<1>8. ASSUME UNCHANGED <<alloc_pool, alloc_batch, is_exit_done>>, Recorded' = Recorded, Pending' = Pending
      PROVE  RecordsHaveRoom'
  BY <1>8, <1>k DEF RecordsHaveRoom
<1> HIDE DEF Recorded
<1> USE <1>b DEF At, Goes, Enters, Entering, CallMatches, Pending
<1>9. ASSUME CallNext(t) PROVE RecordsHaveRoom'
  <2>1. PICK o \in {"alloc", "strdup", "free", "realloc"}, a \in Addrs \cup {None}, s \in Sites :
            Call(t, o, a, s)
    BY <1>9 DEF CallNext
  <2>2. /\ pc[t] = "idle" /\ pc'[t] \in {"enter", "lock"} /\ call'[t].ptr = a
        /\ UNCHANGED <<alloc_pool, alloc_batch, is_exit_done>>
    BY <2>1 DEF Call, Touched
  <2>3. DOMAIN live' = DOMAIN live \ {a} /\ (a = None \/ a \in DOMAIN live)
    BY <2>1 DEF Call
  <2>4. \A b \in Addrs : ~Keeps(t, b) /\ (Keeps(t, b)' <=> b = a)
    BY <2>2 DEF Keeps
  <2>5. Recorded' = Recorded
    BY <1>1, <2>3, <2>4 DEF HeapAssumption
  <2> QED
    BY <1>4, <1>8, <2>2, <2>5
<1>10. ASSUME Allocate(t) PROVE RecordsHaveRoom'
  <2>1. /\ pc[t] = "enter" /\ call[t].op \in {"alloc", "strdup"} /\ call[t].ptr \notin Addrs
        /\ UNCHANGED <<alloc_pool, alloc_batch, is_exit_done, live>>
    BY <1>10 DEF Allocate
  <2>2. \A b \in Addrs : ~Keeps(t, b)
    BY <2>1 DEF Keeps
  <2>3. pc'[t] \in {"idle", "take"} /\ \A b \in Addrs : ~Keeps(t, b)'
    BY <1>10, <1>e DEF Allocate, Keeps
  <2> QED
    BY <1>1, <1>4, <1>8, <2>1, <2>2, <2>3
<1>11. ASSUME Take(t) PROVE RecordsHaveRoom'
  <2>1. /\ pc[t] = "take" /\ pc'[t] = "link" /\ call' = call /\ call[t].res \in Addrs
        /\ UNCHANGED <<is_exit_done, live>>
    BY <1>11 DEF Take
  <2>2. InHands(t, call[t].res) /\ \A b \in Addrs : ~Keeps(t, b) /\ (Keeps(t, b)' <=> b = call[t].res)
    BY <2>1 DEF Keeps, InHands
  <2>3. Cardinality(Recorded)' = Cardinality(Recorded) + 1
    BY <1>3, <2>1, <2>2
  <2>4. Pending' = Pending
    BY <1>4, <2>1
  <2>5. alloc_batch' - alloc_pool' = alloc_batch - alloc_pool + 1
    BY <1>11 DEF Take, RecordTaken, Reuses
  <2> HIDE DEF Pending
  <2> QED
    BY <1>c, <1>k, <2>1, <2>3, <2>4, <2>5 DEF RecordsHaveRoom
<1>12. ASSUME NEW a \in Addrs, NEW s, Returns(t, a, s), \A b \in Addrs : Keeps(t, b) <=> b = a,
              UNCHANGED is_exit_done,
              t \notin Pending, alloc_batch' = alloc_batch, alloc_pool' = alloc_pool \/ alloc_pool' = alloc_pool + 1
       PROVE  RecordsHaveRoom'
  <2>0. DOMAIN live' = DOMAIN live \cup {a} /\ \A b \in Addrs : ~Keeps(t, b)'
    BY <1>12, <1>d, <1>e
  <2>1. Recorded' = Recorded
    BY <1>1, <1>12, <2>0
  <2>2. Pending' = Pending
    BY <1>4, <1>12, <1>d, <1>e
  <2> HIDE DEF Pending
  <2> QED
    BY <1>12, <1>c, <1>k, <2>1, <2>2 DEF RecordsHaveRoom
<1>13. ASSUME Link(t) PROVE RecordsHaveRoom'
  <2>1. /\ pc[t] = "link" /\ call[t].res \in Addrs /\ Returns(t, call[t].res, call[t].site)
        /\ UNCHANGED <<alloc_pool, alloc_batch, is_exit_done>>
    BY <1>13 DEF Link
  <2>2. \A b \in Addrs : Keeps(t, b) <=> b = call[t].res
    BY <2>1 DEF Keeps
  <2> QED
    BY <1>12, <2>1, <2>2
<1>14. ASSUME ReallocInPlace(t) PROVE RecordsHaveRoom'
  <2>1. /\ pc[t] = "enter" /\ call[t].ptr \in Addrs /\ Returns(t, call[t].ptr, call[t].site)
        /\ UNCHANGED <<alloc_pool, alloc_batch, is_exit_done>>
    BY <1>14 DEF ReallocInPlace
  <2>2. \A b \in Addrs : Keeps(t, b) <=> b = call[t].ptr
    BY <2>1 DEF Keeps
  <2> QED
    BY <1>12, <2>1, <2>2
<1>15. ASSUME ReallocMoves(t) \/ ReallocFrees(t) PROVE RecordsHaveRoom'
  <2>1. /\ pc[t] = "enter" /\ pc'[t] = "unlink_old" /\ call[t].ptr \in Addrs /\ call[t].res = None
        /\ UNCHANGED <<live, alloc_pool, alloc_batch, is_exit_done>>
    BY <1>15 DEF ReallocMoves, ReallocFrees
  <2>2. call'[t].res \in Addrs \cup {None}
    <3>1. CASE ReallocMoves(t)
      <4>1. PICK a \in Addrs \ heap, s \in Sites : call' = [call EXCEPT ![t].res = a, ![t].site = s]
        BY <3>1 DEF ReallocMoves
      <4>2. call'[t].res = a
        BY <1>f, <4>1
      <4> QED
        BY <4>2
    <3>2. CASE ReallocFrees(t)
      <4>1. call' = call
        BY <3>2 DEF ReallocFrees
      <4> QED
        BY <2>1, <4>1
    <3> QED
      BY <1>15, <3>1, <3>2
  <2>3. \A b \in Addrs : (Keeps(t, b) <=> b = call[t].ptr) /\ ~Keeps(t, b)'
    BY <2>1, <2>2 DEF Keeps, HeapAssumption
  <2>4. Cardinality(Recorded)' = Cardinality(Recorded) - 1
    BY <1>2, <2>1, <2>3
  <2>5. Cardinality(Pending)' = Cardinality(Pending) + 1
    BY <1>6, <2>1, <2>2 DEF HeapAssumption
  <2> HIDE DEF Pending
  <2> QED
    BY <1>c, <1>k, <2>1, <2>4, <2>5 DEF RecordsHaveRoom
<1>16. ASSUME ReallocFails(t) PROVE RecordsHaveRoom'
  <2>1. /\ pc[t] = "enter" /\ pc'[t] = "unlink_old" /\ call[t].ptr \in Addrs
        /\ UNCHANGED <<live, alloc_pool, alloc_batch, is_exit_done>>
    BY <1>16 DEF ReallocFails
  <2>2. call'[t].res = Failed /\ call'[t].ptr = call[t].ptr
    BY <1>16, <1>f, <1>g DEF ReallocFails
  <2>3. \A b \in Addrs : Keeps(t, b)' <=> Keeps(t, b)
    BY <2>1, <2>2 DEF Keeps
  <2> QED
    BY <1>1, <1>4, <1>8, <2>1, <2>2, <2>3
<1>17. ASSUME Untrace(t), call[t].ptr \in Addrs, UNCHANGED is_exit_done
       PROVE  \/ is_exit_done' \/ aborted' # "no"
              \/ alloc_batch' = alloc_batch /\ alloc_pool' = alloc_pool + 1
  BY <1>17, UntraceCases DEF RecordGoes
<1>18. ASSUME Untraced(t) PROVE RecordsHaveRoom'
  <2>1. /\ pc[t] = "enter" /\ pc'[t] = "default_free" /\ call[t].ptr \in Addrs
        /\ Untrace(t) /\ UNCHANGED <<live, is_exit_done>>
    BY <1>18 DEF Untraced
  <2>2. \A b \in Addrs : (Keeps(t, b) <=> b = call[t].ptr) /\ ~Keeps(t, b)'
    BY <2>1 DEF Keeps
  <2>3. Cardinality(Recorded)' = Cardinality(Recorded) - 1
    BY <1>2, <2>1, <2>2
  <2>4. Pending' = Pending
    BY <1>4, <2>1
  <2> HIDE DEF Pending
  <2> QED
    BY <1>c, <1>k, <1>17, <2>1, <2>3, <2>4 DEF RecordsHaveRoom
<1>19. ASSUME UnlinkOld(t) PROVE RecordsHaveRoom'
  <2>1. pc[t] = "unlink_old" /\ call[t].ptr \in Addrs /\ Untrace(t) /\ UNCHANGED is_exit_done
    BY <1>19 DEF UnlinkOld
  <2>2. CASE call[t].res = None \/ call[t].res \notin {None, Failed}
    <3>1. live' = live /\ pc'[t] \in {"idle", "take"} /\ \A b \in Addrs : ~Keeps(t, b)'
      <4>1. CASE call[t].res = None
        <5>1. Ends(t) /\ live' = live
          BY <1>19, <4>1 DEF UnlinkOld, HeapAssumption
        <5> QED
          BY <1>e, <5>1
      <4>2. CASE call[t].res \notin {None, Failed}
        <5>1. live' = live /\ pc'[t] = "take"
          BY <1>19, <4>2 DEF UnlinkOld
        <5> QED
          BY <5>1 DEF Keeps
      <4> QED
        BY <2>2, <4>1, <4>2
    <3>2. \A b \in Addrs : ~Keeps(t, b)
      BY <2>1, <2>2 DEF Keeps, HeapAssumption
    <3>3. Recorded' = Recorded
      BY <1>1, <3>1, <3>2
    <3>4. Cardinality(Pending)' = Cardinality(Pending) - 1
      BY <1>5, <2>1, <2>2, <3>1 DEF HeapAssumption
    <3> QED
      BY <1>c, <1>k, <1>17, <2>1, <3>3, <3>4 DEF RecordsHaveRoom
  <2>3. CASE call[t].res = Failed
    <3>1. Returns(t, call[t].ptr, call[t].site)
      BY <1>19, <2>3 DEF UnlinkOld, HeapAssumption
    <3>2. \A b \in Addrs : Keeps(t, b) <=> b = call[t].ptr
      BY <2>1, <2>3 DEF Keeps
    <3>3. t \notin Pending
      BY <2>3
    <3>4. aborted' # "no" => RecordsHaveRoom'
      BY DEF RecordsHaveRoom
    <3> QED
      BY <1>7, <1>12, <1>17, <2>1, <3>1, <3>2, <3>3, <3>4
  <2> QED
    BY <2>2, <2>3
<1>20. ASSUME DefaultFree(t) PROVE RecordsHaveRoom'
  <2>1. /\ pc[t] = "default_free" /\ Ends(t)
        /\ UNCHANGED <<live, alloc_pool, alloc_batch, is_exit_done>>
    BY <1>20 DEF DefaultFree
  <2>2. \A b \in Addrs : ~Keeps(t, b) /\ ~Keeps(t, b)'
    BY <1>e, <2>1 DEF Keeps
  <2> QED
    BY <1>1, <1>4, <1>8, <1>e, <2>1, <2>2
<1>21. ASSUME TakeNothing(t) \/ Exit(t) PROVE RecordsHaveRoom'
  BY <1>7, <1>21 DEF TakeNothing, Exit
<1>22. ASSUME UNCHANGED <<live, call, alloc_pool, alloc_batch, is_exit_done>>,
              pc'[t] = pc[t] \/ {pc[t], pc'[t]} \subseteq Entering
                 \/ {pc[t], pc'[t]} \subseteq {"exiting", "gone"}
       PROVE  RecordsHaveRoom'
  <2>1. \A b \in Addrs : Keeps(t, b)' <=> Keeps(t, b)
    BY <1>22 DEF Keeps
  <2> QED
    BY <1>1, <1>4, <1>8, <1>22, <2>1
<1>23. ASSUME InitBegins(t) PROVE RecordsHaveRoom'
  BY <1>22, <1>23 DEF InitBegins
<1>24. ASSUME InitNested(t) PROVE RecordsHaveRoom'
  BY <1>22, <1>24 DEF InitNested
<1>25. ASSUME InitResolves(t) PROVE RecordsHaveRoom'
  BY <1>22, <1>25 DEF InitResolves
<1>26. ASSUME InitEnds(t) PROVE RecordsHaveRoom'
  BY <1>22, <1>26 DEF InitEnds
<1>27. ASSUME StaticAgain(t) PROVE RecordsHaveRoom'
  BY <1>22, <1>27 DEF StaticAgain
<1>28. ASSUME StrdupAtExit(t) PROVE RecordsHaveRoom'
  BY <1>22, <1>28 DEF StrdupAtExit
<1>29. ASSUME Nested(t) PROVE RecordsHaveRoom'
  BY <1>22, <1>29 DEF Nested, TracedAt
<1>30. ASSUME Report(t) PROVE RecordsHaveRoom'
  BY <1>22, <1>30 DEF Report
<1> QED
  BY <1>0, <1>9, <1>10, <1>11, <1>13, <1>14, <1>15, <1>16, <1>18, <1>19, <1>20, <1>21,
     <1>23, <1>24, <1>25, <1>26, <1>27, <1>28, <1>29, <1>30 DEF ThreadNext

\* A record is cut from a batch only when all others are in use.
LEMMA BatchStaysSmall ==
    ASSUME TypeOK, CallsMatch, OneHolder, RecordsHaveRoom, RecordsAreReused, Next
    PROVE  RecordsAreReused'
<1>0. PICK t \in Threads : ThreadNext(t)
  BY NextIsOfThread
<1>1. CASE alloc_batch' = alloc_batch
  BY <1>1 DEF RecordsAreReused
<1>2. CASE Take(t) /\ alloc_batch' = alloc_batch + 1 /\ alloc_pool = 0
  <2>1. /\ pc[t] = "take" /\ aborted = "no" /\ ~is_exit_done
        /\ call[t].res \in Addrs
    BY <1>2 DEF Take, At, Running, CallsMatch, CallMatches
  <2>2. InHands(t, call[t].res)
    BY <2>1 DEF InHands
  <2>3. Recorded \in SUBSET (Addrs \ {call[t].res})
    <3>1. \A u \in Threads : ~Keeps(u, call[t].res)
      <4>1. \A u \in Threads : Keeps(u, call[t].res) => InHands(u, call[t].res)
        BY DEF Keeps, InHands
      <4>2. ~Keeps(t, call[t].res)
        BY <2>1 DEF Keeps, Entering
      <4> QED
        BY <2>1, <2>2, <4>1, <4>2 DEF OneHolder
    <3>2. call[t].res \notin DOMAIN live
      BY <2>1, <2>2 DEF OneHolder
    <3> QED
      BY <3>1, <3>2 DEF Recorded
  <2>4. Pending \in SUBSET (Threads \ {t})
    BY <2>1 DEF Pending
  <2>5. /\ IsFiniteSet(Addrs \ {call[t].res})
        /\ Cardinality(Addrs \ {call[t].res}) = Cardinality(Addrs) - 1
        /\ IsFiniteSet(Threads \ {t}) /\ Cardinality(Threads \ {t}) = Cardinality(Threads) - 1
        /\ Cardinality(Addrs) \in Nat /\ Cardinality(Threads) \in Nat
    BY <2>1, HeapAssumption, FS_RemoveElement, FS_CardinalityType DEF HeapAssumption
  <2>6. /\ Cardinality(Recorded) <= Cardinality(Addrs) - 1 /\ Cardinality(Recorded) \in Nat
        /\ Cardinality(Pending) <= Cardinality(Threads) - 1 /\ Cardinality(Pending) \in Nat
    BY <2>3, <2>4, <2>5, FS_Subset, FS_CardinalityType
  <2>7. alloc_batch - alloc_pool <= Cardinality(Recorded) + Cardinality(Pending)
    BY <2>1 DEF RecordsHaveRoom
  <2>8. alloc_batch \in Nat
    BY DEF TypeOK
  <2> QED
    BY <1>2, <2>5, <2>6, <2>7, <2>8 DEF RecordsAreReused
<1>3. CASE Untraced(t) \/ UnlinkOld(t)
  <2>1. Untrace(t) /\ call[t].ptr \in Addrs /\ allocs \in Seq(Recs)
    BY <1>3 DEF Untraced, UnlinkOld, CallsMatch, CallMatches, Entering, At, Enters, TypeOK, Recs
  <2> QED
    BY <1>1, <2>1, UntraceCases DEF RecordGoes
<1>4. CASE Take(t)
  BY <1>1, <1>2, <1>4 DEF Take, RecordTaken, Reuses, TypeOK
<1>5. CASE CallNext(t) \/ InitBegins(t) \/ InitNested(t) \/ InitResolves(t) \/ InitEnds(t)
  BY <1>1, <1>5 DEF CallNext, Call, InitBegins, InitNested, InitResolves, InitEnds
<1>6. CASE StaticAgain(t) \/ StrdupAtExit(t) \/ Allocate(t) \/ TakeNothing(t) \/ Link(t)
  BY <1>1, <1>6 DEF StaticAgain, StrdupAtExit, Allocate, TakeNothing, Link
<1>7. CASE Nested(t) \/ DefaultFree(t) \/ ReallocInPlace(t) \/ ReallocMoves(t)
  BY <1>1, <1>7 DEF Nested, TracedAt, DefaultFree, ReallocInPlace, ReallocMoves
<1>8. CASE ReallocFrees(t) \/ ReallocFails(t) \/ Exit(t) \/ Report(t)
  BY <1>1, <1>8 DEF ReallocFrees, ReallocFails, Exit, Report
<1> QED
  BY <1>0, <1>3, <1>4, <1>5, <1>6, <1>7, <1>8 DEF ThreadNext

-----------------------------------------------------------------------------
(* The assertions *)

\* Who holds a block's record owns it.
LEMMA HolderOwns ==
    ASSUME NEW t \in Threads, NEW a \in Addrs, HoldsRecord(t, a)
    PROVE  Owners(a) # 0
<1> DEFINE H == {u \in Threads : HoldsRecord(u, a)}
<1>1. H \in SUBSET Threads /\ H # {}
  OBVIOUS
<1>2. IsFiniteSet(H) /\ Cardinality(H) \in Nat
  BY <1>1, HeapAssumption, FS_Subset, FS_CardinalityType DEF HeapAssumption
<1>3. Cardinality(H) # 0
  BY <1>1, <1>2, FS_EmptySet
<1> HIDE DEF H
<1>4. Owners(a) = Cardinality(H) + IF a \in DOMAIN live THEN 1 ELSE 0
  BY DEF Owners, H
<1> QED
  BY <1>2, <1>3, <1>4

LEMMA AlarmsStayRight ==
    ASSUME TypeOK, CallsMatch, InitIsGuarded, RecordsHaveOwners, NoFalseAlarm, Next
    PROVE  NoFalseAlarm'
<1>0. PICK t \in Threads : ThreadNext(t)
  BY NextIsOfThread
<1>a. raced => raced'
  BY <1>0 DEF ThreadNext, CallNext, Call, InitBegins, InitNested, InitResolves,
     InitEnds, StaticAgain, StrdupAtExit, Allocate, Take, TakeNothing, Link, Nested, Untraced,
     DefaultFree, ReallocInPlace, ReallocMoves, ReallocFrees, ReallocFails, UnlinkOld, Exit, Report
<1>b. lost => lost'
  BY <1>0 DEF ThreadNext, CallNext, Call, InitBegins, InitNested, InitResolves,
     InitEnds, StaticAgain, StrdupAtExit, Allocate, Take, TakeNothing, Link, Nested, Untraced,
     DefaultFree, ReallocInPlace, ReallocMoves, ReallocFrees, ReallocFails, UnlinkOld, Exit, Report
<1>1. CASE aborted' = aborted
  BY <1>1, <1>a, <1>b DEF NoFalseAlarm
<1>2. CASE aborted' # aborted /\ (InitNested(t) \/ InitEnds(t))
  <2>1. pc[t] \in {"dlsym", "resolved"} /\ is_init_done /\ aborted' \in {"static", "initialised twice"}
    BY <1>2 DEF InitNested, InitEnds, At, Aborts
  <2> QED
    BY <1>a, <2>1 DEF InitIsGuarded, NoFalseAlarm
<1>3. CASE StaticAgain(t)
  <2>1. pc[t] \in Inside /\ default_heap = "static" /\ aborted' = "static"
    BY <1>3 DEF StaticAgain, Enters, At, Inside, Aborts
  <2>2. is_init_done
    BY <2>1 DEF InitIsGuarded
  <2>3. raced
    BY <2>1, <2>2 DEF InitIsGuarded
  <2> QED
    BY <1>a, <2>1, <2>3 DEF NoFalseAlarm
<1>4. CASE StrdupAtExit(t)
  BY <1>4 DEF StrdupAtExit, Aborts, NoFalseAlarm
<1>5. CASE Untraced(t) \/ UnlinkOld(t)
  <2>1. /\ Untrace(t) /\ call[t].ptr \in Addrs /\ call[t].op \in {"free", "realloc"}
        /\ pc[t] \in {"enter", "unlink_old"} /\ allocs \in Seq(Recs) /\ UNCHANGED lost
    BY <1>5 DEF Untraced, UnlinkOld, CallsMatch, CallMatches, Entering, At, Enters, TypeOK, Recs
  <2>2. CASE ~is_exit_done /\ Records(call[t].ptr) = 0 /\ aborted' = "freeing bad memory"
    <3>1. HoldsRecord(t, call[t].ptr)
      BY <2>1 DEF HoldsRecord
    <3>2. lost
      BY <2>1, <2>2, <3>1, HolderOwns DEF RecordsHaveOwners
    <3> QED
      BY <2>1, <2>2, <3>2 DEF NoFalseAlarm
  <2> QED
    BY <1>1, <2>1, <2>2, UntraceCases
<1>6. CASE CallNext(t) \/ InitBegins(t) \/ InitResolves(t)
  BY <1>1, <1>6 DEF CallNext, Call, InitBegins, InitResolves
<1>7. CASE Allocate(t) \/ Take(t) \/ TakeNothing(t) \/ Link(t) \/ Nested(t)
  BY <1>1, <1>7 DEF Allocate, Take, TakeNothing, Link, Nested
<1>8. CASE DefaultFree(t) \/ ReallocInPlace(t) \/ ReallocMoves(t)
  BY <1>1, <1>8 DEF DefaultFree, ReallocInPlace, ReallocMoves
<1>9. CASE ReallocFrees(t) \/ ReallocFails(t) \/ Exit(t) \/ Report(t)
  BY <1>1, <1>9 DEF ReallocFrees, ReallocFails, Exit, Report
<1> QED
  BY <1>0, <1>1, <1>2, <1>3, <1>4, <1>5, <1>6, <1>7, <1>8, <1>9 DEF ThreadNext

-----------------------------------------------------------------------------
(* The report *)

LEMMA RecordsStayFresh ==
    ASSUME TypeOK, CallsMatch, OneHolder, RecordsHaveOwners, RecordsAreFresh, Next
    PROVE  RecordsAreFresh'
<1>0. PICK t \in Threads : ThreadNext(t)
  BY NextIsOfThread
<1>a. \A u \in Threads \ {t} : /\ pc'[u] = pc[u] /\ call'[u] = call[u]
                               /\ \A a \in Addrs : /\ HoldsRecord(u, a)' <=> HoldsRecord(u, a)
                                                   /\ Fresh(u, a)' <=> Fresh(u, a)
  BY <1>0, OthersStay DEF HoldsRecord, Fresh
<1>b. /\ pc \in [Threads -> Pcs] /\ call \in [Threads -> Calls] /\ allocs \in Seq(Recs)
      /\ CallMatches(t) /\ HeapAssumption
  BY HeapAssumption DEF TypeOK, Calls, CallsMatch, Recs
<1>c. \A i \in DOMAIN allocs : allocs[i] \in Recs /\ allocs[i].mem \in Addrs
  <2>1. \A i \in DOMAIN allocs : allocs[i] \in Recs
    BY <1>b
  <2> QED
    BY <2>1 DEF Recs
<1>d. \A a \in Addrs, s \in Sites :
        Returns(t, a, s) => /\ Ends(t) /\ DOMAIN live' = DOMAIN live \cup {a} /\ live'[a] = s
                            /\ \A b \in DOMAIN live \ {a} : live'[b] = live[b]
  BY DEF Returns
<1>e. Ends(t) => pc'[t] = "idle" /\ \A a \in Addrs : ~HoldsRecord(t, a)' /\ ~Fresh(t, a)'
  BY EndsCall DEF HoldsRecord, Fresh
<1>f. \A a \in Addrs \cup {Failed}, s \in Sites :
        (\/ call' = [call EXCEPT ![t].res = a] /\ s = call[t].site
         \/ call' = [call EXCEPT ![t].res = a, ![t].site = s])
        => call'[t].op = call[t].op /\ call'[t].ptr = call[t].ptr /\ call'[t].res = a
  BY ResultIsSet
<1>g. call[t].site \in Sites
  BY <1>b DEF Calls
<1>h. \A u \in Threads, a \in Addrs : InHands(u, a) => a \in heap /\ a \notin DOMAIN live
  BY DEF OneHolder
<1>i. \A u \in Threads, a \in Addrs : Fresh(u, a) => InHands(u, a)
  BY DEF Fresh, InHands
<1>j. \A a \in Addrs, u \in Threads \ {t} :
        HoldsRecord(u, a) /\ a \notin heap => lost \/ RecordPending(t, a)
  BY <1>h DEF HoldsRecord, RecordPending, InHands, Entering, CallsMatch, CallMatches
<1>k. (lost => lost') /\ (reused => reused') /\ (is_exit_done => is_exit_done')
  <2>1. lost => lost'
    BY <1>0 DEF ThreadNext, CallNext, Call, InitBegins, InitNested, InitResolves,
       InitEnds, StaticAgain, StrdupAtExit, Allocate, Take, TakeNothing, Link, Nested, Untraced,
       DefaultFree, ReallocInPlace, ReallocMoves, ReallocFrees, ReallocFails, UnlinkOld, Exit, Report
  <2>2. reused => reused'
    BY <1>0 DEF ThreadNext, CallNext, Call, InitBegins, InitNested, InitResolves,
       InitEnds, StaticAgain, StrdupAtExit, Allocate, Take, TakeNothing, Link, Nested, Untraced,
       DefaultFree, ReallocInPlace, ReallocMoves, ReallocFrees, ReallocFails, UnlinkOld, Exit, Report
  <2>3. is_exit_done => is_exit_done'
    BY <1>0 DEF ThreadNext, CallNext, Call, InitBegins, InitNested, InitResolves,
       InitEnds, StaticAgain, StrdupAtExit, Allocate, Take, TakeNothing, Link, Nested, Untraced,
       DefaultFree, ReallocInPlace, ReallocMoves, ReallocFrees, ReallocFails, UnlinkOld, Exit, Report
  <2> QED
    BY <2>1, <2>2, <2>3
<1> SUFFICES ASSUME ~lost', ~reused', ~is_exit_done' PROVE FreshHaveNone' /\ SitesAreRight'
  BY DEF RecordsAreFresh
<1>l. FreshHaveNone /\ SitesAreRight /\ ~lost /\ ~is_exit_done
  BY <1>k DEF RecordsAreFresh
<1>m. ASSUME \A r \in Recs : (\E i \in DOMAIN allocs' : allocs'[i] = r) => SiteIsRight(r)',
             allocs' \in Seq(Recs)
      PROVE  SitesAreRight'
  <2> SUFFICES ASSUME NEW i \in DOMAIN allocs' PROVE SiteIsRight(allocs[i])'
    BY DEF SitesAreRight
  <2>1. PICK r \in Recs : r = allocs'[i]
    BY <1>m
  <2>2. SiteIsRight(r)'
    BY <1>m, <2>1
  <2> QED
    BY <2>1, <2>2 DEF SiteIsRight, HoldsRecord
<1>n. \A r \in Recs : /\ r.mem \in Addrs
                      /\ (\E i \in DOMAIN allocs : allocs[i] = r) => SiteIsRight(r)
  BY <1>l DEF SitesAreRight, Recs
<1>o. allocs' \in Seq(Recs)
  BY TypeIsKept DEF TypeOK, Recs
\* Nothing but what the thread that steps holds can be wrong.
<1>1. ASSUME \A a \in Addrs : /\ Fresh(t, a)' => Fresh(t, a)
                              /\ HoldsRecord(t, a)' => HoldsRecord(t, a)
      PROVE  FreshHaveNone'
  <2>1. \A u \in Threads, a \in Addrs : /\ Fresh(u, a)' => Fresh(u, a)
                                        /\ HoldsRecord(u, a)' => HoldsRecord(u, a)
    BY <1>a, <1>1
  <2> QED
    BY <1>l, <2>1 DEF FreshHaveNone
<1>2. ASSUME NEW a \in Addrs, a \notin heap, RecordPending(t, a) => reused',
             \A b \in Addrs : /\ Fresh(t, b)' <=> b = a
                              /\ HoldsRecord(t, b)' => b # a /\ HoldsRecord(t, b)
      PROVE  FreshHaveNone'
  <2>1. \A u \in Threads \ {t} : ~HoldsRecord(u, a)
    BY <1>j, <1>l, <1>2
  <2> QED
    BY <1>a, <1>l, <1>2, <2>1 DEF FreshHaveNone
<1>3. ASSUME \A i \in DOMAIN allocs' : \E j \in DOMAIN allocs : allocs'[i] = allocs[j],
             \A a \in DOMAIN live' : a \in DOMAIN live /\ live'[a] = live[a],
             \A a \in Addrs : HoldsRecord(t, a)' /\ pc'[t] # "unlink_old" =>
                /\ HoldsRecord(t, a) /\ pc[t] # "unlink_old" /\ call'[t].site = call[t].site
      PROVE  SitesAreRight'
  <2> SUFFICES ASSUME NEW r \in Recs, NEW i \in DOMAIN allocs', allocs'[i] = r
               PROVE  SiteIsRight(r)'
    BY <1>m, <1>o
  <2>1. r.mem \in Addrs /\ SiteIsRight(r)
    BY <1>3, <1>n
  <2> QED
    BY <1>3, <1>a, <2>1 DEF SiteIsRight
<1> USE <1>b DEF At, Goes, Enters, Entering, CallMatches
\* A block that is the program's now was in the hands of this thread.
<1>4. ASSUME NEW a \in Addrs, Returns(t, a, call[t].site),
             \A i \in DOMAIN allocs' : \E j \in DOMAIN allocs : allocs'[i] = allocs[j],
             \A i \in DOMAIN allocs : allocs[i].mem = a => allocs[i].site = call[t].site
      PROVE  SitesAreRight'
  <2>1. /\ DOMAIN live' = DOMAIN live \cup {a} /\ live'[a] = call[t].site
        /\ \A b \in DOMAIN live \ {a} : live'[b] = live[b]
        /\ \A b \in Addrs : ~HoldsRecord(t, b)'
    BY <1>4, <1>d, <1>e, <1>g
  <2> SUFFICES ASSUME NEW r \in Recs, NEW i \in DOMAIN allocs', allocs'[i] = r
               PROVE  SiteIsRight(r)'
    BY <1>m, <1>o
  <2>2. r.mem \in Addrs /\ SiteIsRight(r) /\ \E j \in DOMAIN allocs : r = allocs[j]
    BY <1>4, <1>n
  <2>3. r.mem \in DOMAIN live' => live'[r.mem] = r.site
    BY <1>4, <2>1, <2>2 DEF SiteIsRight
  <2> QED
    BY <1>a, <2>1, <2>2, <2>3 DEF SiteIsRight
<1>5. ASSUME CallNext(t) PROVE FreshHaveNone' /\ SitesAreRight'
  <2>1. PICK o \in {"alloc", "strdup", "free", "realloc"}, a \in Addrs \cup {None}, s \in Sites :
            Call(t, o, a, s)
    BY <1>5 DEF CallNext
  <2>2. /\ pc[t] = "idle" /\ pc'[t] \in {"enter", "lock"} /\ allocs' = allocs
        /\ call'[t].ptr = a /\ call'[t].site = IF a = None THEN s ELSE live[a]
    BY <2>1 DEF Call, Touched
  <2>3. /\ DOMAIN live' = DOMAIN live \ {a} /\ (a = None \/ a \in DOMAIN live)
        /\ \A b \in DOMAIN live' : live'[b] = live[b]
    BY <2>1 DEF Call
  <2>4. \A b \in Addrs : /\ ~Fresh(t, b)' /\ (HoldsRecord(t, b)' => b = a)
    BY <2>2 DEF Fresh, HoldsRecord
  <2>5. \A u \in Threads : a \in DOMAIN live => ~Fresh(u, a)
    BY <1>h, <1>i DEF TypeOK
  <2>6. FreshHaveNone'
    BY <1>a, <1>l, <2>3, <2>4, <2>5 DEF FreshHaveNone, HeapAssumption
  <2>7. SitesAreRight'
    <3> SUFFICES ASSUME NEW r \in Recs, NEW i \in DOMAIN allocs', allocs'[i] = r
                 PROVE  SiteIsRight(r)'
      BY <1>m, <1>o
    <3>1. r.mem \in Addrs /\ SiteIsRight(r)
      BY <1>n, <2>2
    <3>2. HoldsRecord(t, r.mem)' => call'[t].site = r.site
      BY <2>2, <2>3, <2>4, <3>1 DEF SiteIsRight, HeapAssumption
    <3> QED
      BY <1>a, <2>3, <3>1, <3>2 DEF SiteIsRight
  <2> QED
    BY <2>6, <2>7
<1>6. ASSUME Allocate(t) PROVE FreshHaveNone' /\ SitesAreRight'
  <2>1. pc[t] = "enter" /\ call[t].op \in {"alloc", "strdup"} /\ UNCHANGED <<live, allocs>>
    BY <1>6 DEF Allocate
  <2>2. CASE Ends(t)
    BY <1>1, <1>3, <1>e, <2>1, <2>2
  <2>3. CASE \E a \in Addrs \ heap : /\ call' = [call EXCEPT ![t].res = a]
                                     /\ reused' = (reused \/ RecordPending(t, a))
                                     /\ Goes(t, "take")
    <3>1. PICK a \in Addrs \ heap : /\ call' = [call EXCEPT ![t].res = a]
                                    /\ reused' = (reused \/ RecordPending(t, a))
                                    /\ Goes(t, "take")
      BY <2>3
    <3>2. call'[t].res = a /\ pc'[t] = "take"
      BY <1>f, <1>g, <3>1, ZenonT(60)
    <3>3. \A b \in Addrs : (Fresh(t, b)' <=> b = a) /\ ~HoldsRecord(t, b)'
      BY <3>2 DEF Fresh, HoldsRecord
    <3>4. FreshHaveNone'
      BY <1>2, <3>1, <3>3
    <3>5. SitesAreRight'
      BY <1>3, <2>1, <3>3
    <3> QED
      BY <3>4, <3>5
  <2> QED
    BY <1>6, <2>2, <2>3 DEF Allocate
<1>7. ASSUME ReallocMoves(t) PROVE FreshHaveNone' /\ SitesAreRight'
  <2>1. PICK a \in Addrs \ heap, s \in Sites : /\ call' = [call EXCEPT ![t].res = a, ![t].site = s]
                                               /\ reused' = (reused \/ RecordPending(t, a))
    BY <1>7 DEF ReallocMoves
  <2>2. call'[t].res = a /\ call'[t].ptr = call[t].ptr /\ call'[t].op = call[t].op
    BY <1>f, <2>1
  <2>3. /\ pc[t] = "enter" /\ call[t].ptr \in Addrs /\ call[t].op = "realloc" /\ pc'[t] = "unlink_old"
        /\ UNCHANGED <<live, allocs>>
    BY <1>7 DEF ReallocMoves
  <2>4. call[t].ptr # a
    BY <1>h, <2>1, <2>3 DEF InHands
  <2>5. \A b \in Addrs : /\ Fresh(t, b)' <=> b = a
                         /\ HoldsRecord(t, b)' => b # a /\ HoldsRecord(t, b)
    BY <2>2, <2>3, <2>4 DEF Fresh, HoldsRecord
  <2>6. FreshHaveNone'
    BY <1>2, <2>1, <2>5
  <2>7. SitesAreRight'
    BY <1>3, <2>3
  <2> QED
    BY <2>6, <2>7
<1>8. ASSUME ReallocFrees(t) PROVE FreshHaveNone' /\ SitesAreRight'
  <2>1. /\ pc[t] = "enter" /\ call[t].op = "realloc" /\ call[t].res = None /\ pc'[t] = "unlink_old"
        /\ UNCHANGED <<live, allocs, call>>
    BY <1>8 DEF ReallocFrees
  <2>2. \A b \in Addrs : ~Fresh(t, b)' /\ (HoldsRecord(t, b)' => HoldsRecord(t, b))
    BY <2>1 DEF Fresh, HoldsRecord, HeapAssumption
  <2> QED
    BY <1>1, <1>3, <2>1, <2>2
<1>9. ASSUME ReallocFails(t) PROVE FALSE
  BY <1>9 DEF ReallocFails
<1>10. ASSUME TakeNothing(t) \/ Exit(t) PROVE FALSE
  BY <1>10 DEF TakeNothing, Exit
<1>11. ASSUME Link(t) PROVE FreshHaveNone' /\ SitesAreRight'
  <2>1. /\ pc[t] = "link" /\ call[t].res \in Addrs /\ Returns(t, call[t].res, call[t].site)
        /\ RecordComes(Record(call[t].res, call[t].site))
    BY <1>11, <1>g, LinkedComes DEF Link
  <2>2. Fresh(t, call[t].res)
    BY <2>1 DEF Fresh
  <2>3. ~IsTraced(call[t].res)
    <3>1. \A u \in Threads : ~HoldsRecord(u, call[t].res)
      BY <1>l, <2>1, <2>2 DEF FreshHaveNone
    <3>2. {u \in Threads : HoldsRecord(u, call[t].res)} = {} /\ call[t].res \notin DOMAIN live
      BY <1>h, <1>i, <2>1, <2>2, <3>1
    <3>3. Owners(call[t].res) = 0
      <4>1. Cardinality({u \in Threads : HoldsRecord(u, call[t].res)}) = 0
        BY <3>2, FS_EmptySet
      <4> HIDE DEF HoldsRecord
      <4> QED
        BY <3>2, <4>1 DEF Owners
    <3>4. Records(call[t].res) = 0
      BY <1>l, <2>1, <3>3 DEF RecordsHaveOwners
    <3> QED
      BY <2>1, <3>4, RecordsIsNat
  <2>4. FreshHaveNone'
    BY <1>1, <1>d, <1>e, <1>g, <2>1
  <2>5. /\ DOMAIN live' = DOMAIN live \cup {call[t].res} /\ live'[call[t].res] = call[t].site
        /\ \A b \in DOMAIN live \ {call[t].res} : live'[b] = live[b]
        /\ \A b \in Addrs : ~HoldsRecord(t, b)'
    BY <1>d, <1>e, <1>g, <2>1, ZenonT(60)
  <2> SUFFICES ASSUME NEW r \in Recs, NEW i \in DOMAIN allocs', allocs'[i] = r
               PROVE  SiteIsRight(r)'
    BY <2>4, <1>m, <1>o
  <2>6. CASE r = Record(call[t].res, call[t].site)
    <3>1. r.mem = call[t].res /\ r.site = call[t].site
      BY <2>6 DEF Record
    <3>2. \A u \in Threads : ~HoldsRecord(u, call[t].res)
      BY <1>l, <2>1, <2>2 DEF FreshHaveNone
    <3> QED
      BY <1>a, <2>1, <2>5, <3>1, <3>2 DEF SiteIsRight
  <2>7. CASE \E j \in DOMAIN allocs : r = allocs[j]
    <3>1. r.mem \in Addrs /\ r.mem # call[t].res /\ SiteIsRight(r)
      BY <1>n, <2>3, <2>7 DEF IsTraced
    <3> QED
      BY <1>a, <2>5, <3>1 DEF SiteIsRight
  <2> QED
    BY <2>1, <2>6, <2>7 DEF RecordComes
<1>12. ASSUME Untrace(t), call[t].ptr \in Addrs
       PROVE  \A i \in DOMAIN allocs' : \E j \in DOMAIN allocs : allocs'[i] = allocs[j]
  BY <1>12, UntraceCases DEF RecordGoes
<1>13. ASSUME Untraced(t) PROVE FreshHaveNone' /\ SitesAreRight'
  <2>1. /\ Untrace(t) /\ call[t].ptr \in Addrs /\ UNCHANGED <<live, call>>
        /\ pc'[t] = "default_free"
    BY <1>13 DEF Untraced
  <2>2. \A b \in Addrs : ~Fresh(t, b)' /\ ~HoldsRecord(t, b)'
    BY <2>1 DEF Fresh, HoldsRecord
  <2> QED
    BY <1>1, <1>3, <1>12, <2>1, <2>2
<1>14. ASSUME UnlinkOld(t) PROVE FreshHaveNone' /\ SitesAreRight'
  <2>1. /\ Untrace(t) /\ call[t].ptr \in Addrs /\ pc[t] = "unlink_old" /\ call[t].res # Failed
    BY <1>14, <1>l DEF UnlinkOld
  <2>2. live' = live /\ (Ends(t) \/ (pc'[t] = "take" /\ call' = call))
    BY <1>14, <2>1 DEF UnlinkOld
  <2>3. \A b \in Addrs : (Fresh(t, b)' => Fresh(t, b)) /\ ~HoldsRecord(t, b)'
    BY <1>e, <2>1, <2>2 DEF Fresh, HoldsRecord
  <2> QED
    BY <1>1, <1>3, <1>12, <2>1, <2>2, <2>3
<1>15. ASSUME DefaultFree(t) PROVE FreshHaveNone' /\ SitesAreRight'
  <2>1. Ends(t) /\ UNCHANGED <<live, allocs>>
    BY <1>15 DEF DefaultFree
  <2> QED
    BY <1>1, <1>3, <1>e, <2>1
<1>16. ASSUME ReallocInPlace(t) PROVE FreshHaveNone' /\ SitesAreRight'
  <2>1. /\ pc[t] = "enter" /\ call[t].op = "realloc" /\ call[t].ptr \in Addrs
        /\ Returns(t, call[t].ptr, call[t].site) /\ allocs' = allocs
    BY <1>16 DEF ReallocInPlace
  <2>2. HoldsRecord(t, call[t].ptr)
    BY <2>1 DEF HoldsRecord
  <2>3. FreshHaveNone'
    BY <1>1, <1>d, <1>e, <1>g, <2>1
  <2>4. \A i \in DOMAIN allocs : allocs[i].mem = call[t].ptr => allocs[i].site = call[t].site
    BY <1>l, <2>1, <2>2 DEF SitesAreRight, SiteIsRight
  <2> QED
    BY <1>4, <2>1, <2>3, <2>4
<1>17. ASSUME UNCHANGED <<live, call, allocs>>,
              \/ pc'[t] = pc[t] \/ {pc[t], pc'[t]} \subseteq Entering
              \/ pc[t] = "exiting" /\ pc'[t] = "gone"
              \/ pc[t] = "take" /\ pc'[t] = "link"
       PROVE  FreshHaveNone' /\ SitesAreRight'
  <2>1. \A b \in Addrs : /\ Fresh(t, b)' => Fresh(t, b)
                         /\ HoldsRecord(t, b)' => HoldsRecord(t, b) /\ (pc'[t] # "unlink_old" => pc[t] # "unlink_old")
    BY <1>17 DEF Fresh, HoldsRecord
  <2> QED
    BY <1>1, <1>3, <1>17, <2>1
<1>18. ASSUME InitBegins(t) PROVE FreshHaveNone' /\ SitesAreRight'
  BY <1>17, <1>18 DEF InitBegins
<1>19. ASSUME InitNested(t) PROVE FreshHaveNone' /\ SitesAreRight'
  BY <1>17, <1>19 DEF InitNested
<1>20. ASSUME InitResolves(t) PROVE FreshHaveNone' /\ SitesAreRight'
  BY <1>17, <1>20 DEF InitResolves
<1>21. ASSUME InitEnds(t) PROVE FreshHaveNone' /\ SitesAreRight'
  BY <1>17, <1>21 DEF InitEnds
<1>22. ASSUME StaticAgain(t) PROVE FreshHaveNone' /\ SitesAreRight'
  BY <1>17, <1>22 DEF StaticAgain
<1>23. ASSUME StrdupAtExit(t) PROVE FreshHaveNone' /\ SitesAreRight'
  BY <1>17, <1>23 DEF StrdupAtExit
<1>24. ASSUME Take(t) PROVE FreshHaveNone' /\ SitesAreRight'
  BY <1>17, <1>24 DEF Take
<1>25. ASSUME Nested(t) PROVE FreshHaveNone' /\ SitesAreRight'
  BY <1>17, <1>25 DEF Nested, TracedAt
<1>26. ASSUME Report(t) PROVE FreshHaveNone' /\ SitesAreRight'
  <2>1. UNCHANGED <<live, call, allocs>> /\ pc[t] = "exiting" /\ pc'[t] = "gone"
    BY <1>26 DEF Report
  <2> QED
    BY <1>17, <2>1
<1> QED
  BY <1>0, <1>5, <1>6, <1>7, <1>8, <1>9, <1>10, <1>11, <1>13, <1>14, <1>15, <1>16,
     <1>18, <1>19, <1>20, <1>21, <1>22, <1>23, <1>24, <1>25, <1>26 DEF ThreadNext

\* With everybody outside of a call, the records from the user's code are those of
\* the user's blocks.
LEMMA UserRecordsAreBlocks ==
    ASSUME TypeOK, CallsMatch, RecordsAreKept, RecordsHaveOwners, RecordsAreFresh,
           ~lost, ~reused, ~is_exit_done, \A t \in Threads : pc[t] = "idle"
    PROVE  Cardinality(UserBlocks) = UserCounted
<1> DEFINE All == 1..Len(allocs)
           Internal == {i \in All : allocs[i].site = "internal"}
           User == All \ Internal
           f == [i \in User |-> allocs[i].mem]
<1>0. IsFiniteSet(1..Len(allocs)) /\ Cardinality(1..Len(allocs)) = Len(allocs)
  <2>1. Len(allocs) \in Nat
    BY DEF TypeOK
  <2>2. IsFiniteSet(1..Len(allocs)) /\ Cardinality(1..Len(allocs)) = IF 1 > Len(allocs) THEN 0 ELSE Len(allocs) - 1 + 1
    BY <2>1, FS_Interval, SMTT(60)
  <2> QED
    BY <2>1, <2>2
<1>1. /\ allocs \in Seq(Recs) /\ Len(allocs) \in Nat /\ DOMAIN allocs = All
      /\ \A i \in All : allocs[i].mem \in Addrs /\ allocs[i].site \in Sites
  <2>1. allocs \in Seq(Recs) /\ Len(allocs) \in Nat /\ DOMAIN allocs = All
    BY DEF TypeOK, Recs
  <2>2. \A i \in All : allocs[i] \in Recs
    BY <2>1
  <2> QED
    BY <2>1, <2>2 DEF Recs
<1>2. ASSUME NEW a \in Addrs PROVE Records(a) = IF a \in DOMAIN live THEN 1 ELSE 0
  <2>1. {t \in Threads : HoldsRecord(t, a)} = {}
    BY DEF HoldsRecord
  <2>2. Owners(a) = IF a \in DOMAIN live THEN 1 ELSE 0
    BY <2>1, FS_EmptySet DEF Owners
  <2> QED
    BY <2>2 DEF RecordsHaveOwners
<1>3. ASSUME NEW a \in Addrs, NEW i \in All, allocs[i].mem = a
      PROVE  a \in DOMAIN live /\ \A j \in All : allocs[j].mem = a => j = i
  <2>1. PICK I : I = {j \in All : allocs[j].mem = a}
    OBVIOUS
  <2>2. IsFiniteSet(I) /\ i \in I
    <3>1. I \in SUBSET All
      BY <2>1
    <3> QED
      BY <1>0, <1>3, <2>1, <3>1, FS_Subset
  <2>3. Cardinality(I) = IF a \in DOMAIN live THEN 1 ELSE 0
    BY <1>1, <1>2, <2>1 DEF Records
  <2>4. Cardinality(I) # 0
    BY <2>2, FS_EmptySet
  <2>5. Cardinality(I) = 1 /\ a \in DOMAIN live
    BY <2>3, <2>4
  <2>6. \E x : I = {x}
    BY <2>2, <2>5, FS_Singleton
  <2> QED
    BY <2>1, <2>2, <2>5, <2>6
<1>4. ASSUME NEW a \in DOMAIN live PROVE \E i \in All : allocs[i].mem = a
  <2>1. a \in Addrs
    BY DEF TypeOK
  <2>2. Records(a) = 1
    BY <1>2, <2>1
  <2>3. IsTraced(a)
    BY <1>1, <2>1, <2>2, RecordsIsNat
  <2> QED
    BY <1>1, <2>3 DEF IsTraced
<1>5. \A i \in All : allocs[i].mem \in DOMAIN live /\ live[allocs[i].mem] = allocs[i].site
  BY <1>1, <1>3 DEF RecordsAreFresh, SitesAreRight, SiteIsRight
<1>6. f \in Bijection(User, UserBlocks)
  <2>1. \A i \in User : f[i] \in UserBlocks
    BY <1>1, <1>5 DEF UserBlocks, Sites
  <2>2. \A i, j \in User : f[i] = f[j] => i = j
    BY <1>1, <1>3
  <2>3. \A a \in UserBlocks : \E i \in User : f[i] = a
    <3> SUFFICES ASSUME NEW a \in UserBlocks PROVE \E i \in User : f[i] = a
      OBVIOUS
    <3>1. PICK i \in All : allocs[i].mem = a
      BY <1>4 DEF UserBlocks
    <3>2. allocs[i].site = "user"
      BY <1>5, <3>1 DEF UserBlocks
    <3> QED
      BY <3>1, <3>2
  <2>4. f \in [User -> UserBlocks]
    BY <2>1
  <2> HIDE DEF f
  <2> QED
    BY <2>2, <2>3, <2>4 DEF Bijection, Injection, IsInjective, Surjection
<1>7. IsFiniteSet(All) /\ Cardinality(All) = Len(allocs)
  BY <1>0, <1>1
<1>8. IsFiniteSet(User) /\ Cardinality(User) = Cardinality(All) - Cardinality(All \cap Internal)
  BY <1>7, FS_Difference
<1>9. All \cap Internal = Internal
  OBVIOUS
<1>10. Cardinality(UserBlocks) = Cardinality(User)
  BY <1>6, <1>8, FS_Bijection DEF ExistsBijection
<1>11. UserCounted = Len(allocs) - Cardinality(Internal)
  BY <1>1 DEF UserCounted, RecordsAreKept
<1> QED
  BY <1>7, <1>8, <1>9, <1>10, <1>11

LEMMA CountStaysHeld ==
    ASSUME TypeOK, CallsMatch, RecordsAreKept, RecordsHaveOwners, RecordsAreFresh, CountIsHeld, Next
    PROVE  CountIsHeld'
<1>0. PICK t \in Threads : ThreadNext(t)
  BY NextIsOfThread
<1>a. \A u \in Threads \ {t} : pc'[u] = pc[u]
  BY <1>0, OthersStay
<1>b. (lost => lost') /\ (reused => reused') /\ (is_exit_done => is_exit_done')
  <2>1. lost => lost'
    BY <1>0 DEF ThreadNext, CallNext, Call, InitBegins, InitNested, InitResolves,
       InitEnds, StaticAgain, StrdupAtExit, Allocate, Take, TakeNothing, Link, Nested, Untraced,
       DefaultFree, ReallocInPlace, ReallocMoves, ReallocFrees, ReallocFails, UnlinkOld, Exit, Report
  <2>2. reused => reused'
    BY <1>0 DEF ThreadNext, CallNext, Call, InitBegins, InitNested, InitResolves,
       InitEnds, StaticAgain, StrdupAtExit, Allocate, Take, TakeNothing, Link, Nested, Untraced,
       DefaultFree, ReallocInPlace, ReallocMoves, ReallocFrees, ReallocFails, UnlinkOld, Exit, Report
  <2>3. is_exit_done => is_exit_done'
    BY <1>0 DEF ThreadNext, CallNext, Call, InitBegins, InitNested, InitResolves,
       InitEnds, StaticAgain, StrdupAtExit, Allocate, Take, TakeNothing, Link, Nested, Untraced,
       DefaultFree, ReallocInPlace, ReallocMoves, ReallocFrees, ReallocFails, UnlinkOld, Exit, Report
  <2> QED
    BY <2>1, <2>2, <2>3
<1>c. report = None /\ pc \in [Threads -> Pcs]
  <2>1. report = None
    BY <1>0 DEF ThreadNext, CallNext, Call, InitBegins, InitNested, InitResolves,
       InitEnds, StaticAgain, StrdupAtExit, Allocate, Take, TakeNothing, Link, Nested, Untraced,
       DefaultFree, ReallocInPlace, ReallocMoves, ReallocFrees, ReallocFails, UnlinkOld, Exit, Report, At, Enters, Running
  <2> QED
    BY <2>1 DEF TypeOK
\* The table stays as it is; only it and the two counts matter.
<1>1. ASSUME UNCHANGED <<allocs, alloc_count, held, report>>, pc'[t] = "link" => pc[t] = "link"
      PROVE  CountIsHeld'
  <2>1. UserCounted' = UserCounted
    BY <1>1 DEF UserCounted
  <2>2. Linking = {} => Linking' = {}
    BY <1>a, <1>1 DEF Linking
  <2> QED
    BY <1>1, <1>b, <1>c, <2>1, <2>2 DEF CountIsHeld
<1>2. ASSUME held = None, UNCHANGED <<held, report>> PROVE CountIsHeld'
  BY <1>2, <1>c DEF CountIsHeld
<1>d. \A a, s : Returns(t, a, s) => Ends(t)
  BY DEF Returns
<1>e. Ends(t) => pc'[t] = "idle"
  BY <1>c DEF Ends, Goes
<1> USE <1>c DEF At, Goes, Enters
<1>3. ASSUME Take(t) PROVE CountIsHeld'
  <2>1. held = None
    BY <1>3 DEF Take, CountIsHeld
  <2> QED
    BY <1>2, <1>3, <2>1 DEF Take
<1>4. ASSUME Link(t) PROVE CountIsHeld'
  <2>1. held = None
    BY <1>4 DEF Link, CountIsHeld, Linking
  <2> QED
    BY <1>2, <1>4, <2>1 DEF Link
<1>5. ASSUME Untraced(t) \/ UnlinkOld(t) PROVE CountIsHeld'
  <2>1. UNCHANGED <<held, report>> /\ (pc'[t] # "link") /\ Untrace(t)
    BY <1>5, <1>d, <1>e DEF Untraced, UnlinkOld
  <2>2. CASE is_exit_done
    BY <1>1, <2>1, <2>2 DEF Untrace
  <2>3. CASE ~is_exit_done
    BY <1>2, <2>1, <2>3 DEF CountIsHeld
  <2> QED
    BY <2>2, <2>3
<1>6. ASSUME Exit(t) PROVE CountIsHeld'
  <2>1. /\ ~is_exit_done /\ is_exit_done' /\ pc[t] = "idle" /\ pc'[t] = "exiting"
        /\ UNCHANGED <<allocs, alloc_count, lost, reused, report>>
        /\ held' = IF \A u \in Threads : pc[u] = "idle" THEN Cardinality(UserBlocks) ELSE None
    BY <1>6 DEF Exit
  <2>2. UserCounted' = UserCounted
    BY <2>1 DEF UserCounted
  <2>3. CASE \A u \in Threads : pc[u] = "idle"
    <3>1. Linking' = {}
      BY <1>a, <2>1, <2>3 DEF Linking
    <3>2. ~lost /\ ~reused => held' = UserCounted
      BY <2>1, <2>3, UserRecordsAreBlocks
    <3> QED
      BY <2>1, <2>2, <3>1, <3>2 DEF CountIsHeld
  <2>4. CASE ~\A u \in Threads : pc[u] = "idle"
    BY <2>1, <2>4 DEF CountIsHeld
  <2> QED
    BY <2>3, <2>4
<1>7. ASSUME Report(t) PROVE CountIsHeld'
  <2>1. /\ report' = UserCounted /\ pc[t] = "exiting" /\ pc'[t] = "gone"
        /\ UNCHANGED <<allocs, alloc_count, held>>
    BY <1>7 DEF Report
  <2>2. UserCounted' = UserCounted
    BY <2>1 DEF UserCounted
  <2>3. Linking = {} => Linking' = {}
    BY <1>a, <2>1 DEF Linking
  <2> QED
    BY <1>b, <2>1, <2>2, <2>3 DEF CountIsHeld
<1>8. ASSUME CallNext(t) PROVE CountIsHeld'
  BY <1>1, <1>8 DEF CallNext, Call, Touched
<1>9. ASSUME InitBegins(t) PROVE CountIsHeld'
  BY <1>1, <1>9 DEF InitBegins
<1>10. ASSUME InitNested(t) PROVE CountIsHeld'
  BY <1>1, <1>10 DEF InitNested
<1>11. ASSUME InitResolves(t) PROVE CountIsHeld'
  BY <1>1, <1>11 DEF InitResolves
<1>12. ASSUME InitEnds(t) PROVE CountIsHeld'
  BY <1>1, <1>12 DEF InitEnds
<1>13. ASSUME StaticAgain(t) PROVE CountIsHeld'
  BY <1>1, <1>13 DEF StaticAgain
<1>14. ASSUME StrdupAtExit(t) PROVE CountIsHeld'
  BY <1>1, <1>14 DEF StrdupAtExit
<1>15. ASSUME Allocate(t) PROVE CountIsHeld'
  BY <1>1, <1>15, <1>d, <1>e DEF Allocate
<1>16. ASSUME TakeNothing(t) PROVE CountIsHeld'
  BY <1>1, <1>16, <1>d, <1>e DEF TakeNothing
<1>17. ASSUME Nested(t) PROVE CountIsHeld'
  BY <1>1, <1>17 DEF Nested, TracedAt
<1>18. ASSUME DefaultFree(t) PROVE CountIsHeld'
  BY <1>1, <1>18, <1>d, <1>e DEF DefaultFree
<1>19. ASSUME ReallocInPlace(t) PROVE CountIsHeld'
  BY <1>1, <1>19, <1>d, <1>e DEF ReallocInPlace
<1>20. ASSUME ReallocMoves(t) PROVE CountIsHeld'
  BY <1>1, <1>20 DEF ReallocMoves
<1>21. ASSUME ReallocFrees(t) PROVE CountIsHeld'
  BY <1>1, <1>21 DEF ReallocFrees
<1>22. ASSUME ReallocFails(t) PROVE CountIsHeld'
  BY <1>1, <1>22 DEF ReallocFails
<1> QED
  BY <1>0, <1>3, <1>4, <1>5, <1>6, <1>7, <1>8, <1>9, <1>10, <1>11, <1>12, <1>13, <1>14, <1>15,
     <1>16, <1>17, <1>18, <1>19, <1>20, <1>21, <1>22 DEF ThreadNext

-----------------------------------------------------------------------------
(* The theorems *)

LEMMA HeapInit ==
    ASSUME Init
    PROVE  HeapInv
<1> USE HeapAssumption DEF HeapAssumption, Init, NoCall
<1>1. TypeOK
  <2>1. live \in [DOMAIN live -> Sites] /\ DOMAIN live \subseteq Addrs
    BY DEF Sites
  <2>2. allocs \in Seq([mem : Addrs, site : Sites])
    OBVIOUS
  <2>3. /\ pc \in [Threads -> Pcs]
        /\ call \in [Threads -> [op : {"none", "alloc", "strdup", "free", "realloc"},
                                 ptr : Addrs \cup {None}, res : Addrs \cup {None, Failed},
                                 site : Sites]]
    BY DEF Sites, Pcs
  <2>4. /\ is_init_done \in BOOLEAN /\ is_exit_done \in BOOLEAN
        /\ init_lock \in Threads \cup {None} /\ default_heap \in {"none", "static", "system"}
    OBVIOUS
  <2>5. /\ alloc_count \in Int /\ alloc_pool \in Nat /\ alloc_batch \in Nat
        /\ heap \subseteq Addrs /\ hidden \subseteq Addrs
    OBVIOUS
  <2> QED
    BY <2>1, <2>2, <2>3, <2>4, <2>5 DEF TypeOK
<1>2. CallsMatch /\ OneHolder /\ InitIsGuarded
  BY DEF CallsMatch, CallMatches, Entering, OneHolder, InHands, InitIsGuarded, Inside
<1>3. Linking = {} /\ Cardinality({}) = 0 /\ Len(allocs) = 0 /\ DOMAIN allocs = {}
  BY FS_EmptySet DEF Linking
<1>4. RecordsAreKept
  BY <1>3 DEF RecordsAreKept
<1>5. RecordsHaveOwners
  <2> SUFFICES ASSUME NEW a \in Addrs PROVE Records(a) = Owners(a) /\ Records(a) <= Owners(a)
    BY DEF RecordsHaveOwners
  <2>1. {t \in Threads : HoldsRecord(t, a)} = {} /\ {i \in DOMAIN allocs : allocs[i].mem = a} = {}
    BY <1>3 DEF HoldsRecord
  <2>2. Records(a) = 0
    BY <1>3, <2>1 DEF Records
  <2>3. Owners(a) = 0
    <3>1. Cardinality({t \in Threads : HoldsRecord(t, a)}) = 0
      BY ONLY <1>3, <2>1, Zenon
    <3>2. a \notin DOMAIN live
      OBVIOUS
    <3> QED
      BY ONLY <3>1, <3>2 DEF Owners
  <2> QED
    BY <2>2, <2>3
<1>6. RecordsAreFresh
  BY <1>3 DEF RecordsAreFresh, FreshHaveNone, SitesAreRight, Fresh
<1>7. RecordsHaveRoom
  <2>1. Recorded \in SUBSET Addrs /\ Pending \in SUBSET Threads
    BY DEF Recorded, Pending
  <2>2. Cardinality(Recorded) \in Nat /\ Cardinality(Pending) \in Nat
    BY <2>1, FS_Subset, FS_CardinalityType
  <2> QED
    BY <2>2 DEF RecordsHaveRoom
<1>8. NoFalseAlarm
  BY DEF NoFalseAlarm
<1>9. CountIsHeld
  BY DEF CountIsHeld
<1>10. RecordsAreReused
  <2>1. Cardinality(Threads) \in Nat \ {0} /\ Cardinality(Addrs) \in Nat
    BY FS_CardinalityType, FS_EmptySet
  <2> QED
    BY <2>1 DEF RecordsAreReused
<1> QED
  BY <1>1, <1>2, <1>4, <1>5, <1>6, <1>7, <1>8, <1>9, <1>10 DEF HeapInv

\* The next-state relation keeps the invariant.
LEMMA HeapStep ==
    ASSUME HeapInv, [Next]_vars
    PROVE  HeapInv'
<1> USE DEF HeapInv
<1>1. CASE Next
  BY <1>1, TypeIsKept, CallsStillMatch, HoldersStayApart, InitStaysGuarded, RecordsStayKept,
     RecordsStayOwned, RecordsStayFresh, RoomStays, AlarmsStayRight, CountStaysHeld, BatchStaysSmall
<1>2. CASE UNCHANGED vars
  <2> USE <1>2 DEF vars
  <2>1. TypeOK' /\ CallsMatch' /\ OneHolder' /\ InitIsGuarded'
    BY DEF TypeOK, CallsMatch, CallMatches, OneHolder, InHands, InitIsGuarded
  <2>2. RecordsAreKept' /\ RecordsHaveOwners'
    BY ZenonT(60) DEF RecordsAreKept, Linking, RecordsHaveOwners, Records, Owners, HoldsRecord
  <2>3. RecordsAreFresh'
    BY DEF HoldsRecord, RecordsAreFresh, FreshHaveNone, Fresh, SitesAreRight, SiteIsRight
  <2>4. RecordsHaveRoom'
    BY DEF RecordsHaveRoom, Recorded, Keeps, Pending
  <2>5. NoFalseAlarm' /\ CountIsHeld' /\ RecordsAreReused'
    BY DEF NoFalseAlarm, CountIsHeld, Linking, UserCounted, RecordsAreReused
  <2> QED
    BY <2>1, <2>2, <2>3, <2>4, <2>5
<1> QED
  BY <1>1, <1>2

\* HeapInv is an invariant.
THEOREM HeapInvariance == Spec => []HeapInv
<1>1. Init => HeapInv
  BY HeapInit
<1>2. HeapInv /\ [Next]_vars => HeapInv'
  BY HeapStep
<1> QED
  BY <1>1, <1>2, PTL DEF Spec

\* Until the program exits, the table has one record for each block the program
\* holds or is giving back, and the count is that of the list.
THEOREM TableIsExact == Spec => []TableMatchesHeap
<1>1. HeapInv => TableMatchesHeap
  BY DEF HeapInv, TableMatchesHeap, RecordsHaveOwners, RecordsAreKept
<1> QED
  BY <1>1, HeapInvariance, PTL

\* Whatever the threads do in whichever order, alloc_free finds the record of what
\* it is given unless a realloc has failed, and the static allocator is used again
\* only after two threads have found nothing initialised.
THEOREM AlarmsAreRight == Spec => []NoFalseAlarm
<1>1. HeapInv => NoFalseAlarm
  BY DEF HeapInv
<1> QED
  BY <1>1, HeapInvariance, PTL

\* The leaks reported at exit are the blocks the user's code holds.
THEOREM LeaksAreExact == Spec => []ReportIsExact
<1>1. HeapInv => ReportIsExact
  BY DEF HeapInv, CountIsHeld, ReportIsExact
<1> QED
  BY <1>1, HeapInvariance, PTL

\* The tracer cuts no more records than there can be blocks and threads that have
\* not removed one.
THEOREM BatchIsBounded == Spec => []RecordsAreReused
<1>1. HeapInv => RecordsAreReused
  BY DEF HeapInv
<1> QED
  BY <1>1, HeapInvariance, PTL
=============================================================================
