------------------------------ MODULE UserFSProofs ------------------------------
(***************************************************************************)
(* Proofs about the files and descriptors of module UserFS, for any number *)
(* of files, names and descriptors.  UserFSInv is the inductive invariant. *)
(***************************************************************************)
EXTENDS UserFSProperties, FiniteSetTheorems, TLAPS

\* S holds what a walk along prev comes to, when it starts at f.
WalkedFrom(f, S) ==
    /\ f # Null => f \in S
    /\ \A g \in S : file[g].prev # Null => file[g].prev \in S

\* No set that the walk from file_list stays in leaves a file out.
NoneIsMissed ==
    \A S \in SUBSET Allocated : WalkedFrom(file_list, S) => S = Allocated

\* What ufs_destroy has walked past and not freed is open.
UnopenedLieAhead ==
    life = "destroying" =>
        \A S \in SUBSET Allocated :
            WalkedFrom(cursor, S) => \A f \in Allocated \ S : file[f].refs > 0

\* The walk of ufs_destroy has not started.
UpAtStart == life = "up" => cursor = Null

UserFSInv ==
    /\ TypeOK /\ LinksMatch /\ NoneIsMissed
    /\ RefsDecideLife /\ UpAtStart /\ UnopenedLieAhead

\* S holds what the walk comes to before it goes on from f.
WalkedUntil(f, S) ==
    /\ file_list \in S
    /\ \A g \in S \ {f} : file[g].prev # Null => file[g].prev \in S

SameName(f, g) == file[f].name = file[g].name

\* A name has one file that is not deleted, and no deleted one lies before it.
LiveAreUnique ==
    \A f, g \in Allocated : SameName(f, g) /\ ~file[f].is_del /\ ~file[g].is_del => f = g
LiveAreFirst ==
    \A f, g \in Allocated :
        SameName(f, g) /\ ~file[f].is_del /\ file[g].is_del =>
            \E S \in SUBSET Allocated : WalkedUntil(f, S) /\ g \notin S

\* Inductive as long as the first file is not a deleted one.
NamesInv == LiveAreUnique /\ LiveAreFirst

USE DEF Allocated, listVars, fdVars, destroyVars, vars

-----------------------------------------------------------------------------
(* The list *)

\* The walk comes to every file.
LEMMA AllAreReached == NoneIsMissed => AllReached
  BY DEF NoneIsMissed, WalkedFrom, AllReached, Reached

\* None comes after itself.
LEMMA NotItsOwnPrev ==
    ASSUME TypeOK, LinksMatch, NoneIsMissed, NEW f \in Allocated
    PROVE  file[f].prev # f /\ file[f].next # f
<1> SUFFICES ASSUME file[f].prev = f \/ file[f].next = f PROVE FALSE
  OBVIOUS
<1> USE UserFSAssumption DEF UserFSAssumption, TypeOK
<1>1. file[f].prev = f /\ file[f].next = f
  BY DEF LinksMatch
<1>2. f # file_list /\ \A g \in Allocated \ {f} : file[g].prev # f
  BY <1>1 DEF LinksMatch
<1>3. WalkedFrom(file_list, Allocated \ {f})
  BY <1>2 DEF WalkedFrom, LinksMatch
<1> QED
  BY <1>3 DEF NoneIsMissed

SameLinks ==
    /\ DOMAIN file' = DOMAIN file /\ UNCHANGED file_list
    /\ \A f \in Allocated : file'[f].next = file[f].next /\ file'[f].prev = file[f].prev

\* A step that leaves the links alone leaves the list alone.
LEMMA SameLinksKeepList ==
    ASSUME LinksMatch, NoneIsMissed, SameLinks
    PROVE  LinksMatch' /\ NoneIsMissed'
<1>1. LinksMatch'
  BY DEF SameLinks, LinksMatch
<1>2. NoneIsMissed'
  BY DEF SameLinks, NoneIsMissed, WalkedFrom
<1> QED
  BY <1>1, <1>2

\* What file_create makes of the files, when the new one f has r descriptors.
CreatedAs(fs, f, n, r) ==
    /\ fs \in [Allocated \cup {f} -> FileRecords]
    /\ \A g \in Allocated :
         /\ fs[g].name = file[g].name
         /\ fs[g].refs = file[g].refs
         /\ fs[g].is_del = file[g].is_del
         /\ fs[g].prev = IF g = file_list THEN f ELSE file[g].prev
         /\ fs[g].next = IF file_list # Null /\ g = file[file_list].prev
                         THEN f ELSE file[g].next
    /\ fs[f].name = n /\ fs[f].refs = r /\ ~fs[f].is_del
    /\ fs[f].prev = IF file_list = Null THEN Null ELSE file[file_list].prev
    /\ fs[f].next = file_list

LEMMA CreatedFile ==
    ASSUME TypeOK, LinksMatch, NEW f \in Files, f \notin Allocated, NEW n \in Names, NEW r \in Nat
    PROVE  /\ CreatedAs(Created(f, n), f, n, 0)
           /\ CreatedAs([Created(f, n) EXCEPT ![f].refs = r], f, n, r)
<1> USE UserFSAssumption DEF UserFSAssumption, TypeOK, FileRecords
<1> DEFINE second == IF file_list = Null THEN Null ELSE file[file_list].prev
<1>1. second \in Allocated \cup {Null} /\ f # Null /\ (file_list = Null => Allocated = {})
  BY DEF LinksMatch
<1>2. \A g \in Allocated : g = second <=> file_list # Null /\ g = file[file_list].prev
  BY <1>1
<1>3. ASSUME NEW g \in Allocated
      PROVE  /\ Created(f, n)[g] \in FileRecords
             /\ Created(f, n)[g].name = file[g].name
             /\ Created(f, n)[g].refs = file[g].refs
             /\ Created(f, n)[g].is_del = file[g].is_del
             /\ Created(f, n)[g].prev = IF g = file_list THEN f ELSE file[g].prev
             /\ Created(f, n)[g].next = IF g = second THEN f ELSE file[g].next
  <2>1. Created(f, n)[g] = [file[g] EXCEPT !.prev = IF g = file_list THEN f ELSE @,
                                           !.next = IF g = second THEN f ELSE @]
    BY DEF Created
  <2>2. PICK x \in FileRecords : x = file[g]
    OBVIOUS
  <2> QED
    BY <2>1, <2>2, ZenonT(60)
<1>4. Created(f, n)[f] =
        [name |-> n, next |-> file_list, prev |-> second, refs |-> 0, is_del |-> FALSE]
  BY DEF Created
<1>5. Created(f, n)[f] \in FileRecords
  BY <1>1, <1>4
<1>6. Created(f, n) \in [Allocated \cup {f} -> FileRecords]
  BY <1>3, <1>5 DEF Created
<1>7. CreatedAs(Created(f, n), f, n, 0)
  BY <1>2, <1>3, <1>4, <1>6 DEF CreatedAs
<1> DEFINE fs == [Created(f, n) EXCEPT ![f] = [Created(f, n)[f] EXCEPT !.refs = r]]
<1>8. /\ [Created(f, n)[f] EXCEPT !.refs = r] \in FileRecords
      /\ [Created(f, n)[f] EXCEPT !.refs = r].refs = r
      /\ [Created(f, n)[f] EXCEPT !.refs = r].name = n
      /\ [Created(f, n)[f] EXCEPT !.refs = r].next = file_list
      /\ [Created(f, n)[f] EXCEPT !.refs = r].prev = second
      /\ ~[Created(f, n)[f] EXCEPT !.refs = r].is_del
  <2>1. PICK new \in FileRecords : new = Created(f, n)[f]
    BY <1>5
  <2>2. /\ [new EXCEPT !.refs = r] \in FileRecords /\ [new EXCEPT !.refs = r].refs = r
        /\ [new EXCEPT !.refs = r].name = new.name /\ [new EXCEPT !.refs = r].next = new.next
        /\ [new EXCEPT !.refs = r].prev = new.prev /\ [new EXCEPT !.refs = r].is_del = new.is_del
    OBVIOUS
  <2> QED
    BY <1>4, <2>1, <2>2
<1> HIDE DEF FileRecords
<1>9. /\ fs \in [Allocated \cup {f} -> FileRecords]
      /\ fs[f] = [Created(f, n)[f] EXCEPT !.refs = r]
      /\ \A g \in Allocated : fs[g] = Created(f, n)[g]
  BY <1>6, <1>8
<1>10. CreatedAs(fs, f, n, r)
  BY <1>7, <1>8, <1>9 DEF CreatedAs
<1> QED
  BY <1>7, <1>10

\* What file_delete makes of them.
UnlinkedAs(us, fs, f) ==
    /\ us \in [Allocated \ {f} -> [name : Names, refs : Nat, is_del : BOOLEAN,
          next : {fs[g].next : g \in Allocated}, prev : {fs[g].prev : g \in Allocated}]]
    /\ \A g \in Allocated \ {f} :
         /\ us[g].name = fs[g].name
         /\ us[g].refs = fs[g].refs
         /\ us[g].is_del = fs[g].is_del
         /\ us[g].prev = IF fs[f].next = g THEN fs[f].prev ELSE fs[g].prev
         /\ us[g].next = IF fs[f].prev = g THEN fs[f].next ELSE fs[g].next

LEMMA UnlinkedFile ==
    ASSUME NEW fs, fs \in [Allocated -> FileRecords], NEW f \in Allocated
    PROVE  UnlinkedAs(Unlinked(fs, f), fs, f)
<1> USE DEF FileRecords
<1>1. ASSUME NEW g \in Allocated \ {f}
      PROVE  /\ Unlinked(fs, f)[g] \in [name : Names, refs : Nat, is_del : BOOLEAN,
                  next : {fs[h].next : h \in Allocated}, prev : {fs[h].prev : h \in Allocated}]
             /\ Unlinked(fs, f)[g].name = fs[g].name
             /\ Unlinked(fs, f)[g].refs = fs[g].refs
             /\ Unlinked(fs, f)[g].is_del = fs[g].is_del
             /\ Unlinked(fs, f)[g].prev = IF fs[f].next = g THEN fs[f].prev ELSE fs[g].prev
             /\ Unlinked(fs, f)[g].next = IF fs[f].prev = g THEN fs[f].next ELSE fs[g].next
  <2>1. Unlinked(fs, f)[g] = [fs[g] EXCEPT !.prev = IF fs[f].next = g THEN fs[f].prev ELSE @,
                                           !.next = IF fs[f].prev = g THEN fs[f].next ELSE @]
    BY DEF Unlinked
  <2>2. PICK r \in FileRecords : r = fs[g]
    OBVIOUS
  <2> QED
    BY <2>1, <2>2, ZenonT(120)
<1>2. Unlinked(fs, f) = [g \in Allocated \ {f} |-> Unlinked(fs, f)[g]]
  BY DEF Unlinked
<1> HIDE DEF FileRecords
<1> QED
  BY <1>1, <1>2 DEF UnlinkedAs

\* file_create lays the new file behind the first one and keeps the links matching.
LEMMA CreateKeepsList ==
    ASSUME TypeOK, LinksMatch, NoneIsMissed,
           NEW f \in Files, f \notin Allocated,
           DOMAIN file' = Allocated \cup {f},
           file_list' = IF file_list = Null THEN f ELSE file_list,
           file'[f].next = file_list,
           file'[f].prev = IF file_list = Null THEN Null ELSE file[file_list].prev,
           \A g \in Allocated :
              /\ file'[g].prev = IF g = file_list THEN f ELSE file[g].prev
              /\ file'[g].next = IF file_list # Null /\ g = file[file_list].prev
                                 THEN f ELSE file[g].next
    PROVE  LinksMatch' /\ NoneIsMissed'
<1> USE UserFSAssumption DEF UserFSAssumption, TypeOK
<1>1. LinksMatch'
  <2>1. CASE file_list = Null
    BY <2>1 DEF LinksMatch
  <2>2. CASE file_list # Null
    <3>1. file_list \in Allocated /\ file[file_list].prev # file_list
      BY <2>2, NotItsOwnPrev
    <3> QED
      BY <2>2, <3>1 DEF LinksMatch
  <2> QED
    BY <2>1, <2>2
<1>2. ASSUME NEW S \in SUBSET Allocated', WalkedFrom(file_list, S)' PROVE S = Allocated'
  <2>1. WalkedFrom(file_list, S \ {f})
    BY <1>2 DEF WalkedFrom, LinksMatch
  <2>2. S \ {f} \in SUBSET Allocated
    BY <1>2
  <2>3. Allocated \subseteq S
    BY <2>1, <2>2 DEF NoneIsMissed
  <2>4. f \in S
    BY <1>2, <2>3 DEF WalkedFrom, LinksMatch
  <2> QED
    BY <2>3, <2>4
<1> QED
  BY <1>1, <1>2 DEF NoneIsMissed

UnlinkedLinks(f) ==
    /\ DOMAIN file' = Allocated \ {f}
    /\ file_list' = IF file[f].next = Null THEN file[f].prev ELSE file_list
    /\ \A g \in Allocated \ {f} :
         /\ file'[g].prev = IF file[f].next = g THEN file[f].prev ELSE file[g].prev
         /\ file'[g].next = IF file[f].prev = g THEN file[f].next ELSE file[g].next

\* file_delete keeps them matching, wherever the file lies.
LEMMA UnlinkKeepsList ==
    ASSUME TypeOK, LinksMatch, NoneIsMissed,
           NEW f \in Allocated, UnlinkedLinks(f)
    PROVE  LinksMatch' /\ NoneIsMissed'
<1> USE UserFSAssumption DEF UserFSAssumption, TypeOK, UnlinkedLinks
<1>1. file[f].prev # f /\ file[f].next # f
  BY NotItsOwnPrev
<1>2. LinksMatch'
  <2>1. ASSUME file_list' = Null PROVE Allocated' = {}
    <3>1. f = file_list /\ file[f].prev = Null
      BY <2>1 DEF LinksMatch
    <3>2. WalkedFrom(file_list, {f})
      BY <3>1 DEF WalkedFrom
    <3>3. Allocated = {f}
      BY <3>2 DEF NoneIsMissed
    <3> QED
      BY <3>3
  <2>2. ASSUME NEW g \in Allocated'
        PROVE  /\ file'[g].next = Null <=> g = file_list'
               /\ file'[g].next # Null =>
                    file'[g].next \in Allocated' /\ file'[file'[g].next].prev = g
    BY <1>1, <2>2 DEF LinksMatch
  <2>3. ASSUME NEW g \in Allocated', file'[g].prev # Null
        PROVE  file'[g].prev \in Allocated' /\ file'[file'[g].prev].next = g
    BY <1>1, <2>3, SMTT(60) DEF LinksMatch
  <2> QED
    BY <2>1, <2>2, <2>3 DEF LinksMatch
<1>3. ASSUME NEW S \in SUBSET Allocated', WalkedFrom(file_list, S)' PROVE S = Allocated'
  <2>1. CASE file[f].next = Null \/ file[f].next \in S
    <3>1. WalkedFrom(file_list, S \cup {f})
      BY <1>1, <1>3, <2>1, SMTT(60) DEF WalkedFrom, LinksMatch
    <3>2. S \cup {f} \in SUBSET Allocated
      BY <1>3
    <3> QED
      BY <3>1, <3>2 DEF NoneIsMissed
  <2>2. CASE file[f].next # Null /\ file[f].next \notin S
    <3>1. WalkedFrom(file_list, S)
      BY <1>1, <1>3, <2>2, ZenonT(60) DEF WalkedFrom, LinksMatch
    <3>2. S \in SUBSET Allocated
      BY <1>3
    <3> QED
      BY <3>1, <3>2 DEF NoneIsMissed
  <2> QED
    BY <2>1, <2>2
<1> QED
  BY <1>2, <1>3 DEF NoneIsMissed

-----------------------------------------------------------------------------
(* One file's count or mark *)

\* fs are the files, f with r descriptors and with its is_del set to d.
RecordSet(fs, f, r, d) ==
    /\ fs \in [Allocated -> FileRecords]
    /\ \A g \in Allocated :
         /\ fs[g].name = file[g].name /\ fs[g].next = file[g].next /\ fs[g].prev = file[g].prev
         /\ fs[g].refs = IF g = f THEN r ELSE file[g].refs
         /\ fs[g].is_del = IF g = f THEN d ELSE file[g].is_del

LEMMA RecordReplaced ==
    ASSUME TypeOK, NEW f \in Allocated, NEW rec \in FileRecords,
           rec.name = file[f].name, rec.next = file[f].next, rec.prev = file[f].prev
    PROVE  RecordSet([file EXCEPT ![f] = rec], f, rec.refs, rec.is_del)
  BY DEF TypeOK, RecordSet

\* Lines 169, 355 and 334: the count goes up or down, the file is marked.
LEMMA CountSet ==
    ASSUME TypeOK, NEW f \in Allocated
    PROVE  /\ RecordSet([file EXCEPT ![f].refs = @ + 1], f, file[f].refs + 1, file[f].is_del)
           /\ file[f].refs > 0 => RecordSet(Closed(f), f, file[f].refs - 1, file[f].is_del)
           /\ RecordSet([file EXCEPT ![f].is_del = TRUE], f, file[f].refs, TRUE)
<1>1. PICK r \in FileRecords : r = file[f]
  BY DEF TypeOK
<1>2. RecordSet([file EXCEPT ![f].refs = @ + 1], f, file[f].refs + 1, file[f].is_del)
  <2> DEFINE rec == [r EXCEPT !.refs = @ + 1]
  <2>1. /\ rec \in FileRecords /\ rec.refs = r.refs + 1 /\ rec.is_del = r.is_del
        /\ rec.name = r.name /\ rec.next = r.next /\ rec.prev = r.prev
    BY DEF FileRecords
  <2>2. [file EXCEPT ![f].refs = @ + 1] = [file EXCEPT ![f] = rec]
    BY <1>1
  <2> HIDE DEF rec
  <2> QED
    BY <1>1, <2>1, <2>2, RecordReplaced
<1>3. ASSUME file[f].refs > 0
      PROVE  RecordSet(Closed(f), f, file[f].refs - 1, file[f].is_del)
  <2> DEFINE rec == [r EXCEPT !.refs = @ - 1]
  <2>1. /\ rec \in FileRecords /\ rec.refs = r.refs - 1 /\ rec.is_del = r.is_del
        /\ rec.name = r.name /\ rec.next = r.next /\ rec.prev = r.prev
    BY <1>1, <1>3 DEF FileRecords
  <2>2. Closed(f) = [file EXCEPT ![f] = rec]
    BY <1>1 DEF Closed
  <2> HIDE DEF rec
  <2> QED
    BY <1>1, <2>1, <2>2, RecordReplaced
<1>4. RecordSet([file EXCEPT ![f].is_del = TRUE], f, file[f].refs, TRUE)
  <2> DEFINE rec == [r EXCEPT !.is_del = TRUE]
  <2>1. /\ rec \in FileRecords /\ rec.refs = r.refs /\ rec.is_del = TRUE
        /\ rec.name = r.name /\ rec.next = r.next /\ rec.prev = r.prev
    BY DEF FileRecords
  <2>2. [file EXCEPT ![f].is_del = TRUE] = [file EXCEPT ![f] = rec]
    BY <1>1
  <2> HIDE DEF rec
  <2> QED
    BY <1>1, <2>1, <2>2, RecordReplaced
<1> QED
  BY <1>2, <1>3, <1>4

\* What becomes of the files when f, with r descriptors, is taken away or stays.
Settled(fs, f, stays) ==
    /\ Allocated' = IF stays THEN Allocated ELSE Allocated \ {f}
    /\ file' \in [Allocated' -> FileRecords] /\ file_list' \in Allocated' \cup {Null}
    /\ \A g \in Allocated' : /\ file'[g].name = file[g].name
                             /\ file'[g].refs = fs[g].refs /\ file'[g].is_del = fs[g].is_del
    /\ IF stays THEN SameLinks ELSE UnlinkedLinks(f)
    /\ LinksMatch' /\ NoneIsMissed'

LEMMA FileStays ==
    ASSUME TypeOK, LinksMatch, NoneIsMissed, NEW f \in Allocated,
           NEW fs, NEW r, NEW d, RecordSet(fs, f, r, d), file' = fs, UNCHANGED file_list
    PROVE  Settled(fs, f, TRUE)
<1>1. SameLinks /\ Allocated' = Allocated
  BY DEF RecordSet, SameLinks
<1> QED
  BY <1>1, SameLinksKeepList DEF Settled, RecordSet, TypeOK

LEMMA FileGoesIfUnused ==
    ASSUME TypeOK, LinksMatch, NoneIsMissed, NEW f \in Allocated,
           NEW fs, NEW r \in Nat, NEW d, RecordSet(fs, f, r, d), FileDelete(fs, f)
    PROVE  Settled(fs, f, r > 0)
<1> USE UserFSAssumption DEF UserFSAssumption
<1>1. CASE r > 0
  <2>1. file' = fs /\ UNCHANGED file_list
    BY <1>1 DEF FileDelete, RecordSet
  <2>2. Settled(fs, f, TRUE)
    BY <2>1, FileStays
  <2> QED
    BY <1>1, <2>2 DEF Settled
<1>2. CASE ~(r > 0)
  <2>1. file' = Unlinked(fs, f) /\ file_list' = FirstAfter(fs, f)
    BY <1>2 DEF FileDelete, RecordSet
  <2>2. /\ file[f].prev # f
        /\ \A g \in Allocated : /\ fs[g].next = file[g].next /\ fs[g].prev = file[g].prev
                                /\ fs[g].name = file[g].name
                                /\ fs[g].next \in Files \cup {Null}
                                /\ fs[g].prev \in Files \cup {Null}
    BY NotItsOwnPrev DEF RecordSet, FileRecords
  <2>3. UnlinkedAs(file', fs, f)
    BY <2>1, UnlinkedFile DEF RecordSet
  <2>6. Allocated' = Allocated \ {f}
    BY <2>3 DEF UnlinkedAs
  <2>7. file' \in [Allocated' -> FileRecords]
    BY <2>2, <2>3, <2>6 DEF FileRecords, UnlinkedAs
  <2>4. UnlinkedLinks(f)
    BY <2>1, <2>2, <2>3, <2>6 DEF FirstAfter, UnlinkedLinks, UnlinkedAs
  <2>5. file_list' \in Allocated' \cup {Null}
    BY <2>2, <2>4, <2>6 DEF UnlinkedLinks, TypeOK, LinksMatch
  <2> QED
    BY <1>2, <2>2, <2>3, <2>4, <2>5, <2>6, <2>7, UnlinkKeepsList DEF Settled, UnlinkedAs
<1> QED
  BY <1>1, <1>2

-----------------------------------------------------------------------------
(* Names *)

\* file_find finds the file that is not deleted, if there is one.
LEMMA FindsLive ==
    ASSUME TypeOK, LinksMatch, NoneIsMissed, NamesInv, NEW f \in Allocated, ~file[f].is_del
    PROVE  file_find(file[f].name) = f
<1> USE UserFSAssumption DEF UserFSAssumption
<1> DEFINE N == Named(file[f].name)
           R == Reached(N)
           ClosedIn(S) == /\ file_list # Null => file_list \in S
                          /\ \A g \in S \ N : file[g].prev # Null => file[g].prev \in S
<1>1. /\ R \in SUBSET Allocated
      /\ \A g \in Allocated : g \in R <=> \A S \in SUBSET Allocated : ClosedIn(S) => g \in S
  BY DEF Reached
<1>2. ClosedIn(R)
  <2>1. file_list # Null => file_list \in R
    BY <1>1 DEF TypeOK
  <2>2. ASSUME NEW g \in R \ N, file[g].prev # Null PROVE file[g].prev \in R
    <3>1. file[g].prev \in Allocated
      BY <1>1, <2>2 DEF LinksMatch
    <3>2. \A S \in SUBSET Allocated : ClosedIn(S) => file[g].prev \in S
      BY <1>1, <2>2
    <3> QED
      BY <1>1, <3>1, <3>2
  <2> QED
    BY <2>1, <2>2
<1>3. f \in N /\ N \subseteq Allocated /\ \A g \in N : SameName(f, g)
  BY DEF Named, SameName
<1> HIDE DEF R, N
<1>4. R \cap N # {}
  <2> SUFFICES ASSUME R \cap N = {} PROVE FALSE
    OBVIOUS
  <2>1. WalkedFrom(file_list, R)
    BY <1>2 DEF WalkedFrom
  <2> QED
    BY <1>1, <1>3, <2>1 DEF NoneIsMissed
<1>5. ASSUME NEW g \in R \cap N PROVE g = f
  <2>1. ASSUME file[g].is_del PROVE FALSE
    <3>1. PICK S \in SUBSET Allocated : WalkedUntil(f, S) /\ g \notin S
      BY <1>3, <1>5, <2>1 DEF NamesInv, LiveAreFirst
    <3>2. ClosedIn(S)
      BY <1>3, <3>1 DEF WalkedUntil
    <3> QED
      BY <1>1, <3>1, <3>2
  <2> QED
    BY <1>3, <1>5, <2>1 DEF NamesInv, LiveAreUnique
<1>6. R \cap N = {f}
  BY <1>4, <1>5
<1> QED
  BY <1>6 DEF file_find, N, R

\* A file is created under a name that no other bears, and before the deleted ones.
LEMMA CreateKeepsNames ==
    ASSUME TypeOK, LinksMatch, NoneIsMissed, NamesInv, ~DeletedFirst,
           NEW n \in Names, NEW f \in Files, NewFile(f, n),
           NEW r, CreatedAs(file', f, n, r)
    PROVE  NamesInv'
<1> USE UserFSAssumption DEF UserFSAssumption, NewFile
<1>1. \A g \in Allocated : file[g].name = n => file[g].is_del
  BY FindsLive DEF OpenCreates, TypeOK
<1>2. /\ Allocated' = Allocated \cup {f} /\ file'[f].name = n /\ ~file'[f].is_del
      /\ \A g \in Allocated : file'[g].name = file[g].name /\ file'[g].is_del = file[g].is_del
  BY DEF CreatedAs
<1>3. LiveAreUnique'
  BY <1>1, <1>2 DEF NamesInv, LiveAreUnique, SameName
<1>4. ASSUME NEW g \in Allocated', NEW h \in Allocated',
             SameName(g, h)', ~file'[g].is_del, file'[h].is_del
      PROVE  \E S \in SUBSET Allocated' : WalkedUntil(g, S)' /\ h \notin S
  <2>1. h \in Allocated /\ h # f /\ file[h].is_del /\ h # file_list /\ file_list # Null
    BY <1>2, <1>4 DEF DeletedFirst, LinksMatch, TypeOK
  <2>2. file_list \in Allocated /\ file_list' = file_list /\ file'[file_list].prev = f
    BY <2>1 DEF TypeOK, CreatedAs
  <2>3. CASE g = f
    <3>1. WalkedUntil(g, {file_list, f})'
      BY <2>2, <2>3 DEF WalkedUntil
    <3> QED
      BY <1>2, <2>1, <2>2, <3>1
  <2>4. CASE g = file_list
    <3>1. WalkedUntil(g, {file_list})'
      BY <2>2, <2>4 DEF WalkedUntil
    <3> QED
      BY <1>2, <2>1, <2>2, <3>1
  <2>5. CASE g # f /\ g # file_list
    <3>1. g \in Allocated /\ SameName(g, h) /\ ~file[g].is_del
      BY <1>2, <1>4, <2>1, <2>5 DEF SameName
    <3>2. PICK S \in SUBSET Allocated : WalkedUntil(g, S) /\ h \notin S
      BY <2>1, <3>1 DEF NamesInv, LiveAreFirst
    <3>3. WalkedUntil(g, S \cup {f})'
      BY <2>1, <2>2, <2>5, <3>2 DEF WalkedUntil, CreatedAs
    <3> QED
      BY <1>2, <2>1, <3>2, <3>3
  <2> QED
    BY <2>3, <2>4, <2>5
<1> QED
  BY <1>3, <1>4 DEF NamesInv, LiveAreFirst

\* A file that goes, or is marked, brings no deleted one before another.
LEMMA SettledKeepsNames ==
    ASSUME TypeOK, LinksMatch, NoneIsMissed, NamesInv,
           NEW f \in Allocated, NEW fs, NEW r, NEW d, NEW stays \in BOOLEAN,
           RecordSet(fs, f, r, d), file[f].is_del => d, Settled(fs, f, stays)
    PROVE  NamesInv'
<1> USE UserFSAssumption DEF UserFSAssumption
<1>1. /\ Allocated' \subseteq Allocated /\ (~stays => Allocated' = Allocated \ {f})
      /\ \A g \in Allocated' :
           /\ file'[g].name = file[g].name
           /\ file[g].is_del => file'[g].is_del
           /\ g # f => (file'[g].is_del <=> file[g].is_del)
  BY DEF Settled, RecordSet
<1>2. LiveAreUnique'
  BY <1>1 DEF NamesInv, LiveAreUnique, SameName
<1>3. ASSUME NEW g \in Allocated', NEW h \in Allocated',
             SameName(g, h)', ~file'[g].is_del, file'[h].is_del
      PROVE  \E S \in SUBSET Allocated' : WalkedUntil(g, S)' /\ h \notin S
  <2>1. g \in Allocated /\ h \in Allocated /\ SameName(g, h) /\ ~file[g].is_del /\ file[h].is_del
    BY <1>1, <1>3 DEF SameName, NamesInv, LiveAreUnique
  <2>2. PICK S \in SUBSET Allocated : WalkedUntil(g, S) /\ h \notin S
    BY <2>1 DEF NamesInv, LiveAreFirst
  <2>3. CASE stays
    <3>1. WalkedUntil(g, S)' /\ S \in SUBSET Allocated'
      BY <2>2, <2>3 DEF WalkedUntil, Settled, SameLinks
    <3> QED
      BY <2>2, <3>1
  <2>4. CASE ~stays
    <3>1. UnlinkedLinks(f) /\ Allocated' = Allocated \ {f} /\ g # f /\ file[f].prev # f
      BY <1>1, <2>4, NotItsOwnPrev DEF Settled
    <3>2. file_list' \in S \ {f}
      BY <2>1, <2>2, <2>4, <3>1 DEF WalkedUntil, UnlinkedLinks, LinksMatch, Settled
    <3>3. ASSUME NEW e \in S \ {f, g}, file'[e].prev # Null
          PROVE  file'[e].prev \in S \ {f}
      BY <2>2, <3>1, <3>3 DEF WalkedUntil, UnlinkedLinks, LinksMatch
    <3>4. WalkedUntil(g, S \ {f})' /\ S \ {f} \in SUBSET Allocated'
      BY <3>1, <3>2, <3>3 DEF WalkedUntil
    <3> QED
      BY <2>2, <3>4
  <2> QED
    BY <2>3, <2>4
<1> QED
  BY <1>2, <1>3 DEF NamesInv, LiveAreFirst

-----------------------------------------------------------------------------
(* The array of descriptors *)

\* The descriptors can be counted, those of a file among all of them.
LEMMA DescriptorsFinite ==
    ASSUME TypeOK
    PROVE  /\ IsFiniteSet(Descriptors) /\ Cardinality(Descriptors) \in Nat
           /\ \A f \in Files : /\ IsFiniteSet(DescriptorsOf(f))
                               /\ Cardinality(DescriptorsOf(f)) \in Nat
                               /\ DescriptorsOf(f) \subseteq Descriptors
<1> DEFINE places == 0 .. file_descriptor_capacity - 1
<1>1. IsFiniteSet(places)
  <2>1. file_descriptor_capacity - 1 \in Int
    BY DEF TypeOK
  <2> QED
    BY <2>1, FS_Interval
<1>2. /\ Descriptors \in SUBSET places
      /\ \A f \in Files : DescriptorsOf(f) \in SUBSET places /\ DescriptorsOf(f) \subseteq Descriptors
  BY UserFSAssumption DEF UserFSAssumption, TypeOK, Descriptors, DescriptorsOf
<1> HIDE DEF places
<1> QED
  BY <1>1, <1>2, FS_Subset, FS_CardinalityType

\* get_free_fd_adress: the array keeps what it holds, and has a place to count.
LEMMA ArrayGrows ==
    ASSUME TypeOK, CountPlace
    PROVE  /\ file_descriptor_capacity' \in Nat
           /\ file_descriptor_capacity <= file_descriptor_capacity'
           /\ file_descriptor_count' = file_descriptor_count + 1
           /\ file_descriptor_count' \in 0 .. file_descriptor_capacity'
           /\ Grown \in [0 .. file_descriptor_capacity' - 1 -> Allocated \cup {Null}]
           /\ \A fd \in DOMAIN Grown :
                Grown[fd] = IF fd < file_descriptor_capacity THEN file_descriptors[fd] ELSE Null
           /\ life = "up"
  BY DEF TypeOK, CountPlace, GrownCapacity, Grown

\* What a step does to the array: the descriptors D are opened on f, or closed.
ArrayOpened(D, f) ==
    /\ Descriptors' = Descriptors \cup D
    /\ D \cap Descriptors = {}
    /\ \A fd \in D : file_descriptors'[fd] = f
    /\ \A fd \in Descriptors : file_descriptors'[fd] = file_descriptors[fd]
    /\ \A g \in Files : DescriptorsOf(g)' = DescriptorsOf(g) \cup (IF g = f THEN D ELSE {})

\* A failed open keeps the descriptors.
LEMMA PlaceLeftFree ==
    ASSUME TypeOK, CountPlace, file_descriptors' = Grown, NEW f
    PROVE  ArrayOpened({}, f)
<1> USE UserFSAssumption, ArrayGrows DEF UserFSAssumption, TypeOK
<1>1. \A fd \in Descriptors : file_descriptors'[fd] = file_descriptors[fd]
  BY SMTT(60) DEF Descriptors
<1>2. Descriptors' = Descriptors
  BY SMTT(60) DEF Descriptors
<1>3. \A g \in Files : DescriptorsOf(g)' = DescriptorsOf(g)
  BY SMTT(60) DEF DescriptorsOf
<1> QED
  BY <1>1, <1>2, <1>3 DEF ArrayOpened

\* An open that succeeds opens one more.
LEMMA PlaceTaken ==
    ASSUME TypeOK, CountPlace, NEW fd \in DOMAIN Grown, FirstFree(fd),
           NEW f \in Files, file_descriptors' = [Grown EXCEPT ![fd] = f]
    PROVE  ArrayOpened({fd}, f)
<1> USE UserFSAssumption, ArrayGrows DEF UserFSAssumption, TypeOK, FirstFree
<1>1. fd \notin Descriptors
  BY DEF Descriptors
<1>2. \A e \in Descriptors : file_descriptors'[e] = file_descriptors[e]
  BY <1>1, SMTT(60) DEF Descriptors
<1>3. Descriptors' = Descriptors \cup {fd}
  BY SMTT(60) DEF Descriptors
<1>4. \A g \in Files : DescriptorsOf(g)' = DescriptorsOf(g) \cup (IF g = f THEN {fd} ELSE {})
  BY SMTT(60) DEF DescriptorsOf
<1> QED
  BY <1>1, <1>2, <1>3, <1>4 DEF ArrayOpened

\* Closing takes one away.
LEMMA PlaceFreed ==
    ASSUME TypeOK, NEW fd \in Descriptors,
           file_descriptors' = [file_descriptors EXCEPT ![fd] = Null]
    PROVE  /\ Descriptors' = Descriptors \ {fd}
           /\ \A e \in Descriptors \ {fd} : file_descriptors'[e] = file_descriptors[e]
           /\ fd \in DescriptorsOf(file_descriptors[fd])
           /\ \A g \in Files : DescriptorsOf(g)' = DescriptorsOf(g) \ {fd}
           /\ \A g \in Files \ {file_descriptors[fd]} : DescriptorsOf(g)' = DescriptorsOf(g)
  BY UserFSAssumption DEF UserFSAssumption, TypeOK, Descriptors, DescriptorsOf

-----------------------------------------------------------------------------
(* The steps of the program *)

\* Every descriptor that is open stays on its file, or is closed.
FilesKept ==
    \A fd \in Descriptors :
        \/ fd \in DOMAIN file_descriptors' /\ file_descriptors'[fd] = Null
        \/ /\ file_descriptors'[fd] = file_descriptors[fd]
           /\ file'[file_descriptors[fd]].name = file[file_descriptors[fd]].name

\* Names that are unique stay so, unless a deleted file has come first.
NamesKept == NamesInv /\ ~DeletedFirst => NamesInv'

LEMMA SameFilesKeepNames == UNCHANGED listVars => NamesKept
  BY DEF NamesKept, NamesInv, LiveAreUnique, LiveAreFirst, WalkedUntil, SameName

\* What all the ways through ufs_open have in common: the descriptors D, one or
\* none, are opened on f, which counts them.
Opened(D, f) ==
    /\ CountPlace /\ ArrayOpened(D, f)
    /\ IsFiniteSet(D)
    /\ file_descriptors' \in [0 .. file_descriptor_capacity' - 1 -> Allocated \cup {f, Null}]
    /\ DOMAIN file' = Allocated \cup {f}
    /\ \A g \in Allocated : /\ file'[g].name = file[g].name
                            /\ file'[g].is_del = file[g].is_del
                            /\ file'[g].refs =
                                 file[g].refs + (IF g = f THEN Cardinality(D) ELSE 0)
    /\ f \notin Allocated => ~file'[f].is_del /\ file'[f].refs = Cardinality(D)
    /\ UNCHANGED destroyVars

LEMMA OpenedKeeps ==
    ASSUME UserFSInv, NEW f \in Files, NEW D, Opened(D, f), Cardinality(D) <= 1,
           file' \in [Allocated' -> FileRecords], file_list' \in Allocated' \cup {Null},
           LinksMatch' /\ NoneIsMissed'
    PROVE  UserFSInv' /\ FilesKept
<1> USE UserFSAssumption DEF UserFSAssumption, UserFSInv, Opened
<1> DEFINE opened == Cardinality(D)
<1>1. opened \in Nat /\ life = "up"
  BY FS_CardinalityType DEF CountPlace
<1>2. \A S : IsFiniteSet(S) /\ S \cap D = {} => Cardinality(S \cup D) = Cardinality(S) + opened
  <2> SUFFICES ASSUME NEW S, IsFiniteSet(S), S \cap D = {}
               PROVE  Cardinality(S \cup D) = Cardinality(S) + opened
    OBVIOUS
  <2>1. Cardinality(S) \in Nat /\ Cardinality(S \cap D) = 0
    BY FS_CardinalityType, FS_EmptySet
  <2>2. Cardinality(S \cup D) = Cardinality(S) + Cardinality(D) - Cardinality(S \cap D)
    BY FS_Union
  <2> QED
    BY <1>1, <2>1, <2>2
<1>3. Cardinality(Descriptors') = Cardinality(Descriptors) + opened
  BY <1>2, DescriptorsFinite DEF ArrayOpened
<1>4. \A g \in Files : Cardinality(DescriptorsOf(g)') =
        Cardinality(DescriptorsOf(g)) + (IF g = f THEN opened ELSE 0)
  <2>1. DescriptorsOf(f) \cap D = {}
    BY DescriptorsFinite DEF ArrayOpened
  <2>2. Cardinality(DescriptorsOf(f)') = Cardinality(DescriptorsOf(f)) + opened
    BY <1>2, <2>1, DescriptorsFinite DEF ArrayOpened
  <2>3. ASSUME NEW g \in Files, g # f PROVE DescriptorsOf(g)' = DescriptorsOf(g)
    <3>1. DescriptorsOf(g)' = DescriptorsOf(g) \cup (IF g = f THEN D ELSE {})
      BY DEF ArrayOpened
    <3> QED
      BY <2>3, <3>1
  <2> QED
    BY <1>1, <2>2, <2>3, DescriptorsFinite
<1>5. Allocated' = Allocated \cup {f} /\ Allocated \subseteq Files
  BY DEF TypeOK
<1>6. TypeOK'
  <2>1. /\ Allocated' \subseteq Files
        /\ cursor' \in Allocated' \cup {Null} /\ life' \in {"up", "destroying", "destroyed"}
    BY <1>5 DEF TypeOK
  <2>2. Cardinality(Descriptors') <= file_descriptor_count'
    BY <1>1, <1>3, ArrayGrows, DescriptorsFinite, SMTT(60) DEF TypeOK
  <2>3. file_descriptors' \in [0 .. file_descriptor_capacity' - 1 -> Allocated' \cup {Null}]
    BY <1>5
  <2> QED
    BY <2>1, <2>2, <2>3, ArrayGrows DEF TypeOK
<1>7. RefsExact'
  <2>1. ASSUME NEW g \in Allocated' PROVE file'[g].refs = Cardinality(DescriptorsOf(g)')
    <3>1. CASE g \in Allocated
      <4>1. file[g].refs = Cardinality(DescriptorsOf(g)) /\ g \in Files
        BY <1>1, <1>5, <3>1 DEF RefsExact, RefsDecideLife
      <4>2. file'[g].refs = file[g].refs + (IF g = f THEN opened ELSE 0)
        BY <3>1
      <4> QED
        BY <1>4, <4>1, <4>2
    <3>2. CASE g \notin Allocated
      <4>1. DescriptorsOf(f) = {} /\ g = f
        BY <1>5, <3>2 DEF TypeOK, DescriptorsOf
      <4>2. Cardinality(DescriptorsOf(f)) = 0
        BY <4>1, FS_EmptySet
      <4>3. Cardinality(DescriptorsOf(f)') = opened
        BY <1>1, <1>4, <4>2
      <4>4. file'[f].refs = opened
        BY <3>2, <4>1
      <4> QED
        BY <4>1, <4>3, <4>4
    <3> QED
      BY <3>1, <3>2
  <2>2. \A fd \in Descriptors' : file_descriptors'[fd] \in Allocated'
    BY <1>6 DEF TypeOK, Descriptors
  <2> QED
    BY <2>1, <2>2 DEF RefsExact
<1>8. GhostsAreOpen' /\ UpAtStart' /\ UnopenedLieAhead'
  <2>1. life' = "up"
    BY <1>1
  <2>2. ASSUME NEW g \in Allocated', file'[g].is_del PROVE file'[g].refs > 0
    <3>1. g \in Allocated /\ file[g].refs > 0 /\ file[g].refs \in Nat
      BY <1>5, <2>2 DEF RefsDecideLife, GhostsAreOpen, TypeOK, FileRecords
    <3> QED
      BY <1>1, <3>1
  <2> QED
    BY <1>1, <2>1, <2>2 DEF GhostsAreOpen, UpAtStart, UnopenedLieAhead
<1>9. FilesKept
  BY DEF FilesKept, TypeOK, ArrayOpened, Descriptors
<1> QED
  BY <1>6, <1>7, <1>8, <1>9 DEF RefsDecideLife

\* ufs_open without a file to open: only the count and the room grow.
LEMMA OpenFailsKeeps == ASSUME UserFSInv, OpenFails PROVE UserFSInv' /\ FilesKept /\ NamesKept
<1> USE UserFSAssumption DEF UserFSAssumption, UserFSInv, OpenFails
<1>1. /\ Descriptors' = Descriptors
      /\ \A fd \in Descriptors : file_descriptors'[fd] = file_descriptors[fd]
      /\ \A f \in Files : DescriptorsOf(f)' = DescriptorsOf(f)
  <2>1. /\ \A fd \in Descriptors : file_descriptors'[fd] = file_descriptors[fd]
        /\ \A f \in Files : DescriptorsOf(f)' = DescriptorsOf(f)
    BY PlaceLeftFree DEF ArrayOpened
  <2>2. Descriptors' = Descriptors
    BY ArrayGrows, SMTT(60) DEF TypeOK, Descriptors
  <2> QED
    BY <2>1, <2>2
<1>2. TypeOK'
  <2>1. Cardinality(Descriptors') <= file_descriptor_count'
    BY <1>1, ArrayGrows, DescriptorsFinite DEF TypeOK
  <2> QED
    BY <2>1, ArrayGrows DEF TypeOK
<1>3. LinksMatch' /\ NoneIsMissed'
  BY SameLinksKeepList DEF SameLinks
<1>4. RefsDecideLife' /\ UpAtStart' /\ UnopenedLieAhead'
  BY <1>1, ArrayGrows
  DEF RefsDecideLife, RefsExact, GhostsAreOpen, UpAtStart, UnopenedLieAhead, TypeOK
<1>5. FilesKept
  BY <1>1 DEF FilesKept, TypeOK, Descriptors
<1> QED
  BY <1>2, <1>3, <1>4, <1>5, SameFilesKeepNames

\* file_find returns a file of that name, or none.
LEMMA FileFound ==
    ASSUME NEW n, file_find(n) # Null
    PROVE  file_find(n) \in Allocated /\ file[file_find(n)].name = n
  BY DEF file_find, Named

LEMMA OpenFoundKeeps ==
    ASSUME UserFSInv, NEW n \in Names, OpenFound(n)
    PROVE  UserFSInv' /\ FilesKept /\ NamesKept
<1> USE UserFSAssumption DEF UserFSAssumption, UserFSInv
<1>1. PICK f \in Allocated : f = file_find(n)
  BY FileFound DEF OpenFound
<1>2. CountPlace /\ UNCHANGED <<file_list, destroyVars>>
  BY DEF OpenFound
<1>3. PICK fd \in DOMAIN Grown : FirstFree(fd) /\ file_descriptors' = [Grown EXCEPT ![fd] = f]
  BY <1>1 DEF OpenFound
<1>4. f \in Files /\ ArrayOpened({fd}, f)
  BY <1>1, <1>2, <1>3, PlaceTaken DEF TypeOK
<1>5. /\ file' \in [Allocated' -> FileRecords] /\ Allocated' = Allocated
      /\ \A g \in Allocated :
           /\ file'[g].name = file[g].name /\ file'[g].is_del = file[g].is_del
           /\ file'[g].next = file[g].next /\ file'[g].prev = file[g].prev
           /\ file'[g].refs = file[g].refs + (IF g = f THEN 1 ELSE 0)
  <2>1. RecordSet(file', f, file[f].refs + 1, file[f].is_del)
    BY <1>1, CountSet DEF OpenFound
  <2>2. \A g \in Allocated : file[g].refs \in Nat
    BY DEF TypeOK, FileRecords
  <2> QED
    BY <2>1, <2>2 DEF RecordSet
<1>6. LinksMatch' /\ NoneIsMissed'
  BY <1>2, <1>5, SameLinksKeepList DEF SameLinks
<1>7. IsFiniteSet({fd}) /\ Cardinality({fd}) = 1
  BY FS_Singleton
<1>8. Opened({fd}, f)
  <2>1. file_descriptors' \in [0 .. file_descriptor_capacity' - 1 -> Allocated \cup {f, Null}]
    BY <1>2, <1>3, ArrayGrows
  <2> QED
    BY <1>1, <1>2, <1>4, <1>5, <1>7, <2>1 DEF Opened
<1>9. NamesKept
  <2>1. RecordSet(file', f, file[f].refs + 1, file[f].is_del)
    BY <1>1, CountSet DEF OpenFound
  <2>2. Settled(file', f, TRUE)
    BY <1>2, <2>1, FileStays
  <2> QED
    BY <2>1, <2>2, SettledKeepsNames DEF NamesKept
<1> QED
  BY <1>2, <1>4, <1>5, <1>6, <1>7, <1>8, <1>9, OpenedKeeps, SMTT(60) DEF TypeOK

\* The file that is new, with the descriptor or without.
LEMMA CreatedOpened ==
    ASSUME UserFSInv, NEW n \in Names, NEW f \in Files, NewFile(f, n), CountPlace,
           NEW D, IsFiniteSet(D), Cardinality(D) \in 0 .. 1, ArrayOpened(D, f),
           file_descriptors' \in [0 .. file_descriptor_capacity' - 1 -> Allocated \cup {f, Null}],
           CreatedAs(file', f, n, Cardinality(D)),
           UNCHANGED destroyVars
    PROVE  UserFSInv' /\ FilesKept /\ NamesKept
<1> USE UserFSAssumption DEF UserFSAssumption, UserFSInv, NewFile
<1>1. file' \in [Allocated' -> FileRecords] /\ Allocated' = Allocated \cup {f}
  BY DEF CreatedAs
<1>2. /\ file'[f].next = file_list /\ ~file'[f].is_del /\ file'[f].refs = Cardinality(D)
      /\ file'[f].prev = IF file_list = Null THEN Null ELSE file[file_list].prev
  BY DEF CreatedAs
<1>3. LinksMatch' /\ NoneIsMissed'
  BY <1>1, <1>2, CreateKeepsList DEF CreatedAs
<1>4. Opened(D, f)
  <2>1. \A g \in Allocated : g # f /\ file[g].refs \in Nat
    BY DEF TypeOK, FileRecords
  <2> QED
    BY <1>1, <1>2, <2>1 DEF Opened, CreatedAs
<1>5. NamesKept
  BY CreateKeepsNames DEF NamesKept
<1> QED
  BY <1>1, <1>3, <1>4, <1>5, OpenedKeeps DEF TypeOK

LEMMA OpenNewKeeps ==
    ASSUME UserFSInv, NEW n \in Names, NEW f \in Files, OpenNew(n, f) \/ OpenNewFails(n, f)
    PROVE  UserFSInv' /\ FilesKept /\ NamesKept
<1> USE UserFSAssumption DEF UserFSAssumption, UserFSInv
<1>1. CASE OpenNew(n, f)
  <2>1. PICK fd \in DOMAIN Grown :
          FirstFree(fd) /\ file_descriptors' = [Grown EXCEPT ![fd] = f]
    BY <1>1 DEF OpenNew
  <2>2. /\ NewFile(f, n) /\ CountPlace /\ UNCHANGED destroyVars
        /\ CreatedAs(file', f, n, 1)
    BY <1>1, CreatedFile DEF OpenNew, NewFile
  <2>3. ArrayOpened({fd}, f)
    BY <2>1, <2>2, PlaceTaken
  <2>4. file_descriptors' \in [0 .. file_descriptor_capacity' - 1 -> Allocated \cup {f, Null}]
    BY <2>1, <2>2, ArrayGrows
  <2>5. IsFiniteSet({fd}) /\ Cardinality({fd}) = 1
    BY FS_Singleton
  <2> QED
    BY <2>2, <2>3, <2>4, <2>5, CreatedOpened
<1>2. CASE OpenNewFails(n, f)
  <2>1. /\ NewFile(f, n) /\ CountPlace /\ UNCHANGED destroyVars
        /\ CreatedAs(file', f, n, 0) /\ file_descriptors' = Grown
    BY <1>2, CreatedFile DEF OpenNewFails, NewFile
  <2>2. IsFiniteSet({}) /\ Cardinality({}) = 0
    BY FS_EmptySet
  <2>3. file_descriptors' \in [0 .. file_descriptor_capacity' - 1 -> Allocated \cup {f, Null}]
    BY <2>1, ArrayGrows
  <2> QED
    BY <2>1, <2>2, <2>3, PlaceLeftFree, CreatedOpened
<1> QED
  BY <1>1, <1>2

\* What closing and deleting have in common: the files that go have no descriptor
\* any more, and those that were deleted and stay have one.
LEMMA SettledKeeps ==
    ASSUME UserFSInv, life # "destroyed", life' # "destroyed",
           NEW f \in Allocated, NEW fs, NEW r \in Nat, NEW d, NEW stays \in BOOLEAN,
           RecordSet(fs, f, r, d), Settled(fs, f, stays),
           ~stays => r = 0, d /\ stays => r > 0,
           file_descriptors' \in [0 .. file_descriptor_capacity - 1 -> Allocated \cup {Null}],
           \A e \in Descriptors : file_descriptors'[e] \in {Null, file_descriptors[e]},
           IsFiniteSet(DescriptorsOf(f)'), Cardinality(DescriptorsOf(f)') = r,
           \A g \in Files \ {f} : DescriptorsOf(g)' = DescriptorsOf(g)
    PROVE  /\ RefsDecideLife' /\ FilesKept
           /\ file_descriptors' \in [0 .. file_descriptor_capacity - 1 -> Allocated' \cup {Null}]
<1> USE UserFSAssumption DEF UserFSAssumption, UserFSInv, Settled
<1>1. f \in Files /\ Allocated' \subseteq Allocated /\ Allocated \subseteq Files
  BY DEF TypeOK
<1>2. ASSUME ~stays, NEW e \in DOMAIN file_descriptors' PROVE file_descriptors'[e] # f
  <2>1. DescriptorsOf(f)' = {}
    BY <1>2, FS_EmptySet
  <2> QED
    BY <2>1 DEF DescriptorsOf
<1>3. file_descriptors' \in [0 .. file_descriptor_capacity - 1 -> Allocated' \cup {Null}]
  BY <1>2
<1>4. RefsExact'
  <2>1. \A fd \in Descriptors' : file_descriptors'[fd] \in Allocated'
    BY <1>3 DEF Descriptors
  <2>2. ASSUME NEW g \in Allocated' PROVE file'[g].refs = Cardinality(DescriptorsOf(g)')
    <3>1. CASE g = f
      BY <3>1 DEF RecordSet
    <3>2. CASE g # f
      BY <1>1, <3>2 DEF RecordSet, RefsDecideLife, RefsExact
    <3> QED
      BY <3>1, <3>2
  <2> QED
    BY <2>1, <2>2 DEF RefsExact
<1>5. GhostsAreOpen'
  <2>1. ASSUME NEW g \in Allocated', file'[g].is_del PROVE file'[g].refs > 0
    <3>1. CASE g = f
      BY <2>1, <3>1 DEF RecordSet
    <3>2. CASE g # f
      BY <1>1, <2>1, <3>2 DEF RecordSet, RefsDecideLife, GhostsAreOpen
    <3> QED
      BY <3>1, <3>2
  <2> QED
    BY <2>1 DEF GhostsAreOpen
<1>6. FilesKept
  BY <1>2, <1>3 DEF FilesKept, TypeOK, Descriptors
<1> QED
  BY <1>3, <1>4, <1>5, <1>6 DEF RefsDecideLife

LEMMA CloseKeeps ==
    ASSUME UserFSInv, NEW fd \in 0 .. file_descriptor_capacity - 1, Close(fd)
    PROVE  UserFSInv' /\ FilesKept /\ NamesKept
<1> USE UserFSAssumption DEF UserFSAssumption, UserFSInv
<1>1. PICK f \in Allocated : f = file_descriptors[fd]
  BY DEF Close, TypeOK
<1>2. /\ life = "up" /\ life' = "up" /\ UNCHANGED <<file_descriptor_capacity, cursor>>
      /\ file_descriptors' = [file_descriptors EXCEPT ![fd] = Null]
      /\ file_descriptor_count' = file_descriptor_count - 1
      /\ fd \in Descriptors /\ f \in Files
  BY <1>1 DEF Close, TypeOK, Descriptors
<1>3. /\ Descriptors' = Descriptors \ {fd}
      /\ \A e \in Descriptors : file_descriptors'[e] \in {Null, file_descriptors[e]}
      /\ fd \in DescriptorsOf(f) /\ DescriptorsOf(f)' = DescriptorsOf(f) \ {fd}
      /\ \A g \in Files \ {f} : DescriptorsOf(g)' = DescriptorsOf(g)
  BY <1>1, <1>2, PlaceFreed DEF TypeOK
<1>4. /\ IsFiniteSet(DescriptorsOf(f)') /\ Cardinality(DescriptorsOf(f)') = file[f].refs - 1
      /\ file[f].refs - 1 \in Nat
  <2>1. file[f].refs = Cardinality(DescriptorsOf(f))
    BY <1>2 DEF RefsDecideLife, RefsExact
  <2>2. IsFiniteSet(DescriptorsOf(f)') /\ Cardinality(DescriptorsOf(f)') = file[f].refs - 1
    <3>1. PICK S : S = DescriptorsOf(f)
      OBVIOUS
    <3>2. IsFiniteSet(S) /\ fd \in S
      BY <1>2, <1>3, <3>1, DescriptorsFinite
    <3>3. IsFiniteSet(S \ {fd}) /\ Cardinality(S \ {fd}) = Cardinality(S) - 1
      BY ONLY <3>2, FS_RemoveElement
    <3> QED
      BY ONLY <1>3, <2>1, <3>1, <3>3, Zenon
  <2> QED
    BY <1>2, <2>1, <2>2, DescriptorsFinite, FS_CardinalityType
<1>5. RecordSet(Closed(f), f, file[f].refs - 1, file[f].is_del)
  <2>1. file[f].refs \in Nat
    BY DEF TypeOK, FileRecords
  <2>2. file[f].refs > 0
    BY <1>4, <2>1
  <2> QED
    BY <2>2, CountSet
<1> DEFINE r == file[f].refs - 1
           goes == r = 0 /\ file[f].is_del
<1>6. Settled(Closed(f), f, ~goes)
  <2>1. CASE goes
    <3>1. FileDelete(Closed(f), f)
      BY <1>1, <1>5, <2>1 DEF Close, LastClosed, RecordSet
    <3>2. Settled(Closed(f), f, r > 0)
      BY <1>4, <1>5, <3>1, FileGoesIfUnused
    <3> QED
      BY <2>1, <3>2 DEF Settled
  <2>2. CASE ~goes
    <3>1. file' = Closed(f) /\ UNCHANGED file_list
      BY <1>1, <1>5, <2>2 DEF Close, LastClosed, RecordSet
    <3>2. Settled(Closed(f), f, TRUE)
      BY <1>5, <3>1, FileStays
    <3> QED
      BY <2>2, <3>2 DEF Settled
  <2> QED
    BY <2>1, <2>2
<1>7. (~goes) \in BOOLEAN /\ (~~goes => r = 0) /\ (file[f].is_del /\ ~goes => r > 0)
  <2>1. r \in Nat
    BY <1>4
  <2> HIDE DEF r
  <2>2. r = 0 \/ r > 0
    BY <2>1
  <2>3. (~goes) \in BOOLEAN
    BY Zenon
  <2>4. (~~goes => r = 0) /\ (file[f].is_del /\ ~goes => r > 0)
    BY <2>2, Zenon
  <2> QED
    BY <2>3, <2>4
<1>8. file_descriptors' \in [0 .. file_descriptor_capacity - 1 -> Allocated \cup {Null}]
  BY <1>2 DEF TypeOK
<1> HIDE DEF goes, r
<1>9. /\ RefsDecideLife' /\ FilesKept
      /\ file_descriptors' \in [0 .. file_descriptor_capacity - 1 -> Allocated' \cup {Null}]
  <2>1. r \in Nat /\ Cardinality(DescriptorsOf(f)') = r /\ RecordSet(Closed(f), f, r, file[f].is_del)
    BY <1>4, <1>5 DEF r
  <2> QED
    BY <1>2, <1>3, <1>4, <1>6, <1>7, <1>8, <2>1, SettledKeeps
<1>10. TypeOK'
  <2>1. cursor = Null
    BY <1>2 DEF UpAtStart
  <2>2. Cardinality(Descriptors') = Cardinality(Descriptors) - 1
    BY <1>2, <1>3, DescriptorsFinite, FS_RemoveElement
  <2>3. Cardinality(Descriptors') \in Nat /\ Cardinality(Descriptors) \in Nat
    BY <1>3, DescriptorsFinite, FS_RemoveElement, FS_CardinalityType
  <2> QED
    BY <1>2, <1>6, <1>9, <2>1, <2>2, <2>3 DEF TypeOK, Settled
<1>11. NamesKept
  BY <1>5, <1>6, <1>7, SettledKeepsNames DEF NamesKept
<1> QED
  BY <1>2, <1>6, <1>9, <1>10, <1>11 DEF Settled, UpAtStart, UnopenedLieAhead

LEMMA DeleteKeeps ==
    ASSUME UserFSInv, NEW n \in Names, Delete(n)
    PROVE  UserFSInv' /\ FilesKept /\ NamesKept
<1> USE UserFSAssumption DEF UserFSAssumption, UserFSInv
<1>1. PICK f \in Allocated : f = file_find(n)
  BY FileFound DEF Delete
<1>2. life = "up" /\ UNCHANGED <<fdVars, destroyVars>> /\ f \in Files
  BY DEF Delete, TypeOK
<1> DEFINE fs == [file EXCEPT ![f].is_del = TRUE]
<1>3. FileDelete(fs, f)
  BY <1>1 DEF Delete
<1>4. RecordSet(fs, f, file[f].refs, TRUE) /\ file[f].refs \in Nat
  BY CountSet DEF TypeOK, FileRecords
<1> HIDE DEF fs
<1>5. Settled(fs, f, file[f].refs > 0)
  BY <1>3, <1>4, FileGoesIfUnused
<1>6. /\ RefsDecideLife' /\ FilesKept
      /\ file_descriptors' \in [0 .. file_descriptor_capacity - 1 -> Allocated' \cup {Null}]
  <2>1. /\ \A g \in Files : DescriptorsOf(g)' = DescriptorsOf(g)
        /\ file_descriptors \in [0 .. file_descriptor_capacity - 1 -> Allocated \cup {Null}]
    BY <1>2 DEF DescriptorsOf, TypeOK
  <2>2. IsFiniteSet(DescriptorsOf(f)') /\ Cardinality(DescriptorsOf(f)') = file[f].refs
    BY <1>2, <2>1, DescriptorsFinite DEF RefsDecideLife, RefsExact
  <2>3. (file[f].refs > 0) \in BOOLEAN /\ (~(file[f].refs > 0) => file[f].refs = 0)
    BY <1>4
  <2> QED
    BY <1>2, <1>4, <1>5, <2>1, <2>2, <2>3, SettledKeeps
<1>7. TypeOK'
  <2>1. cursor = Null /\ Descriptors' = Descriptors
    BY <1>2 DEF UpAtStart, Descriptors
  <2> QED
    BY <1>2, <1>5, <1>6, <2>1 DEF TypeOK, Settled
<1>8. NamesKept
  <2>1. (file[f].refs > 0) \in BOOLEAN
    BY <1>4
  <2> QED
    BY <1>4, <1>5, <2>1, SettledKeepsNames DEF NamesKept
<1> QED
  BY <1>2, <1>5, <1>6, <1>7, <1>8 DEF Settled, UpAtStart, UnopenedLieAhead

LEMMA DestroyFileKeeps ==
    ASSUME UserFSInv, DestroyFile
    PROVE  UserFSInv' /\ FilesKept /\ NamesKept
<1> USE UserFSAssumption DEF UserFSAssumption, UserFSInv
<1>1. PICK f \in Allocated : f = cursor
  BY DEF DestroyFile, TypeOK
<1>2. /\ life = "destroying" /\ UNCHANGED <<fdVars, life>> /\ f \in Files
      /\ FileDelete(file, f) /\ cursor' = file[f].prev
  BY <1>1 DEF DestroyFile, CursorAfter, TypeOK
<1>3. RecordSet(file, f, file[f].refs, file[f].is_del) /\ file[f].refs \in Nat
  BY DEF TypeOK, FileRecords, RecordSet
<1>4. Settled(file, f, file[f].refs > 0)
  BY <1>2, <1>3, FileGoesIfUnused
<1>5. /\ RefsDecideLife' /\ FilesKept
      /\ file_descriptors' \in [0 .. file_descriptor_capacity - 1 -> Allocated' \cup {Null}]
  <2>1. /\ \A g \in Files : DescriptorsOf(g)' = DescriptorsOf(g)
        /\ file_descriptors \in [0 .. file_descriptor_capacity - 1 -> Allocated \cup {Null}]
    BY <1>2 DEF DescriptorsOf, TypeOK
  <2>2. IsFiniteSet(DescriptorsOf(f)') /\ Cardinality(DescriptorsOf(f)') = file[f].refs
    BY <1>2, <2>1, DescriptorsFinite DEF RefsDecideLife, RefsExact
  <2>3. (file[f].refs > 0) \in BOOLEAN /\ (~(file[f].refs > 0) => file[f].refs = 0)
    BY <1>3
  <2> QED
    BY <1>2, <1>3, <1>4, <2>1, <2>2, <2>3, SettledKeeps
<1>6. TypeOK'
  <2>1. cursor' \in Allocated' \cup {Null} /\ Descriptors' = Descriptors
    BY <1>2, <1>4, NotItsOwnPrev DEF LinksMatch, Settled, Descriptors
  <2> QED
    BY <1>2, <1>4, <1>5, <2>1 DEF TypeOK, Settled
<1>7. UnopenedLieAhead'
  <2>1. ASSUME NEW S \in SUBSET Allocated', WalkedFrom(cursor, S)', NEW g \in Allocated' \ S
        PROVE  file'[g].refs > 0
    <3>1. CASE file[f].refs > 0
      <4>1. WalkedFrom(cursor, S \cup {f}) /\ S \cup {f} \in SUBSET Allocated
        BY <1>1, <1>2, <1>4, <2>1, <3>1 DEF WalkedFrom, Settled, SameLinks
      <4> QED
        BY <1>2, <1>4, <2>1, <3>1, <4>1 DEF UnopenedLieAhead, Settled
    <3>2. CASE ~(file[f].refs > 0)
      <4>1. WalkedFrom(cursor, S \cup {f}) /\ S \cup {f} \in SUBSET Allocated
        BY <1>1, <1>2, <1>4, <2>1, <3>2
        DEF WalkedFrom, Settled, UnlinkedLinks, LinksMatch, TypeOK
      <4> QED
        BY <1>2, <1>4, <2>1, <3>2, <4>1 DEF UnopenedLieAhead, Settled
    <3> QED
      BY <3>1, <3>2
  <2> QED
    BY <2>1 DEF UnopenedLieAhead
<1>8. NamesKept
  <2>1. (file[f].refs > 0) \in BOOLEAN
    BY <1>3
  <2> QED
    BY <1>3, <1>4, <2>1, SettledKeepsNames DEF NamesKept
<1> QED
  BY <1>2, <1>4, <1>5, <1>6, <1>7, <1>8 DEF Settled, UpAtStart

LEMMA DestroyCallKeeps == ASSUME UserFSInv, DestroyCall PROVE UserFSInv' /\ FilesKept /\ NamesKept
<1> USE UserFSAssumption DEF UserFSAssumption, UserFSInv, DestroyCall
<1>1. LinksMatch' /\ NoneIsMissed' /\ Descriptors' = Descriptors
  BY SameLinksKeepList DEF SameLinks, Descriptors
<1>2. TypeOK'
  BY <1>1 DEF TypeOK
<1>3. RefsDecideLife'
  BY DEF RefsDecideLife, RefsExact, GhostsAreOpen, Descriptors, DescriptorsOf
<1>4. UpAtStart' /\ UnopenedLieAhead'
  BY DEF UpAtStart, UnopenedLieAhead, NoneIsMissed, WalkedFrom
<1>5. FilesKept
  BY DEF FilesKept
<1> QED
  BY <1>1, <1>2, <1>3, <1>4, <1>5, SameFilesKeepNames

\* The walk is over: only files that had a descriptor are left.
LEMMA DestroyDescriptorsKeeps ==
    ASSUME UserFSInv, DestroyDescriptors
    PROVE  UserFSInv' /\ FilesKept /\ NamesKept
<1> USE UserFSAssumption DEF UserFSAssumption, UserFSInv, DestroyDescriptors
<1>1. LinksMatch' /\ NoneIsMissed'
  BY SameLinksKeepList DEF SameLinks
<1>2. TypeOK'
  BY DEF TypeOK
<1>3. WalkedFrom(cursor, {}) /\ {} \in SUBSET Allocated
  BY DEF WalkedFrom
<1>4. \A f \in Allocated \ {} : file[f].refs > 0
  BY <1>3 DEF UnopenedLieAhead
<1>5. RefsDecideLife' /\ UpAtStart' /\ UnopenedLieAhead'
  BY <1>4 DEF RefsDecideLife, RefsExact, GhostsAreOpen, UpAtStart, UnopenedLieAhead
<1>6. FilesKept
  BY DEF FilesKept, TypeOK, Descriptors
<1> QED
  BY <1>1, <1>2, <1>5, <1>6, SameFilesKeepNames

LEMMA NothingKeeps == ASSUME UserFSInv, UNCHANGED vars PROVE UserFSInv' /\ FilesKept /\ NamesKept
<1> USE DEF UserFSInv
<1>1. UserFSInv'
  <2>1. TypeOK'
    BY DEF TypeOK, Descriptors
  <2>2. LinksMatch'
    BY DEF LinksMatch
  <2>3. NoneIsMissed'
    BY DEF NoneIsMissed, WalkedFrom
  <2>4. RefsExact'
    BY DEF RefsDecideLife, RefsExact, Descriptors, DescriptorsOf
  <2>5. GhostsAreOpen'
    BY DEF RefsDecideLife, GhostsAreOpen
  <2>6. UpAtStart' /\ UnopenedLieAhead'
    BY DEF UpAtStart, UnopenedLieAhead, WalkedFrom
  <2> QED
    BY <2>1, <2>2, <2>3, <2>4, <2>5, <2>6 DEF RefsDecideLife
<1> QED
  BY <1>1, SameFilesKeepNames DEF FilesKept

-----------------------------------------------------------------------------
(* The theorems *)

LEMMA UserFSInit == Init => UserFSInv
<1> SUFFICES ASSUME Init PROVE UserFSInv
  OBVIOUS
<1> USE UserFSAssumption DEF UserFSAssumption, Init
<1>1. Descriptors = {} /\ Allocated = {}
  BY DEF Descriptors
<1>2. TypeOK
  BY <1>1, FS_EmptySet DEF TypeOK
<1> QED
  BY <1>1, <1>2 DEF UserFSInv, LinksMatch, NoneIsMissed, RefsDecideLife, RefsExact, GhostsAreOpen,
     UpAtStart, UnopenedLieAhead

LEMMA UserFSNext == UserFSInv /\ [Next]_vars => UserFSInv' /\ FilesKept /\ NamesKept
<1> SUFFICES ASSUME UserFSInv, [Next]_vars PROVE UserFSInv' /\ FilesKept /\ NamesKept
  OBVIOUS
<1>1. CASE Open
  BY <1>1, OpenFailsKeeps, OpenFoundKeeps, OpenNewKeeps DEF Open
<1>2. CASE UNCHANGED vars
  BY <1>2, NothingKeeps
<1> QED
  BY <1>1, <1>2, CloseKeeps, DeleteKeeps, DestroyCallKeeps, DestroyFileKeeps,
     DestroyDescriptorsKeeps DEF Next

\* The inductive invariant, for any number of files, names and descriptors.
THEOREM UserFSInvariance == Spec => []UserFSInv
  BY UserFSInit, UserFSNext, PTL DEF Spec

\* Wherever files are created, and whichever are deleted, the list holds every
\* file once and the walk of file_find comes to it.
THEOREM ListIsWhole == Spec => []ListHoldsFiles
<1>1. UserFSInv => ListHoldsFiles
  BY AllAreReached DEF UserFSInv, ListHoldsFiles
<1> QED
  BY <1>1, UserFSInvariance, PTL

\* A reference count is the number of descriptors, and decides when a file goes.
THEOREM CountsDecide == Spec => []RefsDecideLife
<1>1. UserFSInv => RefsDecideLife
  BY DEF UserFSInv
<1> QED
  BY <1>1, UserFSInvariance, PTL

\* An open descriptor keeps its file, and the file its name.
THEOREM OpenFilesStay == Spec => DescriptorsKeepFiles
<1>1. UserFSInv /\ [Next]_vars =>
        [\A fd \in Descriptors :
           \/ fd \in DOMAIN file_descriptors' /\ file_descriptors'[fd] = Null
           \/ /\ file_descriptors'[fd] = file_descriptors[fd]
              /\ file'[file_descriptors[fd]].name = file[file_descriptors[fd]].name]_vars
  BY UserFSNext DEF FilesKept
<1> QED
  BY <1>1, UserFSInvariance, PTL DEF Spec, DescriptorsKeepFiles

\* A name belongs to one file that is not deleted, as long as the first file of the
\* list is never a deleted one: file_find never sees a deleted file before it.
THEOREM NamesStayUnique == Spec => UniqueUnlessDeletedFirst
<1>1. Init => NamesInv
  BY DEF Init, NamesInv, LiveAreUnique, LiveAreFirst
<1>2. UserFSInv /\ [Next]_vars /\ ~DeletedFirst /\ NamesInv => NamesInv'
  BY UserFSNext DEF NamesKept
<1>3. NamesInv => OneFilePerName
  <2> SUFFICES ASSUME NamesInv, NEW n \in Names PROVE Cardinality(Live(n)) <= 1
    BY DEF OneFilePerName
  <2>1. \A f, g \in Live(n) : f = g
    BY DEF NamesInv, LiveAreUnique, SameName, Live, Named
  <2>2. Live(n) = {} \/ \E f : Live(n) = {f}
    BY <2>1
  <2>3. Cardinality(Live(n)) = 0 \/ Cardinality(Live(n)) = 1
    BY <2>2, FS_EmptySet, FS_Singleton
  <2> QED
    BY <2>3
<1> QED
  BY <1>1, <1>2, <1>3, UserFSInvariance, PTL DEF Spec, UniqueUnlessDeletedFirst
=============================================================================
