------------------------------- MODULE CoroProofs -------------------------------
(***************************************************************************)
(* Proofs about the coroutines of module Coro, for any number of them and  *)
(* for every program that keeps to its calls.  CoroNext is the step of     *)
(* such a program as the library sees it; the theorems about CoroProgram   *)
(* follow because each of its steps is one of those or leaves the library  *)
(* alone.                                                                  *)
(*                                                                         *)
(* CoroInv is the inductive invariant.                                     *)
(***************************************************************************)
EXTENDS CoroProgram, CoroProperties, TLAPS

CoroNext ==
    \/ SchedWaits
    \/ \E c \in Coros : \/ New(c) \/ SchedReturns(c)
                        \/ Tick(c) \/ PeriodEnd(c) \/ Yield(c) \/ Return(c)

CoroSpec == CoroInit /\ [][CoroNext]_coroVars

\* S holds what a walk along the list comes to.
Walked(S) ==
    /\ coro_list # Null => coro_list \in S
    /\ \A c \in S : next[c] # Null => next[c] \in S

\* The walk comes to everything listed: no set that it stays in leaves one out.
NoneIsMissed == \A S \in SUBSET Coros : Walked(S) => Listed \subseteq S

\* The scheduler has collected every coroutine that finished before it gives
\* control away; so the next of the list can be switched to without a look at it.
CollectedFirst == coro_this_ptr # Sched => Finished = {}

TimesOrdered ==
    \A c \in Coros :
        /\ last_checked[c] <= clock /\ worked[c] <= clock /\ time_total[c] >= 0
        /\ phase[c] = "absent" => worked[c] = 0 /\ time_total[c] = 0 /\ uncharged[c] = 0

CoroInv ==
    /\ TypeOK /\ LinksMatch /\ NoneIsMissed
    /\ CollectedFirst /\ ControlIsAlive
    /\ TimesOrdered /\ TimeIsExact

USE DEF coroVars, listVars, timeVars

-----------------------------------------------------------------------------
(* The list *)

\* Only the first of the list has none before it, and none comes after itself.
LEMMA OnlyFirstHasNoPrev ==
    ASSUME TypeOK, LinksMatch, NoneIsMissed, NEW c \in Listed
    PROVE  next[c] # c /\ (prev[c] = Null <=> c = coro_list)
<1> USE CoroAssumption DEF CoroAssumption, TypeOK, Listed
<1>1. coro_list # Null => coro_list \in Listed /\ prev[coro_list] = Null
  BY DEF LinksMatch
<1>2. ASSUME c # coro_list, \A d \in Listed \ {c} : next[d] # c PROVE FALSE
  <2>1. Walked(Listed \ {c})
    BY <1>1, <1>2 DEF LinksMatch, Walked
  <2> QED
    BY <2>1 DEF NoneIsMissed
<1>3. prev[c] = Null => c = coro_list
  BY <1>2 DEF LinksMatch
<1>4. next[c] # c
  <2> SUFFICES ASSUME next[c] = c PROVE FALSE
    OBVIOUS
  <2>1. prev[c] = c
    BY DEF LinksMatch
  <2>2. c # coro_list /\ \A d \in Listed \ {c} : next[d] # c
    BY <2>1, <1>1 DEF LinksMatch
  <2> QED
    BY <2>2, <1>2
<1> QED
  BY <1>1, <1>3, <1>4

\* coro_list_add keeps the links matching.
LEMMA ListAddLinks ==
    ASSUME TypeOK, LinksMatch, NoneIsMissed,
           NEW c \in Coros, phase[c] = "absent", ListAdd(c), Listed' = Listed \cup {c}
    PROVE  LinksMatch' /\ NoneIsMissed'
<1> USE CoroAssumption DEF CoroAssumption, TypeOK, ListAdd, LinkedToFirst
<1>1. c \notin Listed /\ Listed \subseteq Coros
  BY DEF Listed
<1>2. LinksMatch'
  BY <1>1 DEF LinksMatch
<1>3. ASSUME NEW S \in SUBSET Coros, Walked(S)' PROVE Listed' \subseteq S
  <2>1. Walked(S \cap Listed)
    BY <1>1, <1>3 DEF Walked, LinksMatch
  <2>2. S \cap Listed \in SUBSET Coros
    OBVIOUS
  <2>3. Listed \subseteq S
    BY <2>1, <2>2 DEF NoneIsMissed
  <2> QED
    BY <1>3, <2>3 DEF Walked
<1> QED
  BY <1>2, <1>3 DEF NoneIsMissed

\* coro_list_delete keeps them matching, although it leaves the links of the
\* coroutine that goes.
LEMMA ListDeleteLinks ==
    ASSUME TypeOK, LinksMatch, NoneIsMissed,
           NEW c \in Listed, ListDelete(c), Listed' = Listed \ {c}
    PROVE  LinksMatch' /\ NoneIsMissed'
<1> USE CoroAssumption DEF CoroAssumption, TypeOK, ListDelete, HeadMoves
<1>1. Listed \subseteq Coros
  BY DEF Listed
<1>2. /\ next[c] # c
      /\ \A d \in Listed : prev[d] = Null <=> d = coro_list
  BY OnlyFirstHasNoPrev
<1>3. LinksMatch'
  BY <1>1, <1>2 DEF LinksMatch
<1>4. ASSUME NEW S \in SUBSET Coros, Walked(S)' PROVE Listed' \subseteq S
  <2>1. CASE prev[c] = Null \/ prev[c] \in S
    <3>3. next[c] # Null => next[c] \in S \cap Listed
      BY <1>1, <1>2, <1>4, <2>1 DEF Walked, LinksMatch
    <3>4. \A d \in S \cap Listed : next[d] # Null => next[d] \in (S \cap Listed) \cup {c}
      <4> SUFFICES ASSUME NEW d \in S \cap Listed, next[d] # Null, next[d] # c
                   PROVE  next[d] \in S /\ next[d] \in Listed
        OBVIOUS
      <4>1. d # prev[c] /\ next[d] \in Listed
        BY DEF LinksMatch
      <4>2. next'[d] = next[d]
        BY <1>1, <4>1
      <4> QED
        BY <1>4, <4>1, <4>2 DEF Walked
    <3>5. coro_list # Null => coro_list \in (S \cap Listed) \cup {c}
      BY <1>1, <1>2, <1>4 DEF Walked, LinksMatch
    <3>1. Walked((S \cap Listed) \cup {c})
      BY <3>3, <3>4, <3>5 DEF Walked
    <3>2. (S \cap Listed) \cup {c} \in SUBSET Coros
      BY <1>1
    <3> QED
      BY <3>1, <3>2 DEF NoneIsMissed
  <2>2. CASE prev[c] # Null /\ prev[c] \notin S
    <3>3. coro_list # c /\ \A d \in S \cap Listed : next[d] # c
      BY <1>1, <1>2, <2>2 DEF LinksMatch
    <3>4. \A d \in (S \cap Listed) \ {c} : next[d] # Null => next[d] \in S \cap Listed
      <4> SUFFICES ASSUME NEW d \in (S \cap Listed) \ {c}, next[d] # Null
                   PROVE  next[d] \in S /\ next[d] \in Listed
        OBVIOUS
      <4>1. d # prev[c] /\ next[d] \in Listed
        BY <2>2 DEF LinksMatch
      <4>2. next'[d] = next[d]
        BY <1>1, <4>1
      <4> QED
        BY <1>4, <4>1, <4>2 DEF Walked
    <3>5. coro_list # Null => coro_list \in S \cap Listed
      BY <1>1, <1>4, <2>2 DEF Walked, LinksMatch
    <3>1. Walked((S \cap Listed) \ {c})
      BY <3>3, <3>4, <3>5 DEF Walked
    <3>2. (S \cap Listed) \ {c} \in SUBSET Coros
      BY <1>1
    <3> QED
      BY <3>1, <3>2 DEF NoneIsMissed
  <2> QED
    BY <2>1, <2>2
<1> QED
  BY <1>3, <1>4 DEF NoneIsMissed

\* A walk that is never stopped comes to what is listed and to nothing else.
LEMMA WalkComesToListed ==
    ASSUME TypeOK, LinksMatch, NoneIsMissed PROVE Reached({}) = Listed
<1> USE CoroAssumption DEF CoroAssumption, TypeOK
<1>1. Listed \in SUBSET Coros /\ Walked(Listed)
  BY DEF Listed, LinksMatch, Walked
<1> QED
  BY <1>1 DEF Reached, Walked, NoneIsMissed

\* The loop of lines 173-174 overlooks no coroutine that has finished.
LEMMA WalkFindsFinished ==
    ASSUME TypeOK, LinksMatch, NoneIsMissed, FirstFinished = {} PROVE Finished = {}
<1> USE CoroAssumption DEF CoroAssumption, TypeOK
<1> DEFINE R == Reached(Finished)
<1>1. R \in SUBSET Coros /\ R \ Finished = R
  BY DEF Reached, FirstFinished
<1>2. Walked(R)
  BY <1>1 DEF Reached, Walked
<1>3. Finished \subseteq Listed
  BY DEF Finished, Listed
<1> QED
  BY <1>1, <1>2, <1>3 DEF NoneIsMissed

-----------------------------------------------------------------------------
(* The steps *)

\* coro_sched_init sets up an empty list.
LEMMA CoroInvInit == CoroInit => CoroInv
<1> SUFFICES ASSUME CoroInit PROVE CoroInv
  OBVIOUS
<1> USE CoroAssumption DEF CoroAssumption, CoroInit
<1>1. TypeOK
  <2>1. /\ clock \in 0 .. MaxTime /\ last_checked \in [Coros -> 0 .. MaxTime]
        /\ time_total \in [Coros -> Int]
        /\ worked \in [Coros -> 0 .. MaxTime] /\ uncharged \in [Coros -> 0 .. MaxTime]
    OBVIOUS
  <2>2. /\ coro_this_ptr \in Coros \cup {Sched} /\ is_sched_waiting \in BOOLEAN
        /\ phase \in [Coros -> {"absent", "alive", "finished", "returned"}]
    OBVIOUS
  <2>3. /\ coro_list \in Coros \cup {Null}
        /\ next \in [Coros -> Coros \cup {Null}] /\ prev \in [Coros -> Coros \cup {Null}]
    OBVIOUS
  <2> HIDE DEF CoroInit
  <2> QED
    BY <2>1, <2>2, <2>3 DEF TypeOK
<1>2. Listed = {}
  BY DEF Listed
<1>3. LinksMatch /\ NoneIsMissed
  BY <1>2 DEF LinksMatch, NoneIsMissed
<1>4. CollectedFirst /\ ControlIsAlive
  BY DEF CollectedFirst, ControlIsAlive
<1>5. TimesOrdered /\ TimeIsExact
  BY DEF TimesOrdered, TimeIsExact
<1> QED
  BY <1>1, <1>3, <1>4, <1>5 DEF CoroInv

\* What a step changes outside of the list keeps the links.
LEMMA ListUntouched ==
    ASSUME LinksMatch, NoneIsMissed, UNCHANGED listVars, Listed' = Listed
    PROVE  LinksMatch' /\ NoneIsMissed'
  BY DEF LinksMatch, NoneIsMissed, Walked

\* coro_new.
LEMMA NewKeeps == ASSUME CoroInv, NEW c \in Coros, New(c) PROVE CoroInv'
<1> USE CoroAssumption DEF CoroAssumption, CoroInv, TypeOK, New
<1>1. TypeOK'
  BY DEF ListAdd, LinkedToFirst
<1>2. Listed' = Listed \cup {c}
  BY DEF Listed
<1>3. LinksMatch' /\ NoneIsMissed'
  BY <1>2, ListAddLinks
<1>4. CollectedFirst' /\ ControlIsAlive'
  BY DEF CollectedFirst, ControlIsAlive, Finished
<1>5. TimesOrdered' /\ TimeIsExact'
  BY DEF TimesOrdered, TimeIsExact, ControlIsAlive
<1> QED
  BY <1>1, <1>3, <1>4, <1>5

\* coro_sched_wait finds one that has finished.
LEMMA SchedReturnsKeeps == ASSUME CoroInv, NEW c \in Coros, SchedReturns(c) PROVE CoroInv'
<1> USE CoroAssumption DEF CoroAssumption, CoroInv, TypeOK, SchedReturns
<1>1. TypeOK'
  BY DEF ListDelete, HeadMoves
<1>2. c \in Listed /\ Listed' = Listed \ {c}
  BY DEF Listed, FirstFinished, Finished
<1>3. LinksMatch' /\ NoneIsMissed'
  BY <1>2, ListDeleteLinks
<1>4. CollectedFirst' /\ ControlIsAlive'
  BY DEF CollectedFirst, ControlIsAlive
<1>5. TimesOrdered' /\ TimeIsExact'
  BY <1>2 DEF TimesOrdered, TimeIsExact, Listed
<1> QED
  BY <1>1, <1>3, <1>4, <1>5

\* coro_sched_wait finds none and gives control to the first of the list.
LEMMA SchedWaitsKeeps == ASSUME CoroInv, SchedWaits PROVE CoroInv'
<1> USE CoroAssumption
        DEF CoroAssumption, CoroInv, TypeOK, SchedWaits, SwitchTo, WaitsUntilBack, Restamped
<1>1. TypeOK'
  OBVIOUS
<1>2. LinksMatch' /\ NoneIsMissed'
  BY ListUntouched DEF Listed
<1>3. Finished = {} /\ coro_list \in Listed
  BY WalkFindsFinished DEF LinksMatch
<1>4. CollectedFirst' /\ ControlIsAlive'
  BY <1>3 DEF CollectedFirst, ControlIsAlive, Finished, Listed
<1>5. TimesOrdered' /\ TimeIsExact'
  BY DEF TimesOrdered, TimeIsExact
<1> QED
  BY <1>1, <1>2, <1>4, <1>5

\* A coroutine works.
LEMMA TickKeeps == ASSUME CoroInv, NEW c \in Coros, Tick(c) PROVE CoroInv'
<1> USE CoroAssumption DEF CoroAssumption, CoroInv, TypeOK, Tick
<1>1. TypeOK'
  BY DEF TimesOrdered
<1>2. LinksMatch' /\ NoneIsMissed'
  BY ListUntouched DEF Listed
<1>3. CollectedFirst' /\ ControlIsAlive'
  BY DEF CollectedFirst, ControlIsAlive, Finished
<1>4. TimesOrdered' /\ TimeIsExact'
  BY DEF TimesOrdered, TimeIsExact, ControlIsAlive
<1> QED
  BY <1>1, <1>2, <1>3, <1>4

\* The next of the list is alive.
LEMMA SuccessorIsAlive ==
    ASSUME CoroInv, NEW c \in Coros, coro_this_ptr = c
    PROVE  /\ Successor(c) \in Coros \cup {Sched}
           /\ Successor(c) # Sched => phase[Successor(c)] = "alive"
<1> USE CoroAssumption DEF CoroAssumption, CoroInv, TypeOK
<1>1. c \in Listed
  BY DEF ControlIsAlive, Listed
<1>2. next[c] # Null => next[c] \in Listed
  BY <1>1 DEF LinksMatch
<1> QED
  BY <1>2 DEF Successor, Listed, CollectedFirst, Finished

\* yield_coro_period_end.
LEMMA PeriodEndKeeps == ASSUME CoroInv, NEW c \in Coros, PeriodEnd(c) PROVE CoroInv'
<1> USE CoroAssumption DEF CoroAssumption, CoroInv, TypeOK, PeriodEnd, Charge
<1>1. /\ Successor(c) \in Coros \cup {Sched}
      /\ Successor(c) # Sched => phase[Successor(c)] = "alive"
  BY SuccessorIsAlive
<1>2. TypeOK'
  <2>1. time_total' \in [Coros -> Int]
    OBVIOUS
  <2>2. last_checked' \in [Coros -> 0 .. MaxTime]
    BY <1>1 DEF SwitchTo, Restamped
  <2>3. coro_this_ptr' \in Coros \cup {Sched} /\ is_sched_waiting' \in BOOLEAN
    BY <1>1 DEF SwitchTo, WaitsUntilBack
  <2> QED
    BY <2>1, <2>2, <2>3
<1>3. LinksMatch' /\ NoneIsMissed'
  BY ListUntouched DEF Listed
<1>4. CollectedFirst' /\ ControlIsAlive'
  BY <1>1 DEF CollectedFirst, ControlIsAlive, Finished, SwitchTo, WaitsUntilBack
<1>5. TimesOrdered'
  BY <1>1 DEF TimesOrdered, ControlIsAlive, SwitchTo, Restamped
<1>6. TimeIsExact'
  BY <1>1 DEF TimesOrdered, TimeIsExact, SwitchTo, Restamped
<1> QED
  BY <1>2, <1>3, <1>4, <1>5, <1>6

\* coro_yield.
LEMMA YieldKeeps == ASSUME CoroInv, NEW c \in Coros, Yield(c) PROVE CoroInv'
<1> USE CoroAssumption
        DEF CoroAssumption, CoroInv, TypeOK, Yield, SwitchTo, WaitsUntilBack, Restamped
<1>1. /\ Successor(c) \in Coros \cup {Sched}
      /\ Successor(c) # Sched => phase[Successor(c)] = "alive"
  BY SuccessorIsAlive
<1>2. uncharged[c] + (clock - last_checked[c]) \in 0 .. MaxTime
  <2>1. phase[c] # "absent"
    BY DEF ControlIsAlive
  <2>2. worked[c] = time_total[c] + uncharged[c] + (clock - last_checked[c])
    BY <2>1 DEF TimeIsExact
  <2> QED
    BY <2>2 DEF TimesOrdered
<1>3. TypeOK'
  <2>1. uncharged' \in [Coros -> 0 .. MaxTime]
    BY <1>2
  <2>2. last_checked' \in [Coros -> 0 .. MaxTime]
    BY <1>1
  <2>3. coro_this_ptr' \in Coros \cup {Sched} /\ is_sched_waiting' \in BOOLEAN
    BY <1>1
  <2> QED
    BY <2>1, <2>2, <2>3
<1>4. LinksMatch' /\ NoneIsMissed'
  BY ListUntouched DEF Listed
<1>5. CollectedFirst' /\ ControlIsAlive'
  BY <1>1 DEF CollectedFirst, ControlIsAlive, Finished
<1>6. TimesOrdered'
  BY <1>1 DEF TimesOrdered, ControlIsAlive
<1>7. TimeIsExact'
  BY <1>1 DEF TimesOrdered, TimeIsExact
<1> QED
  BY <1>3, <1>4, <1>5, <1>6, <1>7

\* coro_body.
LEMMA ReturnKeeps == ASSUME CoroInv, NEW c \in Coros, Return(c) PROVE CoroInv'
<1> USE CoroAssumption
        DEF CoroAssumption, CoroInv, TypeOK, Return, Charge, SwitchTo, WaitsUntilBack
<1>1. TypeOK'
  <2>1. time_total' \in [Coros -> Int]
    OBVIOUS
  <2>2. last_checked' \in [Coros -> 0 .. MaxTime] /\ uncharged' = uncharged
    OBVIOUS
  <2>3. phase' \in [Coros -> {"absent", "alive", "finished", "returned"}]
    OBVIOUS
  <2> QED
    BY <2>1, <2>2, <2>3
<1>2. Listed' = Listed
  BY DEF Listed, ControlIsAlive
<1>3. LinksMatch' /\ NoneIsMissed'
  BY <1>2, ListUntouched
<1>4. CollectedFirst' /\ ControlIsAlive'
  BY DEF CollectedFirst, ControlIsAlive
<1>5. TimesOrdered' /\ TimeIsExact'
  BY DEF TimesOrdered, TimeIsExact, ControlIsAlive
<1> QED
  BY <1>1, <1>3, <1>4, <1>5

\* Every call of the library preserves the invariant.
LEMMA CoroInvNext == CoroInv /\ [CoroNext]_coroVars => CoroInv'
<1> SUFFICES ASSUME CoroInv, [CoroNext]_coroVars PROVE CoroInv'
  OBVIOUS
<1>1. CASE CoroNext
  BY <1>1, NewKeeps, SchedReturnsKeeps, SchedWaitsKeeps, TickKeeps, PeriodEndKeeps,
     YieldKeeps, ReturnKeeps DEF CoroNext
<1>2. CASE UNCHANGED coroVars
  <2> USE <1>2 DEF CoroInv
  <2>1. TypeOK'
    BY DEF TypeOK
  <2>2. LinksMatch'
    BY DEF LinksMatch, Listed
  <2>3. NoneIsMissed'
    BY DEF NoneIsMissed, Walked, Listed
  <2>4. CollectedFirst' /\ ControlIsAlive'
    BY DEF CollectedFirst, Finished, ControlIsAlive
  <2>5. TimesOrdered' /\ TimeIsExact'
    BY DEF TimesOrdered, TimeIsExact
  <2> QED
    BY <2>1, <2>2, <2>3, <2>4, <2>5
<1> QED
  BY <1>1, <1>2

\* What the properties say follows from the invariant.
LEMMA CoroInvImplies == CoroInv => ListHoldsUnreturned /\ ControlIsAlive /\ TimeIsExact
  BY WalkComesToListed DEF CoroInv, ListHoldsUnreturned

-----------------------------------------------------------------------------
(* The theorems *)

\* Whatever calls a program makes, the invariant holds.
THEOREM CoroInvariance == CoroSpec => []CoroInv
  BY CoroInvInit, CoroInvNext, PTL DEF CoroSpec

\* The program of module CoroProgram does nothing to the library but call it.
LEMMA ProgramCalls == Spec => CoroSpec
<1>1. Init => CoroInit
  BY DEF Init
<1>2. [Next]_vars => [CoroNext]_coroVars
  BY DEF Next, Run, Create, Yields, Ends, CoroNext, vars
<1> QED
  BY <1>1, <1>2, PTL DEF Spec, CoroSpec

\* Every variable keeps its type.
THEOREM CoroTypeCorrect == Spec => []TypeOK
<1>1. CoroInv => TypeOK
  BY DEF CoroInv
<1> QED
  BY <1>1, ProgramCalls, CoroInvariance, PTL

\* The list holds the coroutines created and not yet returned, each of them within
\* the reach of the walk (lines 173-174).
THEOREM ListIsExact == Spec => []ListHoldsUnreturned
  BY CoroInvImplies, ProgramCalls, CoroInvariance, PTL

\* Control is with the scheduler or a coroutine that is alive.
THEOREM NoDeadRuns == Spec => []ControlIsAlive
  BY CoroInvImplies, ProgramCalls, CoroInvariance, PTL

\* Each coroutine is charged with the time it worked, less what it spent before
\* calls of coro_yield.
THEOREM NoTimeIsLost == Spec => []TimeIsExact
  BY CoroInvImplies, ProgramCalls, CoroInvariance, PTL
=============================================================================
