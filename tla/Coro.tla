--------------------------------- MODULE Coro ---------------------------------
(***************************************************************************)
(* The coroutines of 1/libcoro.c: the list the scheduler walks, the switch *)
(* of control from one coroutine to the next, the collection of finished   *)
(* coroutines by coro_sched_wait, and the time each one is charged with.   *)
(*                                                                         *)
(* One coroutine runs at a time and keeps control until it gives it up, so *)
(* a step is what happens between two switches, or a tick of the clock.    *)
(* The actions are the calls of the library; the modules CoroProgram (any  *)
(* program) and SortingProgram (1/solution.c) say when they are made.  The *)
(* saved contexts are the callers' program counters and are not            *)
(* represented; a jump to one sets coro_this_ptr to its owner (lines 148   *)
(* and 214).                                                               *)
(***************************************************************************)
EXTENDS Integers, FiniteSets

CONSTANTS
    Coros,          \* the coroutines the program may create, each one once
    Sched,          \* coro_sched, the context of main
    MaxTime,        \* bound: ticks of the clock
    Null

ASSUME CoroAssumption ==
    /\ Sched # Null /\ {Sched, Null} \cap Coros = {}
    /\ MaxTime \in Nat

VARIABLES
    coro_list,
    next, prev,         \* the links of each coroutine
    coro_this_ptr,
    is_sched_waiting,
    phase,              \* "absent", "alive", "finished" (is_finished), "returned"
    clock,              \* CLOCK_MONOTONIC
    last_checked,
    time_total,
    worked,             \* history: the ticks in which the coroutine had control
    uncharged           \* history: the ones before it called coro_yield itself

listVars == <<coro_list, next, prev>>
timeVars == <<last_checked, time_total, uncharged>>
coroVars == <<listVars, coro_this_ptr, is_sched_waiting, phase, clock, timeVars, worked>>

\* The program has called coro_sched_init and nothing else.
CoroInit ==
    /\ coro_list = Null
    /\ next = [c \in Coros |-> Null]
    /\ prev = [c \in Coros |-> Null]
    /\ coro_this_ptr = Sched
    /\ is_sched_waiting = FALSE
    /\ phase = [c \in Coros |-> "absent"]
    /\ clock = 0
    /\ last_checked = [c \in Coros |-> 0]
    /\ time_total = [c \in Coros |-> 0]
    /\ worked = [c \in Coros |-> 0]
    /\ uncharged = [c \in Coros |-> 0]

-----------------------------------------------------------------------------
(* The list *)

\* coro_list_add: the new coroutine becomes the first one.
LinkForgotten(c) == next
LinkedToFirst(c) == [next EXCEPT ![c] = coro_list]

ListAdd(c) ==
    /\ next' = LinkedToFirst(c)
    /\ prev' = [d \in Coros |->
                  IF d = c THEN Null ELSE IF d = coro_list THEN c ELSE prev[d]]
    /\ coro_list' = c

\* coro_list_delete: its neighbours are linked to each other; the links of the
\* coroutine that leaves are not reset.
HeadOnlyIfAlone(c) == prev[c] = Null /\ next[c] = Null
HeadMoves(c) == prev[c] = Null

ListDelete(c) ==
    /\ next' = [d \in Coros |-> IF d = prev[c] THEN next[c] ELSE next[d]]
    /\ prev' = [d \in Coros |-> IF d = next[c] THEN prev[c] ELSE prev[d]]
    /\ coro_list' = IF HeadMoves(c) THEN next[c] ELSE coro_list

\* The coroutines a walk from coro_list along next comes to before one of Stop,
\* and that one: the least set with the first one that is closed.
Reached(Stop) ==
    LET Closed(S) ==
          /\ coro_list # Null => coro_list \in S
          /\ \A c \in S \ Stop : next[c] # Null => next[c] \in S
    IN  {c \in Coros : \A S \in SUBSET Coros : Closed(S) => c \in S}

-----------------------------------------------------------------------------
(* Switching *)

\* coro_yield_to, and what yield_coro_period_end does once it is back (lines
\* 53-54): the time until now is not the one the coroutine worked.
NotRestamped(to) == last_checked
Restamped(to) ==
    IF to = Sched THEN last_checked ELSE [last_checked EXCEPT ![to] = clock]

\* coro_yield: the next of the list, behind the last one the scheduler.
Successor(c) == IF next[c] = Null THEN Sched ELSE next[c]

\* Lines 179 and 181: the scheduler waits from its own switch until control is
\* back with it, whoever runs in between.
WaitsUntilBack(to) == IF coro_this_ptr = Sched THEN TRUE ELSE is_sched_waiting /\ to # Sched

SwitchTo(to) ==
    /\ coro_this_ptr' = to
    /\ is_sched_waiting' = WaitsUntilBack(to)

-----------------------------------------------------------------------------
(* main *)

\* coro_new: main and every coroutine may create one; it does not run yet.
New(c) ==
    /\ phase[c] = "absent"
    /\ phase' = [phase EXCEPT ![c] = "alive"]
    /\ ListAdd(c)
    /\ UNCHANGED <<coro_this_ptr, is_sched_waiting, clock, timeVars, worked>>

\* Lines 173-174: the first coroutine of the list that has finished, if any.
Finished == {c \in Coros : phase[c] = "finished"}
FirstIfFinished == {coro_list} \cap Finished
FirstFinished == Reached(Finished) \cap Finished

\* coro_sched_wait, lines 175-176, and the coro_delete that follows.
SchedReturns(c) ==
    /\ coro_this_ptr = Sched
    /\ c \in FirstFinished
    /\ ListDelete(c)
    /\ phase' = [phase EXCEPT ![c] = "returned"]
    /\ UNCHANGED <<coro_this_ptr, is_sched_waiting, clock, timeVars, worked>>

\* Lines 179-180 when none has: control goes to the first of the list.
SchedWaits ==
    /\ coro_this_ptr = Sched
    /\ coro_list # Null
    /\ FirstFinished = {}
    /\ SwitchTo(coro_list)
    /\ last_checked' = Restamped(coro_list)
    /\ UNCHANGED <<listVars, phase, clock, time_total, uncharged, worked>>

-----------------------------------------------------------------------------
(* A coroutine *)

Tick(c) ==
    /\ coro_this_ptr = c
    /\ clock < MaxTime
    /\ clock' = clock + 1
    /\ worked' = [worked EXCEPT ![c] = @ + 1]
    /\ UNCHANGED <<listVars, coro_this_ptr, is_sched_waiting, phase, timeVars>>

\* Lines 45-47 and 221-223: charge the time since the last check.
Charge(c) == time_total' = [time_total EXCEPT ![c] = @ + clock - last_checked[c]]

\* yield_coro_period_end.  full_timeperiod and left_timeperiod are zero (lines
\* 248-249), so the period is over when any time has passed; otherwise the
\* coroutine goes on.
PeriodEnd(c) ==
    /\ coro_this_ptr = c
    /\ Charge(c)
    /\ IF clock > last_checked[c]
       THEN /\ SwitchTo(Successor(c))
            /\ last_checked' = [Restamped(Successor(c)) EXCEPT ![c] = clock]
       ELSE UNCHANGED <<coro_this_ptr, is_sched_waiting, last_checked>>
    /\ UNCHANGED <<listVars, phase, clock, uncharged, worked>>

\* coro_yield, called by the coroutine itself: control goes on in any case and the
\* time since the last check is charged to nobody.
Yield(c) ==
    /\ coro_this_ptr = c
    /\ SwitchTo(Successor(c))
    /\ last_checked' = Restamped(Successor(c))
    /\ uncharged' = [uncharged EXCEPT ![c] = @ + clock - last_checked[c]]
    /\ UNCHANGED <<listVars, phase, clock, time_total, worked>>

\* coro_body, lines 215-231: the function has returned.
Return(c) ==
    /\ coro_this_ptr = c
    /\ is_sched_waiting
    /\ phase' = [phase EXCEPT ![c] = "finished"]
    /\ Charge(c)
    /\ last_checked' = [last_checked EXCEPT ![c] = clock]
    /\ SwitchTo(Sched)
    /\ UNCHANGED <<listVars, clock, uncharged, worked>>
=============================================================================
