------------------------------ MODULE CoroProgram ------------------------------
(***************************************************************************)
(* A program on the coroutines of module Coro.  main and the coroutines    *)
(* create coroutines at any time; main calls coro_sched_wait until it      *)
(* returns NULL; a coroutine computes, calls yield_coro_period_end or      *)
(* coro_yield a number of times, and returns.                              *)
(***************************************************************************)
EXTENDS Coro

CONSTANT MaxCalls       \* bound: calls of these two by a coroutine

ASSUME CallsAssumption == MaxCalls \in Nat

VARIABLE calls          \* the ones a coroutine is still to make

vars == <<coroVars, calls>>

Init == CoroInit /\ calls = [c \in Coros |-> 0]

Create(c) ==
    /\ New(c)
    /\ \E n \in 0 .. MaxCalls : calls' = [calls EXCEPT ![c] = n]

Yields(c) ==
    /\ calls[c] > 0
    /\ PeriodEnd(c) \/ Yield(c)
    /\ calls' = [calls EXCEPT ![c] = @ - 1]

Ends(c) == calls[c] = 0 /\ Return(c) /\ UNCHANGED calls

Run ==
    \/ SchedWaits /\ UNCHANGED calls
    \/ \E c \in Coros : SchedReturns(c) /\ UNCHANGED calls
    \/ \E c \in Coros : Yields(c) \/ Ends(c)

Next ==
    \/ Run
    \/ \E c \in Coros : Create(c)
    \/ \E c \in Coros : Tick(c) /\ UNCHANGED calls

Spec == Init /\ [][Next]_vars

\* Whoever has control goes on.  Nobody has to create a coroutine and no time has
\* to pass.
FairSpec == Spec /\ WF_vars(Run)
=============================================================================
