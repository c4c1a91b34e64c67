---------------------------- MODULE CoroProperties ----------------------------
(***************************************************************************)
(* What must hold of the coroutines of module Coro.                        *)
(***************************************************************************)
EXTENDS Coro

Listed == {c \in Coros : phase[c] \in {"alive", "finished"}}

\* The types of the variables.
TypeOK ==
    /\ coro_list \in Coros \cup {Null}
    /\ next \in [Coros -> Coros \cup {Null}]
    /\ prev \in [Coros -> Coros \cup {Null}]
    /\ coro_this_ptr \in Coros \cup {Sched}
    /\ is_sched_waiting \in BOOLEAN
    /\ phase \in [Coros -> {"absent", "alive", "finished", "returned"}]
    /\ clock \in 0 .. MaxTime
    /\ last_checked \in [Coros -> 0 .. MaxTime]
    /\ time_total \in [Coros -> Int]
    /\ worked \in [Coros -> 0 .. MaxTime]
    /\ uncharged \in [Coros -> 0 .. MaxTime]

LinksMatch ==
    /\ coro_list # Null => coro_list \in Listed /\ prev[coro_list] = Null
    /\ \A c \in Listed :
         /\ next[c] # Null => next[c] \in Listed /\ prev[next[c]] = c
         /\ prev[c] # Null => prev[c] \in Listed /\ next[prev[c]] = c

\* The list holds the coroutines created and not yet returned by
\* coro_sched_wait, and no link leads to one that was freed, although
\* coro_list_delete leaves the links of what it removes alone (lines 93-102).
ListHoldsUnreturned == TypeOK /\ LinksMatch /\ Reached({}) = Listed

\* Control never goes to a coroutine that has finished or was freed: the next
\* of a list that changed since the coroutine last ran is still a live one
\* (lines 155-159, 180); and whoever has control finds the scheduler waiting for
\* it, so that "no place to return" (lines 227-230) is never reached.
ControlIsAlive ==
    coro_this_ptr # Sched => phase[coro_this_ptr] = "alive" /\ is_sched_waiting

\* A coroutine is charged with exactly the time it had control for: not with
\* the time others ran, and no tick twice (lines 45-54, 144, 221-224).  The only time
\* it is not charged with is what it worked before it called coro_yield itself:
\* being switched to again sets its last check without a look at it (line 144).
TimeIsExact ==
    \A c \in Coros : phase[c] # "absent" =>
        worked[c] = time_total[c] + uncharged[c] +
                    (IF coro_this_ptr = c THEN clock - last_checked[c] ELSE 0)

\* Every coroutine is finished and handed to main, the ones created by other
\* coroutines too.
EveryCoroutineReturns ==
    \A c \in Coros : phase[c] = "alive" ~> phase[c] = "returned"
=============================================================================
