\* Three coroutines, created by main or by one another, that yield up to twice.
CONSTANTS
    Coros = {k1, k2, k3}
    Sched = Sched
    Null = Null
    MaxCalls = 2
    MaxTime = 3
SPECIFICATION FairSpec
INVARIANTS
    ListHoldsUnreturned
    ControlIsAlive
    TimeIsExact
PROPERTIES
    EveryCoroutineReturns
\* The program ends when every coroutine has returned.
CHECK_DEADLOCK FALSE
