\* Two clients with a task each, two threads, an array of one task: every
\* behaviour, with failing pthread_create and spurious wake-ups.
CONSTANTS
    c1 = c1  c2 = c2  t1 = t1  t2 = t2  t3 = t3  None = None
    Clients = {c1, c2}
    Tasks = {t1, t2}
    Owner <- TwoOwners
    MaxThreads = 2
    MaxTasks = 1
    CreateMayFail = TRUE
    Spurious = TRUE
    HugeTimeouts = FALSE
SPECIFICATION Spec
INVARIANTS
    TypeOK
    TestStillHolds
    QueueIsAttended
    InProgressExact
    StatusTellsPlace
    JoinSeesResult
    JoinerIsAttended
    DeleteLosesNothing
    PoolOutlivesUsers
PROPERTY ImplementsService
\* Clients need not make a call, and a delete can hang (run pool_delete_hangs).
CHECK_DEADLOCK FALSE
