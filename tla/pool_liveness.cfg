\* One client, two tasks, two threads, infinite timeouts; the threads are scheduled
\* fairly.
CONSTANTS
    c1 = c1  c2 = c2  t1 = t1  t2 = t2  t3 = t3  None = None
    Clients = {c1}
    Tasks = {t1, t2}
    Owner <- OneOwner
    MaxThreads = 2
    MaxTasks = 2
    CreateMayFail = FALSE
    Spurious = FALSE
    HugeTimeouts = TRUE
SPECIFICATION FairSpec
PROPERTIES
    JoinReturns
    TasksAreServed
    DeleteReturnsUnraced
CHECK_DEADLOCK FALSE
