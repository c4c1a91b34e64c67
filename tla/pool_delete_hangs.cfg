\* The smallest pool: one client, one task, one thread, scheduled fairly.
CONSTANTS
    c1 = c1  c2 = c2  t1 = t1  t2 = t2  t3 = t3  None = None
    Clients = {c1}
    Tasks = {t1}
    Owner <- OneOwner
    MaxThreads = 1
    MaxTasks = 1
    CreateMayFail = FALSE
    Spurious = FALSE
    HugeTimeouts = FALSE
SPECIFICATION FairSpec
PROPERTY DeleteReturns
CHECK_DEADLOCK FALSE
