\* Two clients with three tasks, an array of one: both clients may be past the
\* test of line 174 when the array fills up, with a task left to push.
CONSTANTS
    c1 = c1  c2 = c2  t1 = t1  t2 = t2  t3 = t3  None = None
    Clients = {c1, c2}
    Tasks = {t1, t2, t3}
    Owner <- TwoOwners
    MaxThreads = 1
    MaxTasks = 1
    CreateMayFail = FALSE
    Spurious = FALSE
    HugeTimeouts = FALSE
SPECIFICATION Spec
INVARIANTS
    QueueBound
    NoUseOfFreedTask
CHECK_DEADLOCK FALSE
