\* Two threads and two addresses.
CONSTANTS
    Threads = {t1, t2}
    Addrs = {a1, a2}
    None = None
    Failed = Failed
SPECIFICATION FairSpec
INVARIANTS
    TableMatchesHeap
    NoFalseAlarm
    ReportIsExact
    RecordsAreReused
PROPERTIES
    CallsReturn
\* Nobody has to call anything, and an assertion ends the program.
CHECK_DEADLOCK FALSE
