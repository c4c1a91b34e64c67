\* Two files, every content of the first one, a clock that lets control move twice.
CONSTANTS
    Coros = {1, 2}
    Sched = Sched
    Null = Null
    Unset = Unset
    MaxTime = 2
    Inputs <- FileCases
    IntMin <- Least
    IntMax = 3
SPECIFICATION FairSpec
INVARIANTS
    OutputIsSorted
    OutputIsAllInput
PROPERTY ProgramEnds
\* The program ends.
CHECK_DEADLOCK FALSE
