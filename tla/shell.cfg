\* Every line of one or two commands, with the ones that fail and every redirection, and
\* lists and pipelines of three and four; five descriptors are what a pipeline needs.
CONSTANTS
    Lines <- LineCases
    MaxProcs = 5
    MaxFds = 5
    CallsFail = TRUE
SPECIFICATION FairSpec
INVARIANTS
    ProgramsAreWired
    NothingIsLeft
    StatusIsOfLast
PROPERTY LineEnds
\* A process may wait for ever, and nothing follows the line.
CHECK_DEADLOCK FALSE
