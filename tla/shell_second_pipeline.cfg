\* Lines of four commands.
CONSTANTS
    Lines <- SecondPipeline
    MaxProcs = 5
    MaxFds = 8
    CallsFail = FALSE
SPECIFICATION Spec
INVARIANT SecondPipelineIsWired
CHECK_DEADLOCK FALSE
