SPECIFICATION Spec
CONSTANTS
    Streams = {s1}
    Files = {fa}
    Fds <- TwoFds
    Modes <- ReadAppend
    MaxOps = 3
    MaxBatch = 1
    ReadCap = 2
    Seeking = FALSE
    Faults = {}
    AwaitBeforeClose = TRUE
    AwaitEach = TRUE
INVARIANTS ReadsAdvance
CHECK_DEADLOCK FALSE
