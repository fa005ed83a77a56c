SPECIFICATION Spec
CONSTANTS
    Streams = {s1}
    Files = {fa}
    Fds <- TwoFds
    Modes <- OneWriter
    MaxOps = 3
    MaxBatch = 1
    ReadCap = 2
    Seeking = FALSE
    Faults = {"setup"}
    AwaitBeforeClose = TRUE
    AwaitEach = TRUE
INVARIANTS SequentialWritesKept
CHECK_DEADLOCK FALSE
