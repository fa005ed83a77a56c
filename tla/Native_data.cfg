SPECIFICATION Spec
CONSTANTS
    Streams = {s1, s2}
    Files = {fa, fb}
    Fds <- TwoFds
    Modes <- ReadWriteAppend
    MaxOps = 2
    MaxBatch = 1
    ReadCap = 2
    Seeking = TRUE
    Faults = {"setup", "io", "intr"}
    AwaitBeforeClose = TRUE
    AwaitEach = FALSE
SYMMETRY StreamSymmetry
INVARIANTS TypeOK FdTableExact Confined NoDuplicates AppendersLoseNothing
CHECK_DEADLOCK FALSE
