SPECIFICATION FairSpec
CONSTANTS
    Threads = {p1, p2, p3}
    Callers = {p1, p2, p3}
INVARIANTS TypeOK NoCallOnClosedFile SyscallsExclude
PROPERTY CallsReturn
CHECK_DEADLOCK FALSE
