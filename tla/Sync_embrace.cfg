SPECIFICATION Spec
CONSTANTS
    Threads = {p1, p2}
    Callers = {p1, p2}
INVARIANT NoDeadlyEmbrace
CHECK_DEADLOCK FALSE
