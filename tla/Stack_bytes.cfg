SPECIFICATION Spec
CONSTANTS
    Stacks <- AllStacks
    MaxCalls = 3
    Names = {"awrite", "aread", "aread_all", "asplice", "aflush", "aclose", "aprint_now", "write", "close", "close_other", "read"}
    Workers = 1
    BufferSize = 2
    Sent <- TwoSent
INVARIANTS TypeOK KeptOnce InOrder NothingStranded FlushReaches LinesPrinted ReadsOnceInOrder SplicesTellLosses
PROPERTY CoroutinesEnd
CHECK_DEADLOCK FALSE
