SPECIFICATION FairSpec
CONSTANTS
    Threads = {t1, t2}
    Setting = 3
    DefaultSize = 1
    MaxBatch = 2
    MaxIds = 4
    Kinds = {"write", "splice"}
    Faults = {"setup"}
INVARIANTS TypeOK OwnResults BuffersOutliveOps
PROPERTY CallReturns
CHECK_DEADLOCK FALSE
