SPECIFICATION Spec
CONSTANTS
    Threads = {t1}
    Setting = 0
    DefaultSize = 1
    MaxBatch = 3
    MaxIds = 4
    Kinds = {"read"}
    Faults = {"setup", "intr", "short"}
INVARIANTS IdsInOrder QuietOnOk NoStuckWait RepushHasRoom
PROPERTY ImplementsService
CHECK_DEADLOCK FALSE
