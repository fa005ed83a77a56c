SPECIFICATION Spec
CONSTANTS
    Callers = {t1}
    Patchers = {}
    Calls = {"read", "aread"}
    Streams = {"s1", "s2"}
    Worlds <- ReadWorlds
INVARIANT SyncReadRefused
