SPECIFICATION Spec
CONSTANTS
    Callers = {t1}
    Patchers = {t1, t2}
    Calls = {"read", "aread_batch", "aclose", "asplice"}
    Streams = {"s1", "s2"}
    Worlds <- AllWorlds
INVARIANTS TypeOK FormsAgree StubsForMissing PatchedConform
PROPERTIES BroughtMethodsKept CallsEnd
