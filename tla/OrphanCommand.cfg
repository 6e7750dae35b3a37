SPECIFICATION Spec
CONSTANTS
    Catchable = {"TERM"}
    Uncatchable = {}
    MaxSignals = 1
    Semantics = {"bsd"}
INVARIANT CommandUnderLock
