SPECIFICATION FairSpec
CONSTANTS
    Catchable = {"TERM", "INT"}
    Uncatchable = {"KILL"}
    MaxSignals = 3
    Semantics = {"bsd", "sysv"}
INVARIANT TypeOK CommandCovered
PROPERTY ForwardedSignalEnds InterruptedWaitEnds HoldsLikeWaitLock
