SPECIFICATION Spec
CONSTANTS
    Run = {p1, p2, p3}
    Desc <- OneDesc
    MaxHolders = 1
    MaxWriteFailures = 0
    PidOf <- OwnPid
    HostOf <- OneHostOnly
    Options <- ExecSome
    KillPoints = {}
SYMMETRY Symmetry
INVARIANT MutualExclusion
