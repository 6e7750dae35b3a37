SPECIFICATION AuditSpec
CONSTANTS
    Run = {p1, p2, p3}
    Desc <- OneDesc
    MaxHolders = 1
    MaxWriteFailures = 1
    PidOf <- OwnPid
    HostOf <- OneHostOnly
    Options <- ExecSome
    KillPoints <- Claimed
SYMMETRY Symmetry
INVARIANT CleanClaimKept CleanRunIsAlone
PROPERTY ImplementsCleanSemaphore
