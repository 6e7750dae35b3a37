SPECIFICATION FairSpec
CONSTANTS
    Run = {p1, p2}
    Desc <- OneDesc
    MaxHolders = 1
    MaxWriteFailures = 1
    PidOf <- OwnPid
    HostOf <- OneHostOnly
    Options <- Anything
    KillPoints <- Live
PROPERTY ImplementsSemaphore TimeoutHonoured StaleLocksReclaimed
