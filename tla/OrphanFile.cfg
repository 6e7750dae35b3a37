SPECIFICATION FairSpec
CONSTANTS
    Run = {p1, p2}
    Desc <- OneDesc
    MaxHolders = 1
    MaxWriteFailures = 0
    PidOf <- OwnPid
    HostOf <- OneHostOnly
    Options <- HoldNone
    KillPoints = {"write"}
PROPERTY AutomaticCleanup
