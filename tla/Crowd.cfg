SPECIFICATION Spec
CONSTANTS
    Run = {p1, p2, p3}
    Desc <- OneDesc
    MaxHolders = 2
    MaxWriteFailures = 1
    PidOf <- OwnPid
    HostOf <- OneHostOnly
    Options <- ExecSome
    KillPoints <- BeforeTheClaim
SYMMETRY Symmetry
INVARIANT TypeOK RaceIsSafe NothingLeftBehind
