SPECIFICATION ToolsSpec
CONSTANTS
    p1 = p1
    p2 = p2
    p3 = p3
    Run = {p1, p2, p3}
    Tool = {t1}
    Desc <- Names
    MaxHolders = 2
    MaxWriteFailures = 0
    PidOf <- ReusedPid
    HostOf <- OneHostOnly
    Options <- CommandLines
    ToolOptions <- AllTools
    Scripts <- Together
    KillPoints = {"write", "held"}
INVARIANT ToolTypeOK CheckSeesSteadyHolders   ListTellsHolders
