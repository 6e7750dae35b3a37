SPECIFICATION Spec
CONSTANTS
    Dashed <- OptionTokens
    Integer <- Integers
    Micros <- Microseconds
    Length <- Lengths
    WellFormed <- Names
    FirstPart <- FirstParts
    None = "none"
    OnlineCpus = 2
    Token <- Tokens
    MaxTokens = 4
    Inputs <- Lines
    Environments <- Surroundings
    Rand = {0, 11048894}
    Delay = {0, 400}
    EmbeddedSlot <- SlotsInNames
    MaxDepth = 1
INVARIANT TypeOK NestedNotRefused CheckAgrees TimeoutInTime FreeLockTaken LooksAgain
PROPERTY Answered
