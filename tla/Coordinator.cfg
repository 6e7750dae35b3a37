SPECIFICATION Spec
CONSTANTS
    Byte = {"a", "R"}
    Messages <- TwoBytes
    Capacity = 2
    MaxBytes <- ChildTalks
INVARIANT TypeOK NoLeakedEnds ReadyWasWritten StrangerSpared ZombieOnlyAfterKill
PROPERTY ReceiveEnds DestroyEndsChild ImplementsChannel
