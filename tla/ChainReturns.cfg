SPECIFICATION FairSpec
CONSTANTS
    NoValue = NoValue
    Keys = {k1}
    Values = {v1, v2}
    Clients = {c1, c2}
    N = 3
    MaxWrites = 3
    Commands <- PutCommands
    Slot <- ZeroSlot
    Garbage = {}
    Patient = TRUE
PROPERTIES
    EveryCallReturns
    ImplementsWriteLog
CHECK_DEADLOCK FALSE
