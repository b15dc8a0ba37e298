SPECIFICATION Spec
CONSTANTS
    NoValue = NoValue
    Keys = {k1}
    Values = {v1}
    Clients = {c1, c2}
    N = 2
    MaxWrites = 3
    Commands <- AllCommands
    Slot <- ZeroSlot
    Garbage = {}
    Patient = FALSE
INVARIANTS
    FailedIsVerifiable
CHECK_DEADLOCK FALSE
