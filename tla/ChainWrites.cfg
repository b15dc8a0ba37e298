SPECIFICATION Spec
CONSTANTS
    NoValue = NoValue
    Keys = {k1}
    Values = {v1}
    Clients = {c1, c2}
    N = 3
    MaxWrites = 3
    Commands <- AllCommands
    Slot <- ZeroSlot
    Garbage = {1}
    Patient = FALSE
INVARIANTS
    TypeOK
    SuccessorFollows
    NoDivergence
    VerifiedIsSettled
    AcknowledgedIsSettled
PROPERTIES
    ImplementsLogInOrder
SYMMETRY ClientSymmetry
CHECK_DEADLOCK FALSE
