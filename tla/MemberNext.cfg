SPECIFICATION Spec
CONSTANTS
    MaxServers = 3
    Serial = FALSE
    Prompt = TRUE
    MaxCuts = 0
INVARIANTS
    NextIsNext
CHECK_DEADLOCK FALSE
