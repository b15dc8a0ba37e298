SPECIFICATION ReconfigSpec
CONSTANTS
    MaxServers = 3
    Serial = TRUE
    Prompt = TRUE
    MaxCuts = 1
    MaxWrites = 2
    MaxTroubles = 1
    Outcomes = {TRUE}
INVARIANTS
    ReconfigTypeOK
    OrderKept
CHECK_DEADLOCK FALSE
