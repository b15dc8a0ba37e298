SPECIFICATION FairReconfig
CONSTANTS
    MaxServers = 3
    Serial = TRUE
    Prompt = TRUE
    MaxCuts = 1
    MaxWrites = 1
    MaxTroubles = 2
    Outcomes = {TRUE, FALSE}
INVARIANTS
    TypeOK
    NoMissedChange
    WritesGoForward
    RunOnce
    NoneBypassed
PROPERTIES
    ChainSettles
    
    WorkersFinish
CHECK_DEADLOCK FALSE
