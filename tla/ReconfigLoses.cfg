SPECIFICATION VerifiedSpec
CONSTANTS
    MaxServers = 3
    Serial = TRUE
    Prompt = TRUE
    MaxCuts = 0
    MaxWrites = 2
    MaxTroubles = 1
    Outcomes = {TRUE}
PROPERTIES
    DoneSurvives
CHECK_DEADLOCK FALSE
