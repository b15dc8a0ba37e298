SPECIFICATION FairSpec
CONSTANTS
    MaxServers = 3
    MaxFd = 3
    MaxCalls = 2
INVARIANTS
    TypeOK
    NumbersComeBack
    RolesKept
    LeaksAreFailures
    SmoothJoins
PROPERTIES
    StubFollows
    CallsReturn
CHECK_DEADLOCK FALSE
