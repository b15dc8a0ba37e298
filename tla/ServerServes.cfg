SPECIFICATION FairSpec
CONSTANTS
    Conns = {c1, c2}
    MaxFd = 3
    MaxAsks = 2
    MaxMoves = 2
INVARIANTS
    TypeOK
    AnswersMatch
    PollSetIsOpen
    CrossingHasCause
PROPERTIES
    EveryRequestIsAnswered
    GoneIsClosed
CHECK_DEADLOCK FALSE
