SPECIFICATION FairSpec
CONSTANTS
    NoValue = NoValue
    Keys = {k1, k2}
    Values = {v1}
    MaxOps = 3
    Garbage = {0, 2}
    Inbox <- FullInbox
INVARIANTS
    TypeOK
    InOrderExactlyOnce
    TreeIsReplay
    HeapIsLiveRequests
    VerifySound
    VerifyTimely
PROPERTIES
    EveryCallIsAnswered
    EveryWriteIsProcessed
    ImplementsWriteLog
CHECK_DEADLOCK FALSE
