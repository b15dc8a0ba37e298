SPECIFICATION Spec
CONSTANTS
    NoValue = NoValue
    Keys = {k1, k2}
    Values = {v1}
    MaxOps = 2
    Garbage = {0, 9}
    Inbox <- WriteInbox
INVARIANTS
    ReplyIdIsRequestId
