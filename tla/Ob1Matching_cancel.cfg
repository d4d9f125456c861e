CONSTANTS
    t1 = t1
    t2 = t2
    NumProcs = 2
    Tag <- MCTag
    LongMsg <- CancelLongMsg
    Posts <- MCPosts
    SeqSpace = 3
    First = 2
    Thread <- MCThread
    MaxMsgs <- MCMaxMsgs
    MaxAhead = 2
    MaxPosts = 2
    MaxFailures = 0
SPECIFICATION Spec
INVARIANTS
    CancelledOrReceived
CHECK_DEADLOCK FALSE
