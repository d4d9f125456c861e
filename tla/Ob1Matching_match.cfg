CONSTANTS
    t1 = t1
    t2 = t2
    NumProcs = 2
    Tag <- MCTag
    LongMsg <- MCLongMsg
    Posts <- MCPosts
    SeqSpace = 3
    First = 2
    Thread <- MCThread
    MaxMsgs <- MCMaxMsgs
    MaxAhead = 2
    MaxPosts = 2
    MaxFailures = 1
SPECIFICATION FairSpec
INVARIANTS
    TypeOK
    TakenInSequence
    NonOvertaking
    NoMessageLost
    NoMissedMatch
    NoStrandedFragment
PROPERTIES
    ImplementsMatching
    EveryMessageTaken
CHECK_DEADLOCK FALSE
