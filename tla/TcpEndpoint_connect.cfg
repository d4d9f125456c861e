\* Two fragments each way, one failed connect, one broken connection.
CONSTANTS
    p1 = p1
    p2 = p2
    Proc <- MCProc
    Lower = p1
    MaxFrags = 2
    MaxFailures = 1
    MaxBreaks = 1
SPECIFICATION FairSpec
INVARIANTS
    TypeOK
    AgreedConnection
    NoFragmentLost
    NoFragmentOvertaken
    PendingIsScheduled
PROPERTIES
    EveryFragmentDelivered
CHECK_DEADLOCK FALSE
