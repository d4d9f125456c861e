CONSTANTS
    p1 = p1
    p2 = p2
    world = world
    pair = pair
    extra = extra
    k1 = k1
    k2 = k2
    k3 = k3
    Proc <- MCProc
    Comm <- MCComm
    Member <- MCMember
    contextid <- MCcontextid
    Child <- OrderChild
    Parent <- OrderParent
    After <- OrderAfter
    Freed = {extra}
    MaxId = 8
    MaxRounds = 8
SPECIFICATION FairSpec
PROPERTIES
    ThreadsUnrestricted
CHECK_DEADLOCK FALSE
