CONSTANTS
    p1 = p1
    p2 = p2
    world = world
    pair = pair
    extra = extra
    k1 = k1
    k2 = k2
    k3 = k3
    Proc <- MCProc
    Comm <- MCComm
    Member <- MCMember
    contextid <- MCcontextid
    Child <- MCChild
    Parent <- MCParent
    After <- MCAfter
    Freed = {extra}
    MaxId = 6
    MaxRounds = 6
SPECIFICATION FairSpec
INVARIANTS
    TypeOK
    SameId
    EveryEntryHasOneOwner
    NoEarlyUse
PROPERTIES
    EveryCreationEnds
    ImplementsCommIds
CHECK_DEADLOCK FALSE
