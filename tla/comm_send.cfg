SPECIFICATION FairSpec
CONSTANTS
    Clients <- Three
    c1 = c1
    c2 = c2
    c3 = c3
    PartsOf <- Mixed
    QueueSize = 2
    MaxBroadcasts = 2
    MaxReplies = 1
    LateResults = TRUE
INVARIANTS
    TypeOK
    TokenHeld
    FramesInOrder
    SingleUnlessStray
PROPERTIES
    SendEnds
    ClientsEnd
    OwnResult
CHECK_DEADLOCK FALSE
