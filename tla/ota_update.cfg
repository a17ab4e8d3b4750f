SPECIFICATION FairSpec
CONSTANTS
    Tasks <- TwoTasks
    t1 = t1
    t2 = t2
    Images <- Offer
    FirstImage <- Current
    HwSecure = 1
    MaxRetry = 5
    MaxRequests = 3
    None = None
INVARIANTS
    TypeOK
    OnlyAccepted
    GivesUpLast
PROPERTIES
    UpdateEnds
CHECK_DEADLOCK FALSE
