SPECIFICATION Spec
CONSTANTS
    Clients <- Two
    c1 = c1
    c2 = c2
    c3 = c3
    PartsOf <- Single
    QueueSize = 2
    MaxBroadcasts = 1
    MaxReplies = 2
    LateResults = FALSE
INVARIANTS
    SingleInFlight
CHECK_DEADLOCK FALSE
