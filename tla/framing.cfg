SPECIFICATION Spec
CONSTANTS
    Nodes <- Two
    a = a
    b = b
    PanOf <- SamePan
    Texts <- Edges
    Orders <- Sizes
    MaxSent = 3
    MaxOrders = 1
    NoOrder = NoOrder
INVARIANTS
    TypeOK
    JsonAsSent
    JsonFits
    MixedOnlyNumbers
    PartsInOrder
    AppliedPadded
    RingUntouched
SYMMETRY Symmetric
CHECK_DEADLOCK FALSE
