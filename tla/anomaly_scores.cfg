SPECIFICATION Spec
CONSTANTS
    Rows = 3
    Points = 8
    Window = 3
    Byte = 8
    Sets <- Triples
INVARIANTS
    TypeOK
    ScoredInPlace
    PathCheapest
    WarpedAligned
    FiniteUnlessConstant
CHECK_DEADLOCK FALSE
