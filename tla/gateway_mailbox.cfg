SPECIFICATION Spec
CONSTANTS
    Devices <- Two
    d1 = d1
    d2 = d2
    PanOf <- SamePan
    Restored <- Nobody
    PeerLimit = 2
    MaxFrames = 4
    MaxMessages = 2
    BrokerMayFail = TRUE
    NoData = NoData
INVARIANTS
    TypeOK
    UpstreamOrdered
    PanOnce
PROPERTIES
    ImplementsMailbox
