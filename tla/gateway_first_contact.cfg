SPECIFICATION Spec
CONSTANTS
    Devices <- Two
    d1 = d1
    d2 = d2
    PanOf <- SamePan
    Restored <- Only1
    PeerLimit = 20
    MaxFrames = 4
    MaxMessages = 2
    BrokerMayFail = TRUE
    NoData = NoData
PROPERTIES
    ImplementsMailbox
