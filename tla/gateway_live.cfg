SPECIFICATION FairSpec
CONSTANTS
    Devices <- Two
    d1 = d1
    d2 = d2
    PanOf <- NoPan
    Restored <- Two
    PeerLimit = 1
    MaxFrames = 3
    MaxMessages = 2
    BrokerMayFail = TRUE
    NoData = NoData
PROPERTIES
    CheckServed
    EventuallyPublished
