SPECIFICATION Spec
CONSTANTS
    Gateways = {g1}
    NoMac = NoMac
    MixedMac = MixedMac
    MaxChannel = 3
    StartChannel = 1
    DefaultTimeout = 240
    DefaultSleep = 30
    ConfigMsgs <- AllMsgs
    Word = 128
    QueueSize = 2
    MaxMoves = 1
    Disturbances <- Faults
INVARIANTS
    TypeOK
    PairedWithGateway
    PeerMatchesStore
    OnChannelUnlessLate
    NoSaveLost
PROPERTIES
    SavedKept
