SPECIFICATION Spec
CONSTANTS
    Gateways = {g1}
    NoMac = NoMac
    MixedMac = MixedMac
    MaxChannel = 3
    StartChannel = 1
    DefaultTimeout = 240
    DefaultSleep = 30
    ConfigMsgs <- NoMsgs
    Word = 128
    QueueSize = 2
    MaxMoves = 0
    Disturbances <- Punctual
INVARIANTS
    PairedOnItsChannel
CHECK_DEADLOCK FALSE
