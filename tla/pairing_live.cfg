SPECIFICATION FairSpec
CONSTANTS
    Gateways = {g1}
    NoMac = NoMac
    MixedMac = MixedMac
    MaxChannel = 2
    StartChannel = 1
    DefaultTimeout = 240
    DefaultSleep = 30
    ConfigMsgs <- PartialMsgs
    Word = 128
    QueueSize = 2
    MaxMoves = 1
    Disturbances <- LateRival
PROPERTIES
    Decided
    AnswerEndsScan
CHECK_DEADLOCK FALSE
