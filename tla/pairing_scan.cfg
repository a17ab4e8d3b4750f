SPECIFICATION Spec
CONSTANTS
    Gateways = {g1}
    NoMac = NoMac
    MixedMac = MixedMac
    MaxChannel = 13
    StartChannel = 1
    DefaultTimeout = 3000
    DefaultSleep = 30
    ConfigMsgs <- ShortMsgs
    Word = 65536
    QueueSize = 1
    MaxMoves = 0
    Disturbances <- InTime
INVARIANTS
    TriedInTime
    NeverSleepsPaired
