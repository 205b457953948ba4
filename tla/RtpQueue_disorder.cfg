SPECIFICATION Spec
CONSTANTS
    SeqSpace = 32
    Horizon = 20
    PaddingWindowSize = 3
    ChanSize = 2
    Protect = TRUE
    HeadNilLimit = 1
    UdpBufferInit = 1
    MaxUdpBuffer = 1
    FirstPacket = 8
    LastPacket = 16
    MaxSkip = 4
    MaxDelay = 3
    Nil = Nil
INVARIANTS
    OrderedDelivery
