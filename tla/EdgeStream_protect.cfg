SPECIFICATION StreamFairSpec
CONSTANTS
    SeqSpace = 32
    Horizon = 20
    PaddingWindowSize = 3
    ChanSize = 1
    Protect = TRUE
    HeadNilLimit = 1
    UdpBufferInit = 1
    MaxUdpBuffer = 2
    FirstPacket = 29
    LastPacket = 37
    MaxSkip = 4
    MaxDelay = 3
    Nil = Nil
    Tags <- MCTags
    MaxDeclared = 3
    TagAt <- MCTagAt
    FragAt <- MCFragAt
INVARIANTS
    QueueInv
    DamageAccounted
    MonitorPanicNeedsRace
PROPERTIES
    StoredPacketsPlayed
    RecvPacketReturns
