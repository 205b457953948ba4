SPECIFICATION FairSpec
\* The stream ends.
CHECK_DEADLOCK FALSE
CONSTANTS
    Tags <- MCTags
    QueueSize = 2
    Duration = 3
    CacheMaxFrames = 2
    TsCacheNum = 3
    Hz = 2
    SyncMs = 1
    Inc = 3
    Nil = Nil
INVARIANTS
    TypeOK
    SegmentsExact
    WindowKept
    PlaylistInOrder
    AudioInTime
    SourceReachable
PROPERTIES
    WriteReturns
