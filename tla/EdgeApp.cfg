SPECIFICATION FairSpec
\* A panic ends the process.
CHECK_DEADLOCK FALSE
CONSTANTS
    Ssrcs = {1, 2}
    Datagrams <- MCDatagrams
    KeyOf <- MCKeyOf
    Clients = {c1}
    Wanted = "live/movie"
    Ended = 1
    InitConf = TRUE
    Recording = TRUE
    LossRate = 1
    BufferLen = 1300
    ChanSize = 1
    MaxQueues = 2
    c1 = c1
INVARIANTS
    TypeOK
    KeysResolve
    OpenQueuesTracked
    PanicNeedsDisturbance
PROPERTIES
    RemovedOnceInited
    ReceiverReturns
