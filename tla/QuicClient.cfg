SPECIFICATION FairSpec
\* A panic ends the process.
CHECK_DEADLOCK FALSE
CONSTANTS
    Streams = {11, 12}
    Seqs = {1, 2}
    Conns = {1, 2, 3}
    PacketLen = 2
    ShortReads = FALSE
    DisableQuic = FALSE
    Nil = Nil
INVARIANTS
    TypeOK
    AnswersMatch
    NothingLeftOver
    NilNeedsCause
PROPERTIES
    GetByQuicReturns
