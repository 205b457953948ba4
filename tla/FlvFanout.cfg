SPECIFICATION FairSpec
\* The stream ends, or a panic ends the process.
CHECK_DEADLOCK FALSE
CONSTANTS
    Streams <- MCStreams
    Early = {c1, c2}
    Late = {c3}
    Leaving = {c1, c3}
    QueueSize = 2
    Nil = Nil
    c1 = c1
    c2 = c2
    c3 = c3
INVARIANTS
    TypeOK
    NoReordering
    Contiguous
    HeadersFirst
    NewestHeaders
    OpenWritersStay
    AllServedWhileUp
PROPERTIES
    EndsWhileUp
