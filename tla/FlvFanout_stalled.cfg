SPECIFICATION FairSpec
\* The stream ends.
CHECK_DEADLOCK FALSE
CONSTANTS
    Streams <- MCStreams
    Early = {c1, c2}
    Late = {}
    Leaving = {c1}
    QueueSize = 1
    Nil = Nil
    c1 = c1
    c2 = c2
PROPERTIES
    DistributionEnds
