\* Lines cut, joined and garbled, single lines with doubtful fields, and the
\* host's own: what reaches the request queue.
SPECIFICATION Spec
CONSTANTS
    Streams <- ManyStreams
    HostFrames <- CornerFrames
INVARIANTS
    TypeOK
    OffersExactlyTheWellFormedLines
    StatisticsAccountForEveryStart
    HostRequestsArriveUnchanged
CHECK_DEADLOCK FALSE
