\* Each node with three operations, an id beyond the last and a server death.
SPECIFICATION FairSpec
CONSTANTS
    MaxOperations = 3
    MaxRequestId = 2
    MaxServerDeaths = 1
    BurstSize = 2
INVARIANTS
    TypeOK
    CallbackOnce
    PingMeasuresItsRequest
    LedStateIsLevel
    BurstReportsOnce
PROPERTIES
    EveryOperationAnswered
    BurstEnds
CHECK_DEADLOCK FALSE
