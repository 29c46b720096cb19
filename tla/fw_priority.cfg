\* One pin under mixed priorities, queues small enough to fill.
SPECIFICATION Spec
CONSTANTS
    Workload <- PriorityWorkload
    PinNumbers = {13}
    Values = {0, 7}
    Samples = {1}
    MaxRequests = 5
    RequestQueueLength = 2
    ResponseQueueLength = 1
    PinQueueDepth = 2
INVARIANTS
    TypeOK
    OneHolder
    HighPriorityGoesFirst
    AnswersJustified
PROPERTIES
    ExecutedInOrder
CHECK_DEADLOCK FALSE
