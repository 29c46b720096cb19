\* A full request queue loses frames the host sent.
SPECIFICATION Spec
CONSTANTS
    Workload <- PriorityWorkload
    PinNumbers = {13}
    Values = {0, 7}
    Samples = {1}
    MaxRequests = 5
    RequestQueueLength = 2
    ResponseQueueLength = 1
    PinQueueDepth = 2
INVARIANTS
    NothingLostToBackpressure
CHECK_DEADLOCK FALSE
