\* Slots of both banks, conflicting modes, an invalid pin; every queue of
\* length one, so that full queues must not stop anybody for ever.
SPECIFICATION FairSpec
CONSTANTS
    Workload <- RoutingWorkload
    PinNumbers = {0, 5}
    Values = {0, 1, 90, 6000}
    Samples = {0, 1}
    MaxRequests = 3
    RequestQueueLength = 1
    ResponseQueueLength = 1
    PinQueueDepth = 1
INVARIANTS
    RequestPathInv
    RoutedToOwnSession
    WritesReportAppliedValue
PROPERTIES
    EveryQueuedRequestAnswered
    DeviceImplemented
CHECK_DEADLOCK FALSE
