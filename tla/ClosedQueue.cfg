\* usage.md 342 against onEndpointClose without a coordinator.
SPECIFICATION DSpec
CONSTANTS
    e1 = e1
    e2 = e2
    e3 = e3
    none = none
    infinity = infinity
    k = k
    nokey = nokey
    Endpoints = {e1, e2}
    NoEndpoint = none
    Infinity = infinity
    Options <- MCOptions
    MaxCalls = 3
    CallOptions <- MCCallOptions
    QueueOptions <- MCQueueOptions
    NoKey = nokey
INVARIANT ClosedRejectsQueue
CHECK_DEADLOCK FALSE
