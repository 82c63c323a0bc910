\* usage.md 278 against connect() resuming on a lost connection.
SPECIFICATION DFairSpec
CONSTANTS
    e1 = e1
    e2 = e2
    e3 = e3
    none = none
    infinity = infinity
    k = k
    nokey = nokey
    Endpoints = {e1, e2}
    NoEndpoint = none
    Infinity = infinity
    Options <- MCOptions
    MaxCalls = 1
    CallOptions <- MCCallOptions
    QueueOptions <- MCQueueOptions
    NoKey = nokey
PROPERTY WaitReadyServed
CHECK_DEADLOCK FALSE
