\* client.ts 151 against the timer of awaitReady.
SPECIFICATION Spec
CONSTANTS
    e1 = e1
    e2 = e2
    e3 = e3
    none = none
    infinity = infinity
    Endpoints = {e1, e2, e3}
    NoEndpoint = none
    Infinity = infinity
    Options <- MCOptions
INVARIANT ConnectLastsUntilReadyOrClosed
CHECK_DEADLOCK FALSE
