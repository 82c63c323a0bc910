\* client.ts 621 against a listener that closes the client.
SPECIFICATION Spec
CONSTANTS
    e1 = e1
    e2 = e2
    e3 = e3
    none = none
    infinity = infinity
    Endpoints = {e1, e2, e3}
    NoEndpoint = none
    Infinity = infinity
    Options <- MCOptions
PROPERTY ClosedNeverDials
CHECK_DEADLOCK FALSE
