\* Safety and liveness of the client's life cycle.  Three endpoint objects are
\* enough: one live, one the client still points at, one to spawn.
SPECIFICATION FairSpec
CONSTANTS
    e1 = e1
    e2 = e2
    e3 = e3
    none = none
    infinity = infinity
    Endpoints = {e1, e2, e3}
    NoEndpoint = none
    Infinity = infinity
    Options <- MCOptions
INVARIANTS
    TypeOK
    OneConnection
    NeverWedged
    HandshakeGuarded
    ClosedIsQuiet
    ReadyServes
PROPERTIES
    BudgetAndEnd
    ConnectSettles
    LossResolved
\* A closed client stops.
CHECK_DEADLOCK FALSE
