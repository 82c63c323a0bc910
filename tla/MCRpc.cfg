SPECIFICATION MCSpec
CONSTANTS
    none = none
    \* PendingCalls
    c1 = c1
    c2 = c2
    c3 = c3
    c4 = c4
    Calls = {c1, c2, c3, c4}
    NoCall = none
    MaxRequestId = 2
    \* Server
    h1 = h1
    h2 = h2
    r1 = r1
    MaxConns = 2
    Handlers = {h1, h2}
    NoHandler = none
    Requests = {r1}
INVARIANTS
    TypeOK
    TableAgrees
    AnsweredByOwn
    ServerTypeOK
    EntriesAgree
    LatestServes
PROPERTIES
    ImplementsContract
    EveryCallSettles
    CloseReturns
\* All calls settled and all messages lost, or a closed server: nothing is left
\* to do.
CHECK_DEADLOCK FALSE
