SPECIFICATION Spec
CONSTANTS
    o1 = o1
    o2 = o2
    none = none
    Opens = {o1, o2}
    NoOpen = none
    Openers <- MCOpeners
    MaxStreamId = 2
    MaxChunks = 3
SYMMETRY MCSymmetry
INVARIANTS
    TypeOK
    RegistryAgrees
    ChunksArrive
\* Closed endpoints stay closed.
CHECK_DEADLOCK FALSE
