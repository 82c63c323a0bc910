\* streamRegistry.ts 3 against an openStream that resumes after abortAll.
SPECIFICATION Spec
CONSTANTS
    o1 = o1
    o2 = o2
    none = none
    Opens = {o1, o2}
    NoOpen = none
    Openers <- MCOpeners
    MaxStreamId = 2
    MaxChunks = 3
INVARIANT TeardownReleases
CHECK_DEADLOCK FALSE
