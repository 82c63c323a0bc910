SPECIFICATION TransportSpec
CONSTANTS
    MaxSent = 2
    MaxBinary = 1
    MaxEncoded = 1
INVARIANT CloseOnlyCloses
CHECK_DEADLOCK FALSE
