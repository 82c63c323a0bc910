SPECIFICATION FairSpec
CONSTANTS
    nobit = nobit
    Bits = {0, 1}
    NoBit = nobit
    Configs <- MCConfigs
    MinFrameSize = 15
    ControlFrame = 36
    MaxSends = 2
INVARIANTS
    TypeOK
    PeersAgree
    BusinessServed
PROPERTIES
    NegotiatedOnce
    HandshakeCompletes
\* A closed connection stays closed.
CHECK_DEADLOCK FALSE
