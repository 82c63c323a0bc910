SPECIFICATION MCSpec
CONSTANTS
    Parts = {"framing", "keepalive", "events", "codec", "debug",
             "transport", "definitions"}
    none = none
    f1 = f1
    f2 = f2
    l1 = l1
    l2 = l2
    l3 = l3
    \* Framing
    NoAssembly = none
    MaxMessageId = 2
    MaxAssemblies = 1
    MaxMessageSize = 2
    MaxFrameSize = 8
    FrameCounts = {1, 2, 3}
    MaxMessages = 2
    MaxNoise = 1
    \* Keepalive
    Intervals = {1, 2, 4}
    MinTimeout = 6
    MaxRtt = 3
    IdModulus = 4
    \* EventStream
    Listeners = {l1, l2, l3}
    MaxEmits = 3
    \* Codec
    Byte = 32
    MinBeat = 5
    MaxBeat = 600
    Samples <- MCSamples
    \* Debug
    Followers = {f1, f2}
    Kinds <- MCKinds
    MinLevel = 10
    Capacity = 2
    MaxEntries = 3
    MaxServers = 2
    \* Definitions
    Prefix <- MCPrefix
    TsName <- MCTsName
    Mappings <- MCMappings
    Base <- MCBase
    Pool <- MCPool
    Metas <- MCMetas
    MaxEdits = 3
    MaskBits = 2
    \* Transport
    MaxSent = 3
    MaxBinary = 1
    MaxEncoded = 2
SYMMETRY MCSymmetry
INVARIANTS
    PartsTypeOK
    ChunkingIrrelevant
    MessagesArrive
    HeartbeatTells
    DeliveredOnce
    MeaningKept
    TelemetryComplete
    TransportDelivers
    DefinitionsServe
\* All parts come to an end.
CHECK_DEADLOCK FALSE
