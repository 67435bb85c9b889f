SPECIFICATION Spec
CONSTANTS
    Size = 13
    PacketSize = 3
    AfcOffset = 1
    ProbePackets = 2
    MaxBroadcastPackets = 2
    Bytes = {"sync", "afc"}
    HostData <- MCHostData
    MaxWrites = 4
INVARIANTS BufferWindow ChunksValid StreamCaptured DeclaredAfterProbe
PROPERTY ImplementsClassification
CHECK_DEADLOCK FALSE
