SPECIFICATION Spec
CONSTANTS
    Size = 13
    PacketSize = 3
    AfcOffset = 1
    ProbePackets = 2
    MaxBroadcastPackets = 2
    Bytes = {"sync", "afc"}
    HostData <- MCHostData
    MaxWrites = 4
PROPERTY CaptureIsCurrent
CHECK_DEADLOCK FALSE
