SPECIFICATION Spec
CONSTANTS
    Size = 7
    FirstUser = 1
    HostWrites <- MCHostWrites
    Disks <- MCDisks
    MaxWrites = 4
    JournalCapacity = 2
    ScanChunk = 1
    PunchDepth = 1
INVARIANTS TrackerCurrent CapturesAsked JournalIsLatest RangesExact
CHECK_DEADLOCK FALSE
