\* More writes than sniffer.in, the sniffer and sniffer.out hold.
SPECIFICATION FairSpec
CONSTANTS
    WriteDepth = 1
    SnifferDepth = 1
    WriterDepth = 1
    ObservedDepth = 1
    BarrierDepth = 1
    MaxWrites = 4
    Syncers = {}
CHECK_DEADLOCK FALSE
PROPERTY
    EventuallyWritten
