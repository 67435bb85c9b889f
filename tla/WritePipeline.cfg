\* Every channel holds one element, and four writes fill the sniffer's channels.
\* The program may stop: its goroutines can wait for one another forever.
SPECIFICATION FairSpec
CONSTANTS
    WriteDepth = 1
    SnifferDepth = 1
    WriterDepth = 1
    ObservedDepth = 1
    BarrierDepth = 1
    MaxWrites = 4
    Syncers = {c1}
CHECK_DEADLOCK FALSE
INVARIANTS TypeOK AcceptedOnce SyncDispatched SnifferSawAll LossBounded
PROPERTIES DeliverySpec WrittenUnlessStuck ShutdownEnds
