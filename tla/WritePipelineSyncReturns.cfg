\* The sniffer channels have room for every write: only the barrier can wait.
SPECIFICATION FairSpec
CONSTANTS
    WriteDepth = 1
    SnifferDepth = 3
    WriterDepth = 1
    ObservedDepth = 1
    BarrierDepth = 1
    MaxWrites = 3
    Syncers = {c1}
CHECK_DEADLOCK FALSE
PROPERTY
    SyncReturns
