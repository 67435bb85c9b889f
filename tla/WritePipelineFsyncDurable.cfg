\* One Fsync beside two writes.
SPECIFICATION Spec
CONSTANTS
    WriteDepth = 1
    SnifferDepth = 1
    WriterDepth = 1
    ObservedDepth = 1
    BarrierDepth = 1
    MaxWrites = 2
    Syncers = {c1}
CHECK_DEADLOCK FALSE
INVARIANT
    FsyncDurable
