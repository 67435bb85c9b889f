\* Three writes: on two cells they overlap, follow each other contiguously and
\* supersede a part of one another; the third cell continues a stream.  A ring of
\* one entry wraps at the second stored write.
SPECIFICATION Spec
CONSTANTS
    Size = 3
    HistoryCapacity = 1
    PunchDepth = 1
    MaxWrites = 3
    MaxFaults = 1
CONSTRAINTS ReadsLeftWhenDone ThirdCellContinues ThirdWriteUndisturbed
CHECK_DEADLOCK FALSE
INVARIANTS
    TypeOK
    HostDataKept
    OverlayDrains
    ReadFresh
