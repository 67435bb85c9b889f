\* Four cells and three writes: a write can split an older one, swallow what
\* is left of it, and be split in turn.  The overlay may stop: it is closed and drained.
SPECIFICATION Spec
CONSTANTS
    Size = 4
    MaxGen = 3
    MaxFaults = 1
CHECK_DEADLOCK FALSE
INVARIANTS
    TypeOK
    SortedDisjoint
    ReadLatest
PROPERTIES
    ImplementsOverlay
