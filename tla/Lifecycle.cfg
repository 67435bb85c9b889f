SPECIFICATION Spec
CONSTANTS
    MaxStarts = 3
    MaxFaults = 2
INVARIANTS SetupStartsClean ActiveIsBound PanicOnlyIfHeld CleanEnd DeadMountExplained
CHECK_DEADLOCK FALSE
