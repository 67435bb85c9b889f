SPECIFICATION Spec
CONSTANTS
    Clients <- MCClients
    QueueDepth = 1
    InboxDepth = 1
    OutDepth = 1
    MaxMessages = 2
INVARIANTS InOrder NewestKept ClosedOnce
PROPERTIES NewestArrives GoneIsForgotten
CHECK_DEADLOCK FALSE
