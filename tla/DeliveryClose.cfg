SPECIFICATION FairSystem
CONSTANTS
    Capacity = 1
    Writers = {w1}
    Methods = {"WriteOrReplace"}
    MaxWrites = 2
    MaxRewinds = 1
    MaxConns = 1
    Faults = {"cut", "timeout", "protocol"}
    Closers = {"user"}
INVARIANT
    RemovedWasSent
PROPERTIES
    CloseEndsResponses
    CloseEndsEntriesOrDials
CHECK_DEADLOCK FALSE
