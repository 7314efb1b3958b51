SPECIFICATION HealthySystem
CONSTANTS
    Capacity = 2
    Writers = {w1}
    Methods = {"WriteOrFail"}
    MaxWrites = 3
    MaxRewinds = 1
    MaxConns = 1
    Faults = {"dial"}
    Closers = {"context"}
INVARIANTS
    InOrder
    RemovedWasReceived
 
CHECK_DEADLOCK FALSE
