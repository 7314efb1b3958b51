SPECIFICATION SystemSpec
CONSTANTS
    Capacity = 1
    Writers = {w1}
    Methods = {"WriteOrReplace"}
    MaxWrites = 2
    MaxRewinds = 1
    MaxConns = 1
    Faults = {"cut"}
    Closers = {"context"}
INVARIANT SentMeansReceived
CHECK_DEADLOCK FALSE
