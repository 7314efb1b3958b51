SPECIFICATION SystemSpec
CONSTANTS
    Capacity = 1
    Writers = {w1}
    Methods = {"WriteOrBlock"}
    MaxWrites = 2
    MaxRewinds = 1
    MaxConns = 1
    Faults = {}
    Closers = {"context"}
PROPERTY NoWriteAfterCloseWriting
CHECK_DEADLOCK FALSE
