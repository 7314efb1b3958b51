SPECIFICATION SystemSpec
CONSTANTS
    Capacity = 1
    Writers = {w1}
    Methods = {"WriteOrBlock"}
    MaxWrites = 2
    MaxRewinds = 2
    MaxConns = 2
    Faults = {"cut", "refuse", "reject", "timeout", "dial", "idle"}
    Closers = {}
INVARIANTS
    
    KeptUntilSent
    DuplicatesNeedRewind
    RewindsNeedConns
    
CHECK_DEADLOCK FALSE
