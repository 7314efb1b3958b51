SPECIFICATION FairSpec
CONSTANTS
    Capacity = 1
    Writers = {w1, w2}
    Methods = {"WriteOrBlock", "WriteOrFail"}
    MaxWrites = 3
    MaxRewinds = 1
PROPERTIES
    CloseReleasesEveryone
    FullRingDrains
CHECK_DEADLOCK FALSE
