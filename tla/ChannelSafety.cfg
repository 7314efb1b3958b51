SPECIFICATION Spec
CONSTANTS
    Capacity = 3
    Writers = {w1, w2}
    Methods = {"WriteOrReplace", "WriteOrBlock", "WriteOrFail"}
    MaxWrites = 5
    MaxRewinds = 2
INVARIANTS
    TypeOK
    Window
    RingHoldsLatest
    ReaderKnows
    NoLostWakeup
    SizeNeverZero
    CopyKeepsContents
PROPERTY ImplementsLeakyQueue
CHECK_DEADLOCK FALSE
