SPECIFICATION StoreSpec
CONSTANTS
    None = None
    MaxKeys = 4
    MaxStarts = 3
    Requests <- MCRequests
    Text <- MCText
INVARIANTS
    StoreTypeOK
    Interoperate
    FailsOnlyIfDamaged
    UpIsSound
    AdmittedIffGranted
CHECK_DEADLOCK FALSE
