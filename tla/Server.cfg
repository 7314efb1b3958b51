SPECIFICATION FairTlsServer
CONSTANTS
    MaxConns = 2
    Faults = {"reject", "idle"}
    Buckets = {7, 8}
    CertBuckets <- MCCertBuckets
    MaxMessages = 2
INVARIANTS
    TlsServerTypeOK
    OwnObject
    OnlyOwnBuckets
    
    OkIsEarned
    NokIsLast
PROPERTY HandlersEnd
CHECK_DEADLOCK FALSE
