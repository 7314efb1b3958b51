SPECIFICATION LoggersSpec
CONSTANTS
    u1 = u1
    u2 = u2
    u3 = u3
    None = None
    Users <- MCUsers
    BucketOf <- MCBucketOf
    LoggerIds = {l1, l2}
    EntryIds = {e1, e2}
    MaxTags = 1
    Categories = {7}
INVARIANTS
    LoggersTypeOK
    Exclusive
    PooledIsClean
 
SYMMETRY Symmetry
VIEW Seen
