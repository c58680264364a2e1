SPECIFICATION FairSpec
CONSTANTS
    r1 = r1
    r2 = r2
    Requests = {r1, r2}
    MaxVersion = 3
INVARIANTS
    TypeOK
    EmptyOnlyWhileEmpty
PROPERTIES
    Answered
    CacheCatchesUp
    ServesReadThrough
