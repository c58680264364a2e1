SPECIFICATION FairSpec
CONSTANTS
    TotalEvents = 4
    Concurrency = 2
    Chunk = 3
    Invalid <- MCInvalid
    MaxAttempts = 2
INVARIANTS
    TypeOK
    AcceptedIsPublished
    PublishedIsAccounted
    Accounting
PROPERTIES
    Ends
CHECK_DEADLOCK FALSE
