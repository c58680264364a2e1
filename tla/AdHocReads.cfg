SPECIFICATION FairSpec
CONSTANTS
    r1 = r1
    r2 = r2
    Requests = {r1, r2}
    MaxHour = 2
    MaxVersion = 1
INVARIANTS
    TypeOK
    FreshWithinHour
    GapsEndWithTheHour
PROPERTIES
    Answered
