SPECIFICATION FairSpec
CONSTANTS
    a = a
    b = b
    r1 = r1
    Ids = {a, b}
    Runners = {r1}
    MaxHour = 4
    MaxRows = 2
    MaxLate = 1
    MaxEarly = 3
    MaxFailures = 1
    MaxRefused = 1
    OnSchedule = TRUE
INVARIANTS
    TypeOK
    NothingForgotten
    LookbackUnique
    CopiesBounded
PROPERTIES
    LateRowsRefined
CHECK_DEADLOCK FALSE
