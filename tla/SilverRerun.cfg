SPECIFICATION Spec
CONSTANTS
    a = a
    r1 = r1
    Ids = {a}
    Runners = {r1}
    MaxHour = 1
    MaxRows = 1
    MaxLate = 1
    MaxEarly = 0
    MaxFailures = 0
    MaxRefused = 0
    OnSchedule = FALSE
SYMMETRY Symmetry
INVARIANTS
    RerunRestores
CHECK_DEADLOCK FALSE
