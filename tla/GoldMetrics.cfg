SPECIFICATION MetricsSpec
CONSTANTS
    u1 = u1
    u2 = u2
    s1 = s1
    Users = {u1, u2}
    Sessions = {s1}
    Offsets = {0, 2}
    DayLength = 3
    TrendDays = 2
    MaxTime = 8
    MaxRows = 3
SYMMETRY Symmetry
INVARIANTS
    ConversionSound
    DauIsToday
    TrendIsWhole
CHECK_DEADLOCK FALSE
