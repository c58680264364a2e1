SPECIFICATION Spec
CONSTANTS
    Metrics <- MCMetrics
    MaxHour = 1
    MaxVersion = 0
    MaxLaunches = 1
INVARIANTS
    GoldOverwritten
CHECK_DEADLOCK FALSE
