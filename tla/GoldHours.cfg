SPECIFICATION Spec
CONSTANTS
    Metrics <- MCMetrics
    MaxHour = 2
    MaxVersion = 2
    MaxLaunches = 2
INVARIANTS
    TypeOK
    OneSnapshotAnHour
    RefreshedInOrder
CHECK_DEADLOCK FALSE
