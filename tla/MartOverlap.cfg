SPECIFICATION Spec
CONSTANTS
    Metrics <- MCMetrics
    Loaders = {l1, l2}
    MaxVersion = 1
    MaxStatements = 6
    l1 = l1
    l2 = l2
SYMMETRY Symmetry
INVARIANTS
    TypeOK
    LoadedIsGold
CHECK_DEADLOCK FALSE
