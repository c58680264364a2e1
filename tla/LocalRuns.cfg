SPECIFICATION FairSpec
CONSTANTS
    Metrics <- MCMetrics
    r1 = r1
    r2 = r2
    Requests = {r1, r2}
    MaxVersion = 2
    MaxStops = 2
INVARIANTS
    TypeOK
    RunConsistent
    BootstrapWhole
PROPERTIES
    Served
