SPECIFICATION Spec
CONSTANTS
    t1 = t1
    t2 = t2
    h1 = h1
    h2 = h2
    Unparseable = Unparseable
    Tasks = {t1, t2}
    Partitions = {h1, h2}
    MaxSize = 2
    Limit = 2
    MaxRecords = 3
    MaxStarts = 3
    MaxTrim = 1
    MayClose = TRUE
SYMMETRY Symmetry
INVARIANTS
    TypeOK
    CheckpointSafe
    NothingReadIsDropped
    CopiesBounded
    BufferBounded
PROPERTIES
    AtLeastOnceDelivery
