SPECIFICATION FairSpec
CONSTANTS
    t1 = t1
    h1 = h1
    h2 = h2
    Unparseable = Unparseable
    Tasks = {t1}
    Partitions = {h1, h2}
    MaxSize = 2
    Limit = 2
    MaxRecords = 3
    MaxStarts = 3
    MaxTrim = 0
    MayClose = TRUE
PROPERTIES
    CheckpointMonotone
    Delivery
    CheckpointCatchesUp
