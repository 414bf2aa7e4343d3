SPECIFICATION FairSpec
CONSTANTS
    Chunks = {1, 2}
    Tables = {t, u}
    Threads = {p, q}
    Capacity <- MCCapacity
    Sizes = {0, 4}
    MaxInserts = 2
    MaxReports = 2
    MaxKills = 1
    Removes = TRUE
    NoTable = NoTable
    Nobody = Nobody
CHECK_DEADLOCK FALSE
INVARIANTS
    TypeOK
    PartitionCovers
    PlacedWithinReports
PROPERTIES
    ImplementsMaster
    EveryRequestAnswered
    UsedUpChunkReturns
