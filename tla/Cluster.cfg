SPECIFICATION FairSpec
CONSTANTS
    Chunks = {1, 2}
    Tables = {1, 2}
    Sizes = {0, 2, 4}
    Clients = {"a", "b"}
    NoTable = NoTable
    Capacity <- MCCapacity
    Programs <- MCPrograms
    MaxFaults = 2
INVARIANTS
    TypeOK
    CreatedOnEveryPart
    OneCreatorPerTable
    RowsOncePerPart
PROPERTIES
    EveryClientEnds
    FreezeEndsChunks
CHECK_DEADLOCK FALSE
