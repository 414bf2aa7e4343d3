SPECIFICATION Spec
CONSTANTS
    Threads = {a, b}
    Names = {t}
    Columns = {"c", "d", "e"}
    Schemas <- MCSchemas
    Generations = {1, 2, 3, 4, 5, 6, 7, 8}
    None = None
    FrameCount = 5
    Descriptors = 4
    MaxKills = 1
    MaxRequests = 5
SYMMETRY Symmetry
INVARIANTS
    TypeOK
    NothingInvented
    SchemeBeforeTable
PROPERTIES
    HangsOnEmpty
    RunsDry
CHECK_DEADLOCK FALSE
