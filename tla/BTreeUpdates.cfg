SPECIFICATION Spec
CONSTANTS
    Keys = {1, 2, 3, 4, 5}
    Rids = {r}
    NoRid = NoRid
    LeafMax = 2
    InnerMax = 4
    MaxPages = 7
    Removes = TRUE
CHECK_DEADLOCK FALSE
INVARIANTS
    TypeOK
    SeparatorsBound
    ScanIsSound
PROPERTIES
    ImplementsIndex
