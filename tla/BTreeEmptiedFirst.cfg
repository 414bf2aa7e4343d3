SPECIFICATION Spec
CONSTANTS
    Keys = {1, 2, 3, 4, 5}
    Rids = {r}
    NoRid = NoRid
    LeafMax = 2
    InnerMax = 6
    MaxPages = 9
    Removes = TRUE
CHECK_DEADLOCK FALSE
INVARIANTS
    FullScan
