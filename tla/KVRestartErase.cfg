SPECIFICATION Spec
CONSTANTS
    PageSize = 20
    Base = 16
    Keys <- MCKeys2
    Values <- MCValues2
    Deletions = {TRUE}
    MaxKills <- MCKillsDeleting
CHECK_DEADLOCK FALSE
INVARIANTS
    KeysRecoverable
