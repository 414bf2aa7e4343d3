SPECIFICATION Spec
CONSTANTS
    PageSize = 20
    Base = 16
    Keys <- MCKeys3
    Values <- MCValues2
    Deletions = {TRUE, FALSE}
    MaxKills <- MCKillsAdding
CHECK_DEADLOCK FALSE
INVARIANTS
    TypeOK
    RecoverableAtAnyPoint
    PairsBeforeTheKillSurvive
    PairsStayFound
