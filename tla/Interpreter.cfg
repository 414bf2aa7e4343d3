SPECIFICATION Spec
CONSTANTS
    Alphabet <- MCAlphabet
    TableNames = {"t", "u"}
    Statements <- MCStatements
    MaxRows = 2
CHECK_DEADLOCK FALSE
INVARIANTS
    TypeOK
    SelectIsRelational
PROPERTIES
    InsertsAsWritten
