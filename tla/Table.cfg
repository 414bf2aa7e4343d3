SPECIFICATION Spec
CONSTANTS
    PageSize = 12
    Byte = 4
    Schemas <- MCSchemas
    RowsOf <- MCRowsOf
    MaxInserts = 5
    MaxThrows = 1
CHECK_DEADLOCK FALSE
INVARIANTS
    TypeOK
    RowsReadBack
    ScanFindsRows
PROPERTIES
    InsertTakesFreeId
