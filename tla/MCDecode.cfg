SPECIFICATION Spec
CONSTANTS
    Schemas <- MCSchemas
    Null = Null
    MaxWire = 2
    MaxWritten = 2
    MaxSessions = 2
CHECK_DEADLOCK FALSE
INVARIANTS
    TypeOK
    InStep
    RowsAsWritten
    EveryChangeCounted
