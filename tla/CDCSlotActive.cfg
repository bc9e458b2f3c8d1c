SPECIFICATION Spec
CONSTANTS
    Refuses = {}
    SlowServer = TRUE
    OutboxInUse = FALSE
    MaxConnections = 3
    MaxFaults = 2
CHECK_DEADLOCK FALSE
INVARIANTS
    OnlyPermanentReturned
