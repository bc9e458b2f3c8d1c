SPECIFICATION FairSpec
CONSTANTS
    Refuses = {"repl", "publication", "stream", "run"}
    SlowServer = FALSE
    OutboxInUse = FALSE
    MaxConnections = 3
    MaxFaults = 4
CHECK_DEADLOCK FALSE
INVARIANTS
    TypeOK
    StreamsProvisioned
    OnlyPermanentReturned
PROPERTIES
    StreamsInTheEnd
    CancelReturns
