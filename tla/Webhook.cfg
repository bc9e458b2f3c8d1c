SPECIFICATION FairSpec
CONSTANTS
    MaxChanges = 5
    BufferSize = 1
    Concurrency = 2
    MaxAttempts = 3
CHECK_DEADLOCK FALSE
INVARIANTS
    TypeOK
    PostsBounded
    LossBounded
PROPERTIES
    EveryChangePosted
