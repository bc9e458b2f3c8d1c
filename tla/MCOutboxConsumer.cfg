SPECIFICATION FairSpec
CONSTANTS
    ta = ta
    tb = tb
    da = da
    db = db
    NoTopic = NoTopic
    Topics <- MCTopics
    Drainers <- MCDrainers
    MaxDrainers = 2
    QueueCap = 1
    MaxRetries = 1
    OutboxTable = "outbox"
    AckMayFail = TRUE
    MaxRows = 3
CHECK_DEADLOCK FALSE
INVARIANTS
    TypeOK
    DrainersBounded
    InOrderWithinTopic
    EveryRowInOnePlace
    CountersAgree
PROPERTIES
    ImplementsPromise
    EveryRowSettles
    NeverBlocksReceiveLoop
    CancellationEndsDelivery
