SPECIFICATION FairSpec
CONSTANTS
    ta = ta
    tb = tb
    da = da
    db = db
    NoTopic = NoTopic
    Topics <- MCTopics
    Drainers <- MCDrainers
    MaxDrainers = 1
    QueueCap = 1
    MaxRetries = 0
    OutboxTable = "outbox"
    AckMayFail = FALSE
    MaxRows = 2
CHECK_DEADLOCK FALSE
PROPERTIES
    NeverBlocksReceiveLoop
