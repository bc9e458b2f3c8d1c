SPECIFICATION PipelineSpec
CONSTANTS
    N = 4
    Start <- MCStart
    Length <- MCLength
    Commit <- MCCommit
    Changes <- MCChanges
    ServerLSN = 8
    SlotLSN = 8
    Rejected = {}
    Faults = {"drop"}
    SlotMayGoBack = TRUE
    MaxSessions = 2
    MaxFeedback = 1
    QueueCap = 256
CHECK_DEADLOCK FALSE
INVARIANTS
    TopicOrder
