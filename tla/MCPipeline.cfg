SPECIFICATION PipelineFairSpec
CONSTANTS
    N = 4
    Start <- MCStart
    Length <- MCLength
    Commit <- MCCommit
    Changes <- MCChanges
    ServerLSN = 8
    SlotLSN = 8
    Rejected = {1, 3}
    Faults = {"drop", "crash", "stop"}
    SlotMayGoBack = TRUE
    MaxSessions = 3
    MaxFeedback = 1
    QueueCap = 1
CHECK_DEADLOCK FALSE
INVARIANTS
    TypeOK
    EveryPositionSafe
    KeptOrSentAgain
    NothingPastRejected
PROPERTIES
    EveryRowSettled
    SlotFollows
