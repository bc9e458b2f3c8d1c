SPECIFICATION Spec
CONSTANTS
    N = 4
    Start <- AdjacentStart
    Length <- AdjacentLength
    Commit <- AdjacentCommit
    Changes <- MCChanges
    ServerLSN = 7
    SlotLSN = 8
    Rejected = {}
    Faults = {"drop"}
    SlotMayGoBack = TRUE
    MaxSessions = 4
    MaxFeedback = 2
CHECK_DEADLOCK FALSE
INVARIANTS
    NothingLost
