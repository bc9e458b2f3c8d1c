SPECIFICATION FairSpec
CONSTANTS
    s1 = s1
    s2 = s2
    s3 = s3
    id1 = id1
    id2 = id2
    NoSub = NoSub
    Subs <- MCSubs
    Ids <- MCIds
    IdOf <- MCIdOf
    BufferSize <- MCBufferSize
    MaxChanges = 3
CHECK_DEADLOCK FALSE
INVARIANTS
    TypeOK
    NoSendOnClosed
    EveryChangeAccounted
    InPublicationOrder
    OrphansWereReplaced
PROPERTIES
    PublishNeverBlocks
    UnsubscribedReaderExits
