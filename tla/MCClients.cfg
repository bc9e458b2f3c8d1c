SPECIFICATION FairSpec
CONSTANTS
    r1 = r1
    h1 = h1
    h2 = h2
    v1 = v1
    v2 = v2
    NoSub = NoSub
    Registrations <- MCRegistrations
    Handlers <- MCHandlers
    Servers <- MCOneServer
    ServerOf <- MCServerOfOne
    Number <- MCNumber
    RemoteAddr <- MCRemoteAddr
    BufferSize <- MCBufferSize
    MaxChanges = 1
CHECK_DEADLOCK FALSE
INVARIANTS
    TypeOK
    ServedWhileConnected
PROPERTIES
    NoGhosts
    RegistrationsEnd
    ShutdownEndsServe
