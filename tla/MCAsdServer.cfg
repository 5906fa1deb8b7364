SPECIFICATION Spec
CONSTANTS
    MAX_SESSIONS = 2
    SESSION_AUTH_EXPIRE_TIMEOUT = 1
    Modes <- TlsAndTcp
    Record <- Coalesced
    MAX_TIME = 1
    MAX_CONNECTS = 3
    MAX_SENDS = 3
    MAX_EVENTS = 1
    f1 = f1
    f2 = f2
    f3 = f3
    Fd <- MCFd
    UNUSED_SOCKET_FD = UNUSED_SOCKET_FD
SYMMETRY DescriptorSymmetry
INVARIANTS
    TypeOK
    ContextFollowsOwner
    ReaderIsOwner
    NoOrphanContext
PROPERTIES
    OwnerKeepsPort
    ImplementsSession
CHECK_DEADLOCK FALSE
