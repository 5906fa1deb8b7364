SPECIFICATION Spec
CONSTANTS
    MAX_SESSIONS = 3
    SESSION_AUTH_EXPIRE_TIMEOUT = 2
    MAX_TIME = 3
    f1 = f1
    f2 = f2
    f3 = f3
    Fd <- MCFd
    UNUSED_SOCKET_FD = UNUSED_SOCKET_FD
INVARIANTS
    TypeOK
    OnlyOneAuthenticated
    SocketsTracked
    DeadlinesFollowOccupancy
PROPERTIES
    OwnershipIsExclusive
    ImplementsDebugAccess
