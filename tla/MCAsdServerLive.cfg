SPECIFICATION FairSpec
CONSTANTS
    MAX_SESSIONS = 2
    SESSION_AUTH_EXPIRE_TIMEOUT = 1
    Modes <- Tls
    Record <- Few
    MAX_TIME = 1
    MAX_CONNECTS = 2
    MAX_SENDS = 3
    MAX_EVENTS = 1
    f1 = f1
    f2 = f2
    f3 = f3
    Fd <- MCFd2
    UNUSED_SOCKET_FD = UNUSED_SOCKET_FD
PROPERTIES
    UnauthenticatedLeaves
    InputIsRead
    ListenerServed
CHECK_DEADLOCK FALSE
