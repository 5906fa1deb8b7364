SPECIFICATION FairSpec
CONSTANTS
    MAX_SESSIONS = 2
    SESSION_AUTH_EXPIRE_TIMEOUT = 1
    Modes <- Tls
    Record <- Coalesced
    MAX_TIME = 1
    MAX_CONNECTS = 1
    MAX_SENDS = 2
    MAX_EVENTS = 0
    f1 = f1
    f2 = f2
    f3 = f3
    Fd <- MCFd2
    UNUSED_SOCKET_FD = UNUSED_SOCKET_FD
PROPERTIES
    InputIsRead
CHECK_DEADLOCK FALSE
