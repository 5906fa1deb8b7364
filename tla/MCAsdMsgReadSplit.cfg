SPECIFICATION Spec
CONSTANTS
    MAX_DATA_SIZE = 16
    Message <- MCMessage
    TLS = TRUE
    SPLIT_HEADER = TRUE
    MAX_MESSAGES = 2
INVARIANTS
    FramingExact
CHECK_DEADLOCK FALSE
