SPECIFICATION Spec
CONSTANTS
    MAX_DATA_SIZE = 16
    Message <- MCMessage
    TLS = TRUE
    SPLIT_HEADER = FALSE
    MAX_MESSAGES = 4
INVARIANTS
    TypeOK
    FramingExact
    ReadInBounds
CHECK_DEADLOCK FALSE
