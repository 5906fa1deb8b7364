SPECIFICATION Spec
CONSTANTS
    INVALID_AUTH_MAX_ATTEMPTS = 2
    INVALID_AUTH_PERIOD_NSECS = 3
    INVALID_AUTH_LOCKOUT_NSECS = 2
    START_TIME = 3
    MAX_TIME = 11
    MAX_HISTORY = 6
INVARIANTS
    TypeOK
    BurstLocksOut
    LockoutJustified
PROPERTIES
    NoAcceptDuringLockout
