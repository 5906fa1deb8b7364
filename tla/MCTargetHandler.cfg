SPECIFICATION Spec
CONSTANTS
    Wired <- AllPins
    MAX_EDGES = 2
    MAX_FAULTS = 1
INVARIANTS
    TypeOK
    PinsReleased
    LevelKnown
    PrdyReportedOnce
PROPERTY
    ResetBreakAsserts
