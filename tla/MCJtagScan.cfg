SPECIFICATION Spec
CONSTANTS
    HISTORY_MAX = 4
    Chains = {"chain0", "chain1"}
    SCAN_CHAIN_0 = "chain0"
    Goals = {"TLR", "RTI", "ShDR", "ShIR", "PauDR", "Ex1DR"}
    Lengths = {1, 2}
    PadValues = {0, 1}
    PadStates = {"TLR"}
    PadChains = {"chain0"}
    DRMAXPADSIZE = 1
    IRMAXPADSIZE = 0
INVARIANTS
    TypeOK
    TapTracked
    DriverTracksTap
    UpdatesAsAsked
