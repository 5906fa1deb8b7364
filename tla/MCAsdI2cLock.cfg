SPECIFICATION Spec
CONSTANTS
    Buses = {"bus1", "bus2"}
    BusTypes <- Uniform
    OTHER_BUS = "other bus"
    DEFAULT_BUS = "bus1"
    i3C_MAX_DEV_HANDLERS = 2
    MAX_COMMANDS = 3
INVARIANTS
    TransferLocked
