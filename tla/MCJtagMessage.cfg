SPECIFICATION Spec
CONSTANTS
    Commands <- MCCommands
    MAX_COMMANDS = 3
    MAX_DATA_SIZE = 10
INVARIANTS
    TypeOK
    StartsOnCommand
    AnsweredWhole
    TapAsAsked
