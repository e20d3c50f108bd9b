SPECIFICATION Spec
CONSTANTS
    None = None
    MaxBots = 1
    MaxRooms = 3
    MaxFailures = 0
    MaxResets = 0
    MaxCommands = 0
    Faults <- MCNone
INVARIANT
    MigratedCanPair
CHECK_DEADLOCK FALSE
