SPECIFICATION FairSpec
CONSTANTS
    None = None
    MaxBots = 3
    MaxRooms = 11
    MaxFailures = 1
    MaxResets = 1
    MaxCommands = 2
    Faults <- MCFaults
INVARIANTS
    DuplicatesHaveACause
    WorkspaceLinked
    OnboardedUsable
    ListedIsLive
    ServesOwnRooms
PROPERTIES
    SetupConverges
CHECK_DEADLOCK FALSE
