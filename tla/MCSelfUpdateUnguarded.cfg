SPECIFICATION Spec
CONSTANTS
    a = a
    b = b
    t = t
    None = None
    Accounts <- MCOneAccount
    Versions <- MCVersions
    Bad <- MCBad
    Wanted = 2
    Turns <- MCTurns
    MaxUpdates = 2
    MaxCrashes = 0
    Faults <- MCNone
PROPERTY FirstBootGuarded
CHECK_DEADLOCK FALSE
