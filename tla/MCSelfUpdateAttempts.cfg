SPECIFICATION Spec
CONSTANTS
    a = a
    b = b
    t = t
    None = None
    Accounts <- MCOneAccount
    Versions <- MCVersions
    Bad <- MCBad
    Wanted = 2
    Turns <- MCTurns
    MaxUpdates = 2
    MaxCrashes = 1
    Faults <- MCOnceStarted
PROPERTIES
    RollbackAfterAttempts
CHECK_DEADLOCK FALSE
