SPECIFICATION Spec
CONSTANTS
    a = a
    b = b
    t = t
    None = None
    Accounts <- MCAccounts
    Versions <- MCVersions
    Bad <- MCBad
    Wanted = 2
    Turns <- MCTurns
    MaxUpdates = 1
    MaxCrashes = 0
    Faults <- MCNone
PROPERTY RollbackAfterBoots
CHECK_DEADLOCK FALSE
