SPECIFICATION Spec
CONSTANTS
    a = a
    x1 = x1
    c1 = c1
    None = None
    Turns <- MCTurns
    Tools <- MCNoTools
    Calls <- MCNoCalls
    MaxText = 2
    MaxFinals = 1
    MaxOps = 1
    Repeats = FALSE
    MaxCarried = 1
    Overlap <- MCWaits
    SendFaults = FALSE
INVARIANT FinalPushed
CHECK_DEADLOCK FALSE
