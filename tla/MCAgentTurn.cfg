SPECIFICATION FairSpec
CONSTANTS
    a = a
    x1 = x1
    c1 = c1
    None = None
    Turns <- MCTurns
    Tools <- MCTools
    Calls <- MCCalls
    MaxText = 2
    MaxFinals = 1
    MaxOps = 1
    Repeats = FALSE
    MaxCarried = 1
    Overlap <- MCWaits
    SendFaults = TRUE
INVARIANTS
    FinalStands
    PushedIsFinal
    NoEternalSpinner
    QuietAfterTurn
    CardOfThisTurn
PROPERTIES
    TurnCleansUp
    RefinesConversation
CHECK_DEADLOCK FALSE
