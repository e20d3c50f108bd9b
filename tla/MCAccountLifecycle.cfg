SPECIFICATION FairSpec
CONSTANTS
    message = message
    Events <- MCEvents
    MaxChanges = 3
    MaxFailures = 2
    MaxAborts = 2
    Faults <- MCFaults
INVARIANTS
    DeliveredOnce
    EndedIsClean
PROPERTIES
    StopSaves
    AbortEnds
    LateKeysCount
CHECK_DEADLOCK FALSE
