SPECIFICATION Spec
CONSTANTS
    message = message
    Events <- MCEvents
    MaxChanges = 0
    MaxFailures = 1
    MaxAborts = 1
    Faults <- MCSync
INVARIANT NothingLeft
CHECK_DEADLOCK FALSE
