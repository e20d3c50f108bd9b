SPECIFICATION Spec
CONSTANTS
    message = message
    Events <- MCEvents
    MaxChanges = 2
    MaxFailures = 1
    MaxAborts = 0
    Faults <- MCSync
PROPERTY StoreNeverGoesBack
CHECK_DEADLOCK FALSE
