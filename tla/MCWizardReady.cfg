SPECIFICATION Spec
CONSTANTS
    MaxProcesses = 4
    MaxRounds = 2
    Faults = {}
PROPERTY
    ReadyIsNew
CHECK_DEADLOCK FALSE
