SPECIFICATION Spec
CONSTANTS
    Codes = {single}
    Interactive = {}
    Reusable = {}
    Devices = {d1}
    MaxStatus = 0
    Faults = {}
INVARIANT ProcessedOnce
CHECK_DEADLOCK FALSE
