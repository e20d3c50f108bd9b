SPECIFICATION Spec
CONSTANTS
    StreamEnd = 2
    KeyAt <- MCSparse
    MaxSyncQueue = 2
    ResetCursors <- MCNoResets
    DiskFaults <- MCNoFaults
    MaxFrames = 3
INVARIANT NoKeyPassed
