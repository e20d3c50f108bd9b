SPECIFICATION Spec
CONSTANTS
    StreamEnd = 2
    KeyAt <- MCDense
    MaxSyncQueue = 2
    ResetCursors <- MCNoResets
    DiskFaults <- MCSwallowed
    MaxFrames = 3
INVARIANT NoKeyPassed
