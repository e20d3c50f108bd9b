SPECIFICATION Spec
CONSTANTS
    StreamEnd = 2
    KeyAt <- MCDense
    MaxSyncQueue = 2
    ResetCursors <- MCResets
    DiskFaults <- MCNoFaults
    MaxFrames = 3
INVARIANT ExpiredPosForgotten
