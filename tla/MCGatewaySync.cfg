SPECIFICATION Spec
CONSTANTS
    StreamEnd = 2
    KeyAt <- MCSparse
    MaxSyncQueue = 2
    ResetCursors <- MCResets
    DiskFaults <- MCFaults
    MaxFrames = 3
INVARIANTS
    AckedKeysSaved
    CursorKeysSaved
    EchoExact
PROPERTIES
    RefinesCustody
