SPECIFICATION FairSpec
CONSTANTS
    MaxBytes = 6
    ChunkSizes = {1, 3}
    ChanCap = 2
    BufferSize = 3
    Threshold = 3
    PendingLimit = 5
    MinFlush = 2
    HotWindow = 1
    MinRelease = 1
    Sequential = TRUE
    Faults = TRUE
INVARIANTS NoDuplicates CloseIsComplete ReleaseBehindDisk
PROPERTY CloseReturns
CHECK_DEADLOCK FALSE
