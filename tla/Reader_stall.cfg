INIT ReaderInit
NEXT ReaderNext
CONSTANTS
    StreamChanCap = 2
    PoolCap = 1
INVARIANT StalledReadIsClosed
CHECK_DEADLOCK FALSE
