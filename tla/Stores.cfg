SPECIFICATION MCSpec
CONSTANTS
    CloudPaths = {"p"}
    MaxIds = 4
    MaxCrashes = 1
    Rooms = {"r1"}
    Title <- SameTitle
    MaxSessions = 2
    MaxClock = 1
    MaxRecoveries = 1
    MaxSegment = 1
    MaxNames = 2
    MaxSegments = 3
    OfferedQn = {10000, 20000}
    MaxOffers = 2
    MaxLeases = 2
    Clients = {"c1", "c2"}
    Endpoints = {"e1"}
    MaxNotes = 2
    SseCap = 1
    MaxGen = 2
    Writers = {"w1", "w2"}
    Syncers = {"s1"}
    SinkCap = 1
    BatchCap = 2
    SubRooms = {"r1", "r2"}
    SubUsers = {"u1"}
    RoomsPerShard = 1
    TickSecs = 10
    MinInterval = 15
    MaxInterval = 60
    MaxShards = 2
INVARIANTS
    CloudTaskKept
    SidecarsMatchVideos
    LeaseKeepsPool
    NoSendOnClosed
    SyncIsComplete
    SnapshotIsStored
PROPERTIES
    DeletionSparesBusy
CHECK_DEADLOCK FALSE
