SPECIFICATION MCSpec
CONSTANTS
    Uris = {"u", "v", "w", "x", ""}
    Window = 2
    PrefetchAhead = 1
    RefreshEvery = 2
    FailureLimit = 2
    ChanCap = 1
    MaxContent = 3
    MaxRestarts = 2
    MaxFaults = 2
    Times = {1, 3, 9}
    VideoConfigs = {1, 2, 3}
    AudioConfigs = {1}
    FrameBodies = {1}
    FirstBytes <- FlvFirstBytes
    JumpThreshold = 3
    VideoDurationFallback = 2
    AudioDurationFallback = 1
    MaxDedupCacheSize = 3
    DedupWindowMs = 2
    CleanPeriod = 4
    CleanTags = 3
    MaxChunk = 3
    MaxTags = 5
    Inits = {"a", "b", "broken"}
    Tracks = {1, 2}
    DecodeTimes = {2, 5}
    Pids = {1, 2}
    Counters = {0, 15}
    MaxSegments = 6
    MaxTsSegments = 2
INVARIANTS
    InOrder
    InitFirst
    BodiesHaveOneOwner
    OneConfigPerFile
    SmoothTimestamps
    DroppedHasTwin
    MediaUnderInit
PROPERTY CancelCloses
CHECK_DEADLOCK FALSE
