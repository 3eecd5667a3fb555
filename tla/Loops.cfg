SPECIFICATION MCSpec
CONSTANTS
    Participants = {"a", "b", "c"}
    MaxLoops = 2
    StreamChanCap = 2
    PoolCap = 1
    Accounts = {"a"}
    InitRequests = {"r1", "r2"}
    MaxLogins = 2
    MaxRestarts = 1
    MsgCap = 2
    MaxEvents = 2
    MaxFrags = 4
    Callers = {"k1", "k2"}
    DegradeThreshold = 2
    ProbeSuccessThreshold = 2
    MaxChanges = 2
    Batches = {"b1"}
INVARIANTS
    SomebodyTicks
PROPERTIES
    EveryoneServed
    StreamReaderEnds
    QRSettles
    ConnectionEnds
    AnonymousAgain
    
CHECK_DEADLOCK FALSE
