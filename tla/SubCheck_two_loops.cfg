SPECIFICATION FairSpec
CONSTANTS
    Shards = {"s0"}
    Configs <- TwoConfigs
    MaxSessions = 1
    MaxAttempts = 2
    MaxRestarts = 1
INVARIANTS NothingSkipped
PROPERTIES EventuallySettled
