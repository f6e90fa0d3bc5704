CONSTANTS
    Events = {1, 2}
    Workers = {w1, w2}
    None = None
    Modes = {"IN_ORDER"}
    Rare = {"delete", "expire"}
    MaxEvents = 1
    MaxPerHeartbeat = 1
    BackoffEvery = 1
    RetryMax = 1
    Poison = {1}
    RetryBound = 1
    MaxWakes = 1
    MaxCrashes = 1
SPECIFICATION FairSpec
PROPERTIES
    EventuallySettled
CHECK_DEADLOCK FALSE
