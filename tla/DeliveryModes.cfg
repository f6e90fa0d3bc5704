CONSTANTS
    Events = {1, 2}
    Workers = {w1, w2}
    None = None
    Modes = {"IN_ORDER", "IN_ORDER_NON_BLOCKING"}
    Rare = {}
    MaxEvents = 1
    MaxPerHeartbeat = 1
    BackoffEvery = 1
    RetryMax = 0
    Poison = {1}
    RetryBound = 1
    MaxWakes = 1
    MaxCrashes = 0
SPECIFICATION FairSpec
INVARIANTS
    DuplicatesAccounted
PROPERTIES
    EventuallySettled
CHECK_DEADLOCK FALSE
