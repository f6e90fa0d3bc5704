CONSTANTS
    Events = {1, 2}
    Workers = {w1, w2}
    None = None
    Modes = {"IN_ORDER"}
    Rare = {"truncate", "cleanup"}
    MaxEvents = 1
    MaxPerHeartbeat = 1
    BackoffEvery = 2
    RetryMax = 2
    Poison = {}
    RetryBound = 3
    MaxWakes = 1
    MaxCrashes = 1
SPECIFICATION Spec
SYMMETRY Workers_Symmetric
INVARIANTS
    TypeOK
    GuaranteedDelivery
    DuplicatesAccounted
    RetryAccounting
    InOrderDelivery
    NoLockCycle
    InOrderInv
PROPERTIES
    FinalIsFinal
    ImplementsOutbox
CHECK_DEADLOCK FALSE
