SPECIFICATION FairSpec
CONSTANTS
    t1 = t1
    t2 = t2
    t3 = t3
    p = p
    q = q
    Tasks = {t1, t2}
    Points = {p, q}
    Payload <- MCPayload
    Stamp <- MCStamp
    Workers = {1, 2}
    Beat = 0
    Slots = slots
    Unheld = unheld
    Settings <- MCSettings
    MaxMessages = 1
INVARIANTS
    TypeOK
    NewestImported
    ImportedOnce
PROPERTY
    EventuallyImported
CHECK_DEADLOCK FALSE
