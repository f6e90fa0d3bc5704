SPECIFICATION Spec
CONSTANTS
    t1 = t1
    t2 = t2
    t3 = t3
    p = p
    q = q
    Tasks = {t1, t2, t3}
    Points = {p, q}
    Payload <- MCPayload
    Stamp <- MCStamp
    Workers = {1, 2}
    Beat = 0
    Slots = slots
    Unheld = unheld
    Settings <- OneSlot
    MaxMessages = 1
INVARIANT
    LimitHolds
CHECK_DEADLOCK FALSE
