SPECIFICATION Spec
CONSTANTS
    a = a
    b = b
    g = g
    none = none
    gone = gone
    noref = noref
    Series <- MCSeries
    Keys <- MCKeys
    Groups = {g}
    Perms = {"read", "write"}
    Attrs = {1, 2}
    Backends = {1, 2}
    Absent = none
    NoRef = noref
    Gone = gone
    Clients = {1}
    Scenarios <- IndexedScenarios
    Edits <- MCEdits
    MaxTroubles = 0
INVARIANT
    PushIsAccepted
CHECK_DEADLOCK FALSE
