SPECIFICATION FairSpec
CONSTANTS
    a = a
    b = b
    g = g
    none = none
    gone = gone
    noref = noref
    Series <- MCSeries
    Keys <- MCKeys
    Groups = {g}
    Perms = {"read", "write"}
    Attrs = {1, 2}
    Backends = {1, 2}
    Absent = none
    NoRef = noref
    Gone = gone
    Clients = {1, 2}
    Scenarios <- MCScenarios
    Edits <- MCEdits
    MaxTroubles = 1
INVARIANTS
    TypeOK
    
    
    UndisturbedIsExact
    PushIsAccepted
    
    KeptSurvive

    
CHECK_DEADLOCK FALSE
