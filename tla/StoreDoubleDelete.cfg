SPECIFICATION Spec
CONSTANTS
    Writes = {w1, w2, w3}
    Base = base
    None = None
    Backend = "FLAT_HISTORY"
    Kinds = {"put", "delete"}
    Chores = {}
    Discipline = {}
    Ties = FALSE
    MaxClock = 6
SYMMETRY WriteSymmetry
INVARIANTS LatestStampWins
CHECK_DEADLOCK FALSE
