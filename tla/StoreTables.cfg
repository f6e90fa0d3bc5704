SPECIFICATION Spec
CONSTANTS
    Writes = {w1, w2, w3}
    Base = base
    None = None
    Backend = "NO_HISTORY"
    Kinds = {"create", "bulk", "put", "delete"}
    Chores = {"prune", "truncate", "collect"}
    Discipline = {"delete", "prune", "truncate"}
    Ties = FALSE
    MaxClock = 6
SYMMETRY WriteSymmetry
INVARIANTS LatestStampWins  FilesSurvive
CHECK_DEADLOCK FALSE
