SPECIFICATION Spec
CONSTANTS
    Writes = {w1, w2, w3}
    Base = base
    None = None
    Backend = "FLAT_HISTORY"
    Kinds = {"bulk", "put", "patch", "delete"}
    Chores = {"prune", "truncate"}
    Discipline = {"delete", "prune"}
    Ties = TRUE
    MaxClock = 4
SYMMETRY WriteSymmetry
INVARIANTS TypeOK LatestStampWins LaterRequestWins HistoryAgrees
CHECK_DEADLOCK FALSE
