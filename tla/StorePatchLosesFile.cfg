SPECIFICATION Spec
CONSTANTS
    Writes = {w1, w2, w3}
    Base = base
    None = None
    Backend = "NO_HISTORY"
    Kinds = {"bulk", "patch"}
    Chores = {"collect"}
    Discipline = {"delete", "prune", "truncate"}
    Ties = FALSE
    MaxClock = 6
SYMMETRY WriteSymmetry
INVARIANTS FilesSurvive
CHECK_DEADLOCK FALSE
