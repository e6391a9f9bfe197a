SPECIFICATION Spec
CONSTANTS
    Requests = {r1, r2}
    Questions = {q1, q2}
    Deletes = {d1, d2}
    HistoryLimit = 2
    MaxFaults = 1
SYMMETRY Symmetry
CHECK_DEADLOCK FALSE
INVARIANTS TypeOK NoRevival NothingLeftBehind CacheInContext TurnKept
