SPECIFICATION Spec
CONSTANTS
    Requests = {r1, r2}
    Questions = {q1}
    Deletes = {d1}
    HistoryLimit = 2
    MaxFaults = 0
CHECK_DEADLOCK FALSE
INVARIANTS DeletedForGood
