SPECIFICATION Spec
CONSTANTS
    NumDocs = 2
    Contents = {a, b}
    Uploads = {u1, u2}
    Deletes = {r1}
    MaxDocuments = 1
    MaxRetry = 1
    MaxFaults = 1
SYMMETRY MCSymmetry
CHECK_DEADLOCK FALSE
INVARIANTS TypeOK NoOrphanVectors IndexedSearchable ActiveHasFile QuotaOvershoot
PROPERTIES TasksFollow
