SPECIFICATION FairSpec
CONSTANTS
    NumDocs = 1
    Contents = {"a"}
    Uploads = {u1}
    Deletes = {r1}
    MaxDocuments = 1
    MaxRetry = 1
    MaxFaults = 0
CHECK_DEADLOCK FALSE
PROPERTIES ProcessingEnds
