SPECIFICATION FairSpec
CONSTANTS
    NumTasks = 1
    MaxRetry = 1
    StaleAfter = 4
    ReclaimCount = 10
    Workers = {1}
    Threads = {1}
    workerOf <- MCOneProcess
    MaxRuntime = 1
    Grace = 3
    Delay = 1
    Handled = {1}
    OrphansSurvive = FALSE
    SerialRecovery = TRUE
    MaxFaults = 1

PROPERTIES FailedOnlyWhenExhausted
