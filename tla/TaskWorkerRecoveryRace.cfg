SPECIFICATION Spec
CONSTANTS
    NumTasks = 1
    MaxRetry = 1
    StaleAfter = 4
    ReclaimCount = 10
    Workers = {1, 2}
    Threads = {1, 2}
    workerOf <- MCPool
    MaxRuntime = 1
    Grace = 3
    Delay = 1
    Handled = {1}
    OrphansSurvive = FALSE
    SerialRecovery = FALSE
    MaxFaults = 1
INVARIANTS OneHolder
