SPECIFICATION Spec
CONSTANTS
    NumTasks = 1
    MaxRetry = 1
    StaleAfter = 4
    ReclaimCount = 10
    Workers = {1}
    Threads = {1, 2}
    workerOf <- MCOneProcess
    MaxRuntime = 1
    Grace = 3
    Delay = 1
    Handled = {1}
    OrphansSurvive = TRUE
    SerialRecovery = TRUE
    MaxFaults = 2
INVARIANT NeverStaleWhileHeld
