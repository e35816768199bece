SPECIFICATION Spec
CONSTANTS
    Threads = {t1}
    Jobs <- MCJobs
    NoJob = "none"
    Size <- MCSize
    BatchSize = 2
    ScriptOf <- MCScriptOf
    Concurrency <- MCConcurrency
    MaxWorkers = 3
    MaxChild = 1
    ExitCodes <- ExposedExitCodes
    CompletedCodes <- MCCompletedCodes
    Null = null
    NoRow = norow
    MaxFaults = 2
CHECK_DEADLOCK FALSE
INVARIANT FailureIsExposed
