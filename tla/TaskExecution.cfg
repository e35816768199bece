SPECIFICATION LiveSpec
CONSTANTS
    Threads = {t1}
    Jobs <- MCJobs
    NoJob = "none"
    Size <- MCSize
    BatchSize = 2
    ScriptOf <- MCScriptOf
    Concurrency <- MCConcurrency
    MaxWorkers = 3
    MaxChild = 1
    ExitCodes <- MCExitCodes
    CompletedCodes <- MCCompletedCodes
    Null = null
    NoRow = norow
    MaxFaults = 1
CHECK_DEADLOCK FALSE
INVARIANTS
    RunAgrees
    AnsweredAndRecorded
    CompletedRowsAgree
    GaugesReconcile
    BackendIsOfJob
    ScriptConcurrency
PROPERTIES
    AnsweredRowsStay
    ImplementsJobRun
    RunsEnd
