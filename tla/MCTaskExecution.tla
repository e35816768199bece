--------------------------- MODULE MCTaskExecution --------------------------
(* Scenarios of TaskExecution for TLC.  The script "one" has a single      *)
(* instance, the script "two" may run on both workers.                     *)
EXTENDS TaskExecutionInv

MCConcurrency == [one |-> 1, two |-> 2]

\* A job of two batches, the second one not full, and a job of one task.
MCJobs == {"a", "b"}
MCSize == [a |-> 3, b |-> 1]
MCScriptOf == [a |-> "one", b |-> "two"]
MCExitCodes == {-9, 1}
ExposedExitCodes == {0, 1}
MCCompletedCodes == {0}
=============================================================================
