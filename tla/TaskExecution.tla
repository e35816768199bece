---------------------------- MODULE TaskExecution ---------------------------
(***************************************************************************)
(* How the tasks of a job get done: the executor threads of MCPServer,     *)
(* each with a Gearman backend of its own (jobs/client.py, tasks/), the    *)
(* Gearman server, and the pool of worker processes of MCPClient (pool.py, *)
(* gearman.py, worker.py, job.py).                                         *)
(*                                                                         *)
(* Task i of job j is <<j, i>>.  A batch is the set of its tasks: no task  *)
(* is in two batches.  The Gearman server is external: it runs a batch on  *)
(* one worker at a time, gives it to another one when that worker          *)
(* disconnects, and may go on with a batch whose client disconnected.      *)
(***************************************************************************)
EXTENDS Integers, FiniteSets

CONSTANTS
    Threads,        \* the executor threads of MCPServer
    Jobs,           \* ClientScriptJob objects, each run once
    NoJob,          \* no job
    Size,           \* [Jobs -> Nat]: how many tasks submit_tasks makes
    BatchSize,      \* TASK_BATCH_SIZE
    ScriptOf,       \* [Jobs -> Scripts]: the client script of a job
    Concurrency,    \* [Scripts -> Nat \ {0}]: its concurrent_instances
    MaxWorkers,     \* WORKERS
    MaxChild,       \* MAX_TASKS_PER_CHILD
    ExitCodes,      \* the exit codes a script may set
    CompletedCodes, \* the exit codes whose job status is "completed"
    Null,           \* no exit code yet
    NoRow,          \* the task has no row
    MaxFaults       \* bound: errors, lost connections, deaths and restarts

TasksOf(j) == {j} \X (1 .. Size[j])
Tasks == UNION {TasksOf(j) : j \in Jobs}
Scripts == DOMAIN Concurrency

ASSUME TaskAssumption ==
    /\ NoJob \notin Jobs
    /\ Size \in [Jobs -> Nat]
    /\ BatchSize \in Nat \ {0}
    /\ ScriptOf \in [Jobs -> Scripts]
    /\ Concurrency \in [Scripts -> Nat \ {0}] /\ IsFiniteSet(Scripts)
    /\ MaxWorkers \in Nat \ {0}
    /\ MaxChild \in Nat \ {0}
    /\ ExitCodes \subseteq Int
    /\ CompletedCodes \subseteq Int
    /\ {Null, NoRow} \cap Int = {} /\ Null # NoRow
    /\ MaxFaults \in Nat

(***************************************************************************)
(* The pool starts at most as many workers as the widest script wants, and *)
(* deals every script to the first workers until it has its instances.     *)
(***************************************************************************)
Widest == CHOOSE n \in {Concurrency[s] : s \in Scripts} :
              \A s \in Scripts : Concurrency[s] <= n
PoolSize == IF MaxWorkers < Widest THEN MaxWorkers ELSE Widest
Workers == 0 .. PoolSize - 1

Remaining[i \in 0 .. PoolSize] ==
    IF i = 0 THEN Concurrency
    ELSE [s \in Scripts |->
              IF Remaining[i - 1][s] > 0 THEN Remaining[i - 1][s] - 1 ELSE 0]
\* Mutation of ScriptsOf: every worker registers every script.
ScriptsOfAll(w) == Scripts
ScriptsOf(w) == {s \in Scripts : Remaining[w][s] > 0}

VARIABLES
    jobRow,     \* [Jobs -> JobStatuses]: the row of the job
    row,        \* [Tasks -> Codes]: exitcode in the row of the task
    got,        \* [Tasks -> Codes]: task.exit_code in MCPServer
    up,         \* is MCPServer running?
    pc,         \* [Threads -> Pcs]
    job,        \* [Threads -> Jobs \cup {NoJob}]: the job a thread runs
    made,       \* [Threads -> Nat]: how many of its tasks are made
    open,       \* [Threads -> batch]: current_task_batches[job]
    sent,       \* [Threads -> set of batches]: pending_gearman_jobs[job]
    arrived,    \* [Threads -> set of batches]: answers read in the last poll
    collected,  \* [Threads -> set of batches]: batch.collected
    count,      \* [Threads -> Nat]: completed_request_count
    exit,       \* [Threads -> Int]: job.exit_code
    pendingGauge,   \* gearman_pending_jobs_gauge
    activeGauge,    \* gearman_active_jobs_gauge
    unacked,    \* batches sent to the Gearman server and not accepted yet
    queued,     \* batches no worker has taken
    completed,  \* batches answered with results
    failed,     \* batches answered with a failure
    wpc,        \* [Workers -> WorkerPcs]
    at,         \* [Workers -> batch]: the batch a worker runs
    code,       \* [Tasks -> Codes]: the exit code the script set last
    unsaved,    \* [Workers -> tasks]: rows the worker has still to update
    processed,  \* [Workers -> Nat]: jobs_processed_count
    shutdown,   \* shutdown_event of the pool
    faults      \* how many faults happened

database == <<jobRow, row>>
batches == <<open, sent, arrived, collected, count>>
gauges == <<pendingGauge, activeGauge>>
thread == <<pc, job, made, exit>>
gearmand == <<unacked, queued, completed, failed>>
client == <<wpc, at, code, unsaved, processed, shutdown>>
server == <<up, got, thread, batches, gauges>>
vars == <<database, server, gearmand, client, faults>>

JobStatuses == {"none", "executing", "completed", "failed"}
Codes == Int \cup {Null, NoRow}
Pcs == {"idle", "submit", "log", "send", "accept", "poll", "collect",
        "status", "next", "reset", "markJob", "markTasks"}
WorkerPcs == {"down", "idle", "script", "save"}

Init ==
    /\ jobRow = [j \in Jobs |-> "none"]
    /\ row = [t \in Tasks |-> NoRow]
    /\ got = [t \in Tasks |-> Null]
    /\ up = TRUE
    /\ pc = [th \in Threads |-> "idle"]
    /\ job = [th \in Threads |-> NoJob]
    /\ made = [th \in Threads |-> 0]
    /\ open = [th \in Threads |-> {}]
    /\ sent = [th \in Threads |-> {}]
    /\ arrived = [th \in Threads |-> {}]
    /\ collected = [th \in Threads |-> {}]
    /\ count = [th \in Threads |-> 0]
    /\ exit = [th \in Threads |-> 0]
    /\ pendingGauge = 0
    /\ activeGauge = 0
    /\ unacked = {} /\ queued = {} /\ completed = {} /\ failed = {}
    /\ wpc = [w \in Workers |-> "idle"]
    /\ at = [w \in Workers |-> {}]
    /\ code = [t \in Tasks |-> Null]
    /\ unsaved = [w \in Workers |-> {}]
    /\ processed = [w \in Workers |-> 0]
    /\ shutdown = FALSE
    /\ faults = 0

Goto(th, l) == pc' = [pc EXCEPT ![th] = l]
Fault == faults < MaxFaults /\ faults' = faults + 1

-----------------------------------------------------------------------------
(* A thread of MCPServer: ClientScriptJob.run                              *)

StartJob(th, j) ==
    /\ up /\ pc[th] = "idle" /\ jobRow[j] = "none"
    /\ jobRow' = [jobRow EXCEPT ![j] = "executing"]
    /\ job' = [job EXCEPT ![th] = j]
    /\ made' = [made EXCEPT ![th] = 0]
    /\ exit' = [exit EXCEPT ![th] = 0]
    /\ Goto(th, "submit")
    /\ UNCHANGED <<row, got, up, batches, gauges, gearmand, client, faults>>

\* One more task goes to the current batch, which is sent when it is full.
SubmitTask(th) ==
    /\ pc[th] = "submit" /\ made[th] < Size[job[th]]
    /\ made' = [made EXCEPT ![th] = @ + 1]
    /\ open' = [open EXCEPT ![th] = @ \cup {<<job[th], made[th] + 1>>}]
    /\ pendingGauge' = pendingGauge + (IF open[th] = {} THEN 1 ELSE 0)
    /\ Goto(th, IF Cardinality(open'[th]) % BatchSize = 0 THEN "log" ELSE "submit")
    /\ UNCHANGED <<database, got, up, job, exit, sent, arrived, collected, count,
                   activeGauge, gearmand, client, faults>>

\* All tasks are made: wait_for_results sends what is left over, and has
\* nothing to wait for when there was no task at all.
WaitForResults(th) ==
    /\ pc[th] = "submit" /\ made[th] = Size[job[th]]
    /\ Goto(th, IF open[th] # {} THEN "log"
                ELSE IF sent[th] = {} THEN "status" ELSE "accept")
    /\ UNCHANGED <<database, got, up, job, made, exit, batches, gauges, gearmand,
                   client, faults>>

\* The rows are created before the batch is sent, as MCPClient updates them.
LogBatch(th) ==
    /\ pc[th] = "log"
    /\ row' = [t \in Tasks |-> IF t \in open[th] THEN Null ELSE row[t]]
    /\ Goto(th, "send")
    /\ UNCHANGED <<jobRow, got, up, job, made, exit, batches, gauges, gearmand,
                   client, faults>>

\* submit_job, which sends again on a lost connection under the same unique, is
\* one step; its answer by gearmand is waited for in Accepted.
SendBatch(th) ==
    /\ pc[th] = "send"
    /\ unacked' = unacked \cup {open[th]}
    /\ activeGauge' = activeGauge + 1
    /\ pendingGauge' = pendingGauge - 1
    /\ sent' = [sent EXCEPT ![th] = @ \cup {open[th]}]
    /\ open' = [open EXCEPT ![th] = {}]
    /\ Goto(th, "submit")
    /\ UNCHANGED <<database, got, up, job, made, exit, arrived, collected, count,
                   queued, completed, failed, client, faults>>

\* wait_until_jobs_accepted returns.
Accepted(th) ==
    /\ pc[th] = "accept" /\ sent[th] \cap unacked = {}
    /\ Goto(th, "poll")
    /\ UNCHANGED <<database, got, up, job, made, exit, batches, gauges, gearmand,
                   client, faults>>

\* Mutation of Poll: batches that are collected already are looked at again.
PollAgain(th) ==
    /\ pc[th] = "poll"
    /\ \E new \in SUBSET (sent[th] \cap (completed \cup failed)) :
           /\ new # {}
           /\ arrived' = [arrived EXCEPT ![th] = new]
    /\ Goto(th, "collect")
    /\ UNCHANGED <<database, got, up, job, made, exit, open, sent, collected, count,
                   gauges, gearmand, client, faults>>

\* One poll may read the answers of several batches.
Poll(th) ==
    /\ pc[th] = "poll"
    /\ \E new \in SUBSET ((sent[th] \ collected[th]) \cap (completed \cup failed)) :
           /\ new # {}
           /\ arrived' = [arrived EXCEPT ![th] = new]
    /\ Goto(th, "collect")
    /\ UNCHANGED <<database, got, up, job, made, exit, open, sent, collected, count,
                   gauges, gearmand, client, faults>>

\* The exit code a batch gives its task: MCPClient's, or 1 for a failure.
CodeIn(b, t) == IF b \in failed THEN 1 ELSE code[t]
\* Mutation of RaisesTo: the code of the batches before is forgotten.
RaisesFromZero(b, old, c) ==
    /\ c >= 0 /\ \A t \in b : CodeIn(b, t) <= c
    /\ c = 0 \/ \E t \in b : CodeIn(b, t) = c
\* Mutation of RaisesTo: the exit code is that of the last task.
RaisesToLast(b, old, c) == \E t \in b : CodeIn(b, t) = c

\* c is the largest of 0, the code so far and those of the tasks of b.
RaisesTo(b, old, c) ==
    /\ c >= old
    /\ \A t \in b : CodeIn(b, t) <= c
    /\ c = old \/ \E t \in b : CodeIn(b, t) = c

\* Mutation of Marked: bulk_mark_failed updates every row of the batch.
MarkedAnew(b, t) == IF b \in failed /\ t \in b THEN 1 ELSE row[t]
\* The row of t when batch b is collected: those of a failed batch are marked,
\* unless MCPClient had come to write them.
Marked(b, t) == IF b \in failed /\ t \in b /\ row[t] = Null THEN 1 ELSE row[t]

\* Mutation of GoesOn: one poll is taken to bring all the answers.
GoesOnOnce(th, b) == arrived[th] # {b}
\* Is there more to collect, or to wait for, after batch b?
GoesOn(th, b) == arrived[th] # {b} \/ count[th] + 1 < Cardinality(sent[th])

\* The results of one batch are copied to its tasks and yielded, in one step: an
\* exception between two tasks of it is Raise before it or after it, and either
\* way ResetBackend uncounts the batch and the job fails.  The last batch ends
\* the wait.
Collect(th) ==
    /\ pc[th] = "collect"
    /\ \E b \in arrived[th] :
        /\ got' = [t \in Tasks |-> IF t \in b THEN CodeIn(b, t) ELSE got[t]]
        /\ row' = [t \in Tasks |-> Marked(b, t)]
        /\ \E c \in {0, exit[th]} \cup {CodeIn(b, t) : t \in b} :
               /\ RaisesTo(b, exit[th], c)
               /\ exit' = [exit EXCEPT ![th] = c]
        /\ arrived' = [arrived EXCEPT ![th] = @ \ {b}]
        /\ activeGauge' = activeGauge - 1
        /\ IF GoesOn(th, b)
           THEN /\ collected' = [collected EXCEPT ![th] = @ \cup {b}]
                /\ count' = [count EXCEPT ![th] = @ + 1]
                /\ Goto(th, IF arrived[th] # {b} THEN "collect" ELSE "poll")
                /\ UNCHANGED sent
           ELSE /\ collected' = [collected EXCEPT ![th] = {}]
                /\ count' = [count EXCEPT ![th] = 0]
                /\ sent' = [sent EXCEPT ![th] = {}]
                /\ Goto(th, "status")
    /\ UNCHANGED <<jobRow, up, job, made, open, pendingGauge, gearmand, client,
                   faults>>

StatusOf(c) == IF c \in CompletedCodes THEN "completed" ELSE "failed"

UpdateStatus(th) ==
    /\ pc[th] = "status"
    /\ jobRow' = [jobRow EXCEPT ![job[th]] = StatusOf(exit[th])]
    /\ Goto(th, "next")
    /\ UNCHANGED <<row, got, up, job, made, exit, batches, gauges, gearmand, client,
                   faults>>

\* run returns the next job of the chain.
ReturnNext(th) ==
    /\ pc[th] = "next"
    /\ job' = [job EXCEPT ![th] = NoJob]
    /\ Goto(th, "idle")
    /\ UNCHANGED <<database, got, up, made, exit, batches, gauges, gearmand, client,
                   faults>>

\* The database, the Gearman client or the workflow raises inside run.
Raise(th) ==
    /\ pc[th] \in {"submit", "log", "send", "accept", "poll", "collect",
                   "status", "next"}
    /\ Fault
    /\ Goto(th, "reset")
    /\ UNCHANGED <<database, got, up, job, made, exit, batches, gauges, gearmand,
                   client>>

\* The Gearman server notices that the client of some batches is gone: those
\* no worker has taken are forgotten, or run all the same.
Disconnect(bs) ==
    \E kept \in SUBSET (bs \cap (unacked \cup queued)) :
        /\ queued' = (queued \ bs) \cup kept
        /\ unacked' = unacked \ bs
        /\ UNCHANGED <<completed, failed>>

\* Mutation of LeftActive: the batches left behind stay in the gauge.
LeftActiveForgotten(th) == 0
\* The batches of a backend that nobody will collect.
LeftActive(th) == Cardinality(sent[th] \ collected[th])
\* Mutation of ClearSent: the backend of the thread is kept.
KeepSent(th) == sent' = sent
ClearSent(th) == sent' = [sent EXCEPT ![th] = {}]

\* reset_task_backend: the next job of this thread gets a new backend.
ResetBackend(th) ==
    /\ pc[th] = "reset"
    /\ Disconnect(sent[th])
    /\ pendingGauge' = pendingGauge - (IF open[th] # {} THEN 1 ELSE 0)
    /\ activeGauge' = activeGauge - LeftActive(th)
    /\ open' = [open EXCEPT ![th] = {}]
    /\ ClearSent(th)
    /\ arrived' = [arrived EXCEPT ![th] = {}]
    /\ collected' = [collected EXCEPT ![th] = {}]
    /\ count' = [count EXCEPT ![th] = 0]
    /\ Goto(th, "markJob")
    /\ UNCHANGED <<database, got, up, job, made, exit, client, faults>>

\* _handle_job_failure runs each of its steps, whether or not others raise.
MarkJobFailed(th) ==
    /\ pc[th] = "markJob"
    /\ \/ jobRow' = [jobRow EXCEPT ![job[th]] = "failed"] /\ UNCHANGED faults
       \/ Fault /\ UNCHANGED jobRow
    /\ Goto(th, "markTasks")
    /\ UNCHANGED <<row, got, up, job, made, exit, batches, gauges, gearmand, client>>

MarkTasksFailed(th) ==
    /\ pc[th] = "markTasks"
    /\ \/ /\ row' = [t \in Tasks |->
                        IF t \in TasksOf(job[th]) /\ row[t] = Null THEN 1 ELSE row[t]]
          /\ UNCHANGED faults
       \/ Fault /\ UNCHANGED row
    /\ job' = [job EXCEPT ![th] = NoJob]
    /\ Goto(th, "idle")
    /\ UNCHANGED <<jobRow, got, up, made, exit, batches, gauges, gearmand, client>>

\* MCPServer dies; its memory and its connections go with it.
Crash ==
    /\ up /\ Fault
    /\ up' = FALSE
    /\ Disconnect(UNION {sent[th] : th \in Threads})
    /\ pc' = [th \in Threads |-> "idle"]
    /\ job' = [th \in Threads |-> NoJob]
    /\ open' = [th \in Threads |-> {}]
    /\ sent' = [th \in Threads |-> {}]
    /\ arrived' = [th \in Threads |-> {}]
    /\ collected' = [th \in Threads |-> {}]
    /\ count' = [th \in Threads |-> 0]
    /\ pendingGauge' = 0
    /\ activeGauge' = 0
    /\ UNCHANGED <<database, got, made, exit, client>>

\* MCPServer starts again and fails what it finds unfinished.
CleanUp ==
    /\ ~ up
    /\ up' = TRUE
    /\ jobRow' = [j \in Jobs |-> IF jobRow[j] = "executing" THEN "failed" ELSE jobRow[j]]
    /\ row' = [t \in Tasks |-> IF row[t] = Null THEN -1 ELSE row[t]]
    /\ UNCHANGED <<got, thread, batches, gauges, gearmand, client, faults>>

-----------------------------------------------------------------------------
(* The Gearman server and the pool of workers                              *)

Accept(b) ==
    /\ b \in unacked
    /\ unacked' = unacked \ {b}
    /\ queued' = queued \cup {b}
    /\ UNCHANGED <<database, server, completed, failed, client, faults>>

\* A worker takes a batch of one of the scripts it registered.
Grab(w, b) ==
    /\ wpc[w] = "idle" /\ b \in queued
    /\ \E t \in b : ScriptOf[t[1]] \in ScriptsOf(w)
    /\ queued' = queued \ {b}
    /\ at' = [at EXCEPT ![w] = b]
    /\ wpc' = [wpc EXCEPT ![w] = "script"]
    /\ UNCHANGED <<database, server, unacked, completed, failed, code, unsaved,
                   processed, shutdown, faults>>

\* job_module.call(jobs): the script sets an exit code for each task.
RunScript(w) ==
    /\ wpc[w] = "script"
    /\ \E result \in [at[w] -> ExitCodes] :
           code' = [t \in Tasks |-> IF t \in at[w] THEN result[t] ELSE code[t]]
    /\ unsaved' = [unsaved EXCEPT ![w] = at[w]]
    /\ wpc' = [wpc EXCEPT ![w] = "save"]
    /\ UNCHANGED <<database, server, gearmand, at, processed, shutdown, faults>>

\* update_task_status, in the order of the tasks.
SaveTask(w) ==
    /\ wpc[w] = "save"
    /\ \E t \in unsaved[w] :
           /\ \A u \in unsaved[w] : t[2] <= u[2]
           /\ row' = [row EXCEPT ![t] = code[t]]
           /\ unsaved' = [unsaved EXCEPT ![w] = @ \ {t}]
    /\ UNCHANGED <<jobRow, server, gearmand, wpc, at, code, processed, shutdown, faults>>

\* after_poll: the worker goes on, or leaves its loop and exits.
AfterPoll(w, done) ==
    wpc' = [wpc EXCEPT ![w] = IF shutdown \/ done >= MaxChild THEN "down" ELSE "idle"]

AnswerBatch(w) ==
    /\ wpc[w] = "save" /\ unsaved[w] = {}
    /\ completed' = completed \cup {at[w]}
    /\ at' = [at EXCEPT ![w] = {}]
    /\ processed' = [processed EXCEPT ![w] = @ + 1]
    /\ AfterPoll(w, processed'[w])
    /\ UNCHANGED <<database, server, unacked, queued, failed, code, unsaved, shutdown,
                   faults>>

\* The client script or the database raises.  bulk_mark_failed marks every row
\* of the batch when the script did, those of an earlier run included; what the
\* database refuses afterwards is not marked.
FailBatch(w) ==
    /\ \/ /\ wpc[w] = "script" /\ UNCHANGED faults
          /\ row' = [t \in Tasks |-> IF t \in at[w] THEN 1 ELSE row[t]]
       \/ /\ wpc[w] = "script" \/ (wpc[w] = "save" /\ unsaved[w] # {})
          /\ Fault /\ UNCHANGED row
    /\ failed' = failed \cup {at[w]}
    /\ at' = [at EXCEPT ![w] = {}]
    /\ unsaved' = [unsaved EXCEPT ![w] = {}]
    /\ AfterPoll(w, processed[w])
    /\ UNCHANGED <<jobRow, server, unacked, queued, completed, code, processed,
                   shutdown>>

\* An idle worker notices the shutdown event.
LeaveIdle(w) ==
    /\ wpc[w] = "idle" /\ shutdown
    /\ wpc' = [wpc EXCEPT ![w] = "down"]
    /\ UNCHANGED <<database, server, gearmand, at, code, unsaved, processed, shutdown,
                   faults>>

\* The process is gone; the Gearman server gives its batch to another worker,
\* unless no client waits for it any more.
Kill(w) ==
    /\ wpc[w] # "down"
    /\ wpc' = [wpc EXCEPT ![w] = "down"]
    /\ at' = [at EXCEPT ![w] = {}]
    /\ unsaved' = [unsaved EXCEPT ![w] = {}]
    /\ \/ queued' = queued \cup ({at[w]} \ {{}})
       \/ /\ \A th \in Threads : at[w] \notin sent[th]
          /\ UNCHANGED queued
    /\ UNCHANGED <<database, server, unacked, completed, failed, code, processed,
                   shutdown>>

Die(w) == Kill(w) /\ Fault

\* WorkerPool.stop waits a moment for each worker and terminates the others.
StopPool ==
    /\ ~ shutdown /\ Fault
    /\ shutdown' = TRUE
    /\ UNCHANGED <<database, server, gearmand, wpc, at, code, unsaved, processed>>

Terminate(w) == shutdown /\ Kill(w) /\ UNCHANGED faults

\* MCPClient is started again.
StartPool ==
    /\ shutdown /\ \A w \in Workers : wpc[w] = "down"
    /\ shutdown' = FALSE
    /\ wpc' = [w \in Workers |-> "idle"]
    /\ processed' = [w \in Workers |-> 0]
    /\ UNCHANGED <<database, server, gearmand, at, code, unsaved, faults>>

\* Mutation of RestartExited: only an empty pool is filled again.
RestartEmptied ==
    /\ ~ shutdown /\ \A w \in Workers : wpc[w] = "down"
    /\ wpc' = [w \in Workers |-> "idle"]
    /\ processed' = [w \in Workers |-> 0]
    /\ UNCHANGED <<database, server, gearmand, at, code, unsaved, shutdown, faults>>

\* _restart_exited_workers, until the pool is stopped.
RestartExited ==
    /\ ~ shutdown /\ \E w \in Workers : wpc[w] = "down"
    /\ wpc' = [w \in Workers |-> IF wpc[w] = "down" THEN "idle" ELSE wpc[w]]
    /\ processed' = [w \in Workers |-> IF wpc[w] = "down" THEN 0 ELSE processed[w]]
    /\ UNCHANGED <<database, server, gearmand, at, code, unsaved, shutdown, faults>>

-----------------------------------------------------------------------------
RunStep(th) ==
    \/ SubmitTask(th) \/ WaitForResults(th) \/ LogBatch(th) \/ SendBatch(th)
    \/ Accepted(th) \/ Poll(th) \/ Collect(th) \/ UpdateStatus(th)
    \/ ReturnNext(th)
FailureStep(th) == ResetBackend(th) \/ MarkJobFailed(th) \/ MarkTasksFailed(th)
ThreadStep(th) == RunStep(th) \/ FailureStep(th)

Take(w) == \E b \in queued : Grab(w, b)
Work(w) ==
    \/ RunScript(w) \/ SaveTask(w) \/ AnswerBatch(w) \/ LeaveIdle(w) \/ Terminate(w)
AcceptAny == \E b \in unacked : Accept(b)

Next ==
    \/ \E th \in Threads : ThreadStep(th) \/ Raise(th)
    \/ \E th \in Threads, j \in Jobs : StartJob(th, j)
    \/ \E w \in Workers : Take(w) \/ Work(w) \/ FailBatch(w) \/ Die(w)
    \/ AcceptAny \/ StopPool \/ StartPool \/ RestartExited
    \/ Crash \/ CleanUp

\* Threads, the Gearman server and workers make progress; the pool is
\* maintained every second; a supervisor starts the two programs again.
Fairness ==
    /\ \A th \in Threads : WF_vars(ThreadStep(th))
    /\ \A w \in Workers : WF_vars(Take(w)) /\ WF_vars(Work(w))
    /\ WF_vars(AcceptAny) /\ WF_vars(StartPool) /\ WF_vars(RestartExited)
    /\ WF_vars(CleanUp)

Spec == Init /\ [][Next]_vars
LiveSpec == Spec /\ Fairness
=============================================================================
