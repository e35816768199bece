# TLA+ models of ambox (Archivematica)

Specifications of the concurrent core of the processing server, checked with TLC
and, where the text below says so, proved with TLAPS. Paths are relative to
`src/src/archivematica/` of the repository; `queues.py`, `packages.py`, `mcp.py`,
`rpc_server.py`, `watch_dirs.py`, `jobs/` and `tasks/` are under `MCPServer/server/`,
`pool.py`, `gearman.py`, `worker.py` and `job.py` under `MCPClient/client/`.

## 1. The system

Archivematica takes *transfers* (directories of digital objects) through a workflow
of some hundreds of links and turns them into archival packages (SIP, AIP) and
access packages (DIP). Three long-running programs do it:

- **MCPServer** runs the workflow. It decides which package is worked on, creates
  one *job* per workflow link and sends the job's *tasks* (one per file, usually) in
  batches to gearmand.
- **MCPClient** takes batches from gearmand, in a pool of worker processes, and runs
  the client scripts. Scripts move packages about the file system; some leave a
  package in a *watched directory*, from which MCPServer starts the next chain.
- **Dashboard** is the web front end and API. It calls MCPServer by RPC over
  gearmand and reads the common MySQL database.

### Components, state, operations

| Component | State | Operations | What makes it correct |
|---|---|---|---|
| Package queue (`queues.py`) | `active_packages` and its lock, `job_queue` (bounded by CONCURRENT_PACKAGES), three deferred queues (bounded by 4096), `waiting_choices` and its lock, futures and their callbacks | `schedule_job`, `queue_next_job`, `activate_package`, `deactivate_package`, `process_one_job`, the job, package and failure callbacks, `await_decision`, `decide` | a job runs once and after its predecessor; the throttle; slots are given back; a failed package is not marked done; a deferred job is started some day; the signal ends the loop |
| MCPServer main (`mcp.py`) | `shutdown_event`, the executor, threads | `main`, `signal_handler`, `watched_dir_handler` | threads end; nothing is lost at a shutdown that is not marked so |
| Transfer submission (`packages.py`) | rows of transfers, staging directories | `create_package`, the start of an approved transfer, `cleanup_old_db_entries` | a transfer that was accepted is started or marked failed |
| Idempotency keys (`dashboard/main/idempotency.py`) | rows of `IdempotencyRecord` | `reserve_or_replay`, `complete`, `release`, purge of expired rows | one transfer per key, truthful answers, no call hangs |
| Jobs and chains (`jobs/`) | job rows, `current_link`, `exit_code` | `run`, `decide`, `__next__`, `cleanup_old_db_entries` | the next link follows the exit code; a failed job is recorded |
| Gearman backend (`tasks/backends/gearman_backend.py`) | per thread: the open batch and the sent batches of a job, what was collected; two gauges | `submit_task`, `wait_for_results`, `shutdown` | every task is collected once, whatever order batches end in; rows, exit code and job status agree; nothing of a failed job reaches the next one |
| Watched directories (`watch_dirs.py`) | known paths or inotify watches | poll, inotify | every package is reported in the end, and once per life of MCPServer |
| RPC server (`rpc_server.py`) | gearman worker per thread | approve, create, status queries | answers match the state of queue and database |
| Workers (`MCPClient/client/`) | worker processes, log and metrics queues | start, restart on exit, shutdown, run a batch | a script runs on no more workers than its `concurrent_instances`; an exited worker is replaced |
| Transfer source retrieval (`archivematicaCommon/transfer_source_retrieval.py`) | staging and shared directories | plan, copy, move | no retrieval overwrites another |
| Processing monitor (`useProcessingMonitor.ts`, `ProcessMonitor.vue` of the dashboard's front end) | two timers, requests under way, units and jobs shown, choices | poll, expand, choose, remove | polling goes on; what is shown never goes back; a decision reaches the user |
| Purge (`purge_transient_processing_data.py`) | rows of old packages and keys | purge | nothing that is still worked on is deleted |
| Workflow, dashboard views, FPR, rights, accounts, search, storage service client, client scripts | data and request code | | not modelled, see section 8 |

### Interaction

```
 dashboard --RPC--> RPC threads --+                    +--> executor threads: job.run --gearman--> MCPClient
                                  +--> package queue --+         |   callbacks of the future
 watched directories -> WatchDirs +         ^                    v
                                            +---- main thread (work) <- schedule_job / queue_next_job
```

All threads of MCPServer share the package queue. A call into it comes from the
watched-directory thread, an RPC thread, an executor thread (a callback, or the start
of a submitted transfer) or the main thread: `add_done_callback` runs the callback at
once, on the main thread, when the job has already ended. This last case is easy to
forget, and it is where the model finds the main thread waiting for itself.

### What is hard

Interleavings of these threads around a count that is read under a lock and used
after it; two queues with limits, one of which blocks with a lock held; callbacks
that run in one of two threads; a signal at any point; packages of one UUID with
several chains; calls that time out at the client and go on at the server;
transactions of several calls on one row; expiry; restarts that fail what was under
way. `PROJECT.json` lists each of these as a hazard with its line and the properties
that watch it.

## 2. The modules

| Module | Models |
|---|---|
| `PackageQueue` | the package queue and every thread that calls it |
| `PackageQueueInv` | its inductive invariants: `StageAgrees`, and those of packages, slots and owners |
| `PackageQueueProofs` | theorems about the jobs in it |
| `PackageQueueFlowProofs` | that it implements `JobFlow` |
| `PackageQueueThrottleProofs` | theorems about the packages in it and the slots they take |
| `JobFlow` | abstract specification: the life of a job |
| `MCPackageQueue` | workflows for TLC: Chains, Burst, Handoff |
| `TaskExecution` | the tasks of a job: executor threads, their Gearman backends, gearmand, the worker pool |
| `TaskExecutionInv`, `TaskExecutionProofs` | its properties and inductive invariants; theorems about it |
| `TaskExecutionPoolProofs` | theorems about what is counted: instances of a script, gauges |
| `JobRun` | abstract specification: what running a job of tasks promises |
| `MCTaskExecution` | jobs, scripts and exit codes for TLC |
| `TransferArrival` | watched directories, deliveries, the decision about a transfer, restarts |
| `TransferArrivalInv`, `TransferArrivalProofs` | its inductive invariants; theorems about it |
| `MCTransferArrival` | packages and names for TLC |
| `ProcessMonitor` | the page of the dashboard that follows the units and answers decisions |
| `ProcessMonitorInv`, `ProcessMonitorProofs` | its inductive invariant; theorems about it |
| `MCProcessMonitor` | a unit and its decision for TLC |
| `TransferSubmission` | keyed `create_package` and the idempotency records |
| `TransferSubmissionInv` | its inductive invariant, `Reservations` |
| `TransferSubmissionProofs` | theorems about it |
| `MCTransferSubmission` | calls for TLC |

### PackageQueue

A job is an element of `Jobs`. The workflow is given by constants: the package and
type of a job, its kind (a script, a decision, a terminal link that ends the package
as done or failed), its successor in the chain, and the jobs that start because its
script leaves packages in watched directories (`DropsOf`). `WorkflowAssumption` says
the workflow is a forest: the code makes a new Job object each time, so no job object
has two origins. A loop of the workflow is unrolled.

`pc[t]` is where thread `t` stands. An action is the stretch of code between two
points at which another thread can get in: one queue operation, one critical section
of `active_package_lock`, one database update. So `schedule_job` is `Schedule` (the
test of the event), `Acquire` (the lock, the test, the count), then `Put` (the
blocking put, with the lock still held) or `Defer` (put_nowait, and the comparison with
the count that `room[t]` remembers); `queue_next_job` is `GetDip`, `GetSip`,
`GetTransfer`, `Activate`, `PutNowait`. The lock is a variable only because `Put`
keeps it across a wait; sections that neither wait nor interleave are one action
guarded by `lock = NoThread`. `waiting_choices_lock` guards single steps and needs no
variable. `fin[t]` is the job whose callbacks `t` runs, `job[t]` the one it is
scheduling, `ret[t]` what it does when its call into the queue ends.

Exceptions are steps too. `Lose` is a call that raises (`Queue stopped.`, `Full`): an
executor callback logs it, an RPC thread answers with an error, the
watched-directory thread dies, the start of a transfer marks the transfer failed.
`MayRaise` are jobs whose `run` may raise; `DbErrors` lets the status updates of
callbacks raise; `SignalHandler` sets the event and shuts the executor down at any
time, after which `submit` raises. `HandleWatchedDir` may raise at its own database updates
and ends the thread then; `decision.decide` that raises after the job's row is complete
(`decisions.py:120-123`) leaves the choice open and is a stutter here.

`stage` is a history variable, and so is `late`: the decisions that were taken between
their publication and `deactivate_package` (`queues.py:412-414`), after which the package
goes on without a slot. No guard reads either: they exist to state and prove where each job
is, and by how much the throttle is exceeded. `ThreadPoolExecutor` and `Future` are
external: tasks are taken in order by idle workers, and callbacks run in the order of
registration, on the worker, or on the registering thread if the future is finished.

An unkeyed API submission is `CreatePackage`, then a worker takes the "start" task
and calls `schedule_job`. A submission without auto-approval arrives through a watched
directory and is one of `Arrivals`.

### JobFlow

The promise of the queue to one job: it waits, it runs once, its script may start
others while it runs, it returns, it may wait for one decision, it ends and only
then its successor exists; it may be dropped while it waits. `ImplementsJobFlow`
instantiates it with a `phase` that is read off the queues, futures and threads
(`Phase`); `stage` only distinguishes jobs that are in none of these.

### TransferSubmission

One process per keyed `packageCreate` call, on the database's rows. A step is one SQL
statement, or the commit of a transaction. The transaction of a call holds the row of
its key (`lock`) from its delete or insert to its end, and what it has deleted is
visible to itself only (`deleted`); its insert and its transfer become visible at the
commit, in `Create`. A delete waits for a lock on the row it matches, an insert for
any open transaction on the key. This is READ COMMITTED, Django's default for MySQL. A
delete that matches no committed row is not made to wait for an uncommitted insert,
as some engines would: the model then has more interleavings than the engine, and the
insert that follows does wait.

The payload digest is an arbitrary value (`FingerprintOf`); a key stands for the
triple (user, operation, key). `now` is the database clock in units that the
retention is counted in. `failing` is chosen at the start from `Faults`: which
operations may raise in this behaviour. `Restart` ends all calls, rolls open
transactions back and runs `cleanup_old_db_entries`.

### TaskExecution

The inside of one step of `PackageQueue`, "the job runs", and what it takes: it models
`ClientScriptJob.run`, the executor thread's own `GearmanTaskBackend`, the pool of
MCPClient and the job rows and task rows that both programs write. Task `i` of job `j` is
`<<j, i>>` and a batch is the set of its tasks.

| Actions | Code |
|---|---|
| `StartJob`, `SubmitTask`, `LogBatch`, `SendBatch` | `run`, `submit_task` with the batch that fills up, `bulk_create` of the rows before the batch is sent |
| `WaitForResults`, `Accepted`, `Poll`, `Collect` | `wait_for_results`: the left-over batch, the acceptance, a poll that may bring several answers, one batch copied to its tasks |
| `UpdateStatus`, `ReturnNext` | the status by exit code, the next job |
| `Raise`, `ResetBackend`, `MarkJobFailed`, `MarkTasksFailed` | an exception in `run` and `_handle_job_failure`, each step of which runs whether or not the others raise |
| `Crash`, `CleanUp` | MCPServer dies; the clean-ups of its next start |
| `Accept`, `Grab` | gearmand (external): one worker at a time, again when that worker disconnects |
| `RunScript`, `SaveTask`, `AnswerBatch`, `FailBatch` | the client script, `update_task_status` task by task, the answer, an exception of script or database |
| `LeaveIdle`, `Die`, `Terminate`, `StopPool`, `StartPool`, `RestartExited` | a worker's loop and end, the pool's stop and `_restart_exited_workers` |

`ScriptsOf(w)` is how the pool deals scripts to its workers. The row of a task
(`row`), what the script said (`code`) and what MCPServer was told (`got`) are three
variables, because they differ when a worker dies between saving and answering.
`submit_job` is one step (the client sends again when the connection is lost, and waits
for the acceptance that `Accepted` waits for), and a batch is collected in one step (the
code yields task by task).
`JobRun` is what is promised of all this to the rest of the program: a task is answered
at most once, while its job executes; a job is completed or failed by the largest of 0
and its tasks' codes; an error or a restart fails it. `ImplementsJobRun` maps `jobRow` and
`got` to it.

### TransferArrival

How a package reaches the decision that starts its processing. A *delivery* is a user's
move (`Drop`), or a submission: `CreateRow`, `ChooseName` (the free name), `Rename`,
`SaveLocation`, four steps between which the watcher may run. The *watching thread* is
`AddWatch`, `Scan`, `ReportFound`, `SkipKnown`, `EndScan`, `ReportEvent`; a report is one step
with `watched_dir_handler` (`Handle`: the rows with this path, the row created or marked as
processing, the chain). A *chain* goes through `SaveRow`, then `Preconfigured`, or
`MarkAwaiting` and `Offer` (the row says that it waits before `waiting_choices` has it);
after the decision `SendMove`, `Move`, `Commit` (the transaction of `move_transfer` that
changes the location around the move) and `EndChain`. A *client* finds a row by path or by
job (`FindRow`) and decides later (`Decide`). `Crash` and `CleanUp` are a restart with the
clean-ups of rows; a script that was sent may run all the same (`Orphan`).

A row is found by its location; that a path with a UUID in it finds its row by that
(`packages.py:871-881`) is left out, as the names here have none. `Decide` is one step: the
row is complete (`decisions.py:120`) when the choice leaves `waiting_choices`
(`queues.py:433`), and what `schedule_job` does with the next job is `PackageQueue`'s.

`early` is a history variable: the packages that came between the registration of the
inotify watch and the end of the scan, which are reported twice.

### ProcessMonitor

The page is one thread, and its functions interleave at each `await`: an action is what
runs between two of them. `Tick`, `SoonerFires`, `ReadSummaries`, `ApplySummaries`,
`FailSummaries`, `HideTab`, `ShowTab`, `Unmount`, `TransferStarted` are `useProcessingMonitor.ts`;
`RemoveUnit`, `RefreshRemoved`, `Toggle`, `ReadGroups`, `ApplyGroups`, `FailGroups`, `Choose`,
`ChooseUpload`, `EndUpload`, `LoseChoice`, `EndChoice` are `ProcessMonitor.vue`. A request is read by
the server in one step and answered in another, so it may say what is no longer true.
`Load` is the lazy request for the jobs of a unit with its generations and pending
reloads.

Of MCPServer there is left what its answers tell. Of a job that asks for a decision: no
row, a row that waits, a choice that is offered, a row that says something else, a row
that a restart deleted. Of a unit: whether any other job of it has a row, and whether it
failed before its first job (`progress`). From these come what the code computes:
`has_jobs` (`HasJobs`), which units are listed, a transfer from its row on and a SIP from
its first job (`Listed`), `waiting_for_processing`, of a transfer that is processing and has no job
(`WaitsForProcessing`), and whether a unit may be removed (`Done`). `Proceed`, `Begin`,
`FailToStart`, `Approve` and `Restart` move them. So a unit can be opened, and its jobs
loaded, before the summary that announces its decision, and the details may come first.
An answer reads rows and `waiting_choices` at one moment. Left out: an answer of
"changed" without data, which starts no load, and the status that
`markChoiceResolved` writes into what is shown until the next summary; `resolved` hides the
choice as it does.

### How they fit together

`PackageQueue` has jobs that run in one step; `TaskExecution` is that step, and `JobRun`
says what it may be: a job that ends, with or without an error (`MayRaise`).
`TransferArrival` produces the `Arrivals` of `PackageQueue` and the decisions that are
taken there by `Decide`; `TransferSubmission` stands before `CreatePackage`; `ProcessMonitor`
is one of the clients that decide. The models meet in these interfaces and are checked
apart: their product is beyond TLC.

## 3. Runs

`tlc -config <run>.cfg <module>`; all constants are in the cfg.

### That pass

- **PackageQueueChains** (Chains workflow, one slot, queues of one, two workers, an RPC
  thread; jobs raise, the database errs, the signal comes). `TypeOK`; `JobInOnePlace`
  and `RunsOnce`: no thread duplicates a job, two answers to one decision included;
  `ChainOrder`; `DoneMeansClean`: the package callback never overwrites the failure of
  a terminal job; `StageAgrees`, the inductive invariant; `ImplementsJobFlow`.
- **PackageQueueBurst** (four packages of all types from the watcher and the API, one of
  which stops at a decision; one slot, queues of one, one worker, status updates that
  raise: every queue overflows). `QueuedIsActive`: what is in `job_queue` belongs to an
  active package, unless a decision of that package was taken between its publication and
  `deactivate_package` (`Late`, the defect of `queues.py:412-414`), so there is no other way
  for a job to run outside the throttle's accounting. `Overshoot`: the active packages and the
  threads that may add one are at most `MaxConcurrent + threads - 1`, and one more for each
  such decision. The excess does not go away when the threads have acted: the limit itself
  does not hold, which is the run PackageQueueThrottle below.
- **PackageQueueHandoff** (a SIP that drops a DIP of its own UUID, goes on, and then
  moves itself to a watched directory; scripts raise; two slots, fair threads, no database
  errors; deadlock is checked). `ActiveHasOwner`: a slot that is taken has a job alive
  or a thread about to release it. `PackagesSettle`: a package that is processed ends, or
  waits for a decision; `SlotsAreReleased`. With two slots for one package `put_nowait` is
  never refused here, and the clean-up actions are reached but do not raise: that a slot is
  kept when one of those fails is in the list at the end of this section.
- **TransferSubmission** (three calls with one key, two payloads, retention 1, one tick,
  one restart). `OneTransferPerKey`, `AnswerIsHandedOff`, `NoAbandonedTransfer`,
  `EveryCallEnds`, and the inductive invariant `Reservations`.
- **TaskExecution** (a job of three tasks in two batches and a job of one task; a script
  of one instance and one of two on a pool of two workers that leave after each batch;
  exit codes -9 and 1; one fault). `AnsweredAndRecorded`: a job goes on only when all its
  tasks were answered and their rows written; `CompletedRowsAgree`: a completed job has rows
  that say so; `AnsweredRowsStay`: nothing rewrites the row of an answered batch;
  `BackendIsOfJob`: no batch of a failed job reaches the next one; `GaugesReconcile`;
  `ScriptConcurrency`: restarts of workers never give a script more instances than its
  limit; `ImplementsJobRun`; `RunsEnd`; and the inductive invariant `RunAgrees`.
- **TransferArrival** (a package of a user or one of a client, both watch methods, two
  restarts, one client that approves). `AwaitingIsOffered`: the rows shown as waiting are those
  that can be decided; `OfferedIsProcessing`; `ReportedOnce`, with the one exception
  `early`; `OneTransferPerPackage` over restarts; `EveryPackageIsOffered` in the end; and
  the inductive invariant `ArrivalAgrees`.
- **ProcessMonitor** (one unit with one decision and another job, pages of both types opened
  at any moment, one request that fails, restarts, a transfer that fails to start). `PollingGoesOn`: an open page has exactly one timer or a refresh
  that will set it; `OpenedIsLoaded`: an expanded unit has a request under way that counts;
  `ForwardOnly`: no late answer takes the page back; `QuietWhenLeft`; `DecisionReachesUser`;
  and the inductive invariant `MonitorAgrees`.

| Run | Distinct states | Time (two workers) |
|---|---|---|
| PackageQueueChains | 633,111 | 160 s |
| PackageQueueBurst | 5,168,440 | 136 s |
| PackageQueueHandoff | 168,916 | 55 s |
| TransferSubmission | 304,541 | 66 s |
| TaskExecution | 144,590 | 37 s |
| TransferArrival | 91,661 | 24 s |
| ProcessMonitor | 719,134 | 175 s |

### That find a disagreement

Each checks one sentence of the code's own comments, and its counterexample is a run
of the code as it is written; `PROJECT.json` quotes the sentences.

- **PackageQueueThrottle**: `AtMostConcurrentPackages` ("at most `CONCURRENT_PACKAGES` are
  active at any one time"). Two threads read the count before either activates its
  package; with a limit of one, two packages are active and every thread has acted.
- **PackageQueueWakeup**: `DeferredIsReleased` ("held until a package stops
  processing"). The last slot is released between the count and the deferral.
- **PackageQueueSignal**: `WorkEndsOnSignal` ("allows shutdown signals to fire"). The
  main thread waits in `job_queue.put` for itself.
- **TaskExecutionExposed**: `FailureIsExposed` ("Mark each task failed here so task detail
  pages and status APIs expose the transport failure"). A worker saves exit code 0 and dies
  before it answers; the second run of the batch fails, and no row shows it.
- **TransferArrivalSubmitted**: `SubmittedIsFound` ("Transfer is going to look up the object
  in the database based on the location"). The location is saved after the move, and
  without the slash the watcher looks for: the chain runs for a second transfer.

### Behaviours seen on the way, without a run of their own

- A decision is taken between the publication of the choice and `deactivate_package`
  (`queues.py:412-414`); the job that follows finds its package active, is queued, and then
  the package is deactivated. Without `\/ Late(...)`, `QueuedIsActive` fails in Burst for this
  reason alone.
- `SlotsAreReleased` fails with `DbErrors`: the status update of the package callback
  (`queues.py:225-228`) raises before the slot is released. The failure callback, by
  contrast, guards each action.
- `ActiveHasOwner` fails in the workflow of Burst, with one slot: `PutNowait` on a full queue
  loses the job of a package it has just activated.
- The SIP and the DIP of a UUID share a row (`packages.py:780-786`): a DIP that ends well
  marks a failed SIP as done. `DoneMeansClean` is stated for packages of one chain.
- `queue_next_job` is "only called when there is space", and may find `job_queue` full
  (`queues.py:382-391`): `put_nowait` raises after the package was activated, so that the job is
  gone and the slot is kept.
- A pending idempotency record outlives the restart that ended its call
  (`views.py:785-786`): retries are refused until its retention is over.
- With archives in place of directories (`IsDir = FALSE`) `EveryPackageIsOffered` fails: two
  rows get one location, `get_or_create_from_db_by_path` raises
  `MultipleObjectsReturned`, and the watching thread dies at this entry at every start.
- `ReportedOnce` and `OneTransferPerPackage` depend on names. If two packages may come under
  one name (`NamesOf` with a name in common, two deliveries), TLC breaks both. An archive takes
  the place of another of its name between the choice of a free name and the rename, and
  the events of both report it. A directory that comes under the name of one that was moved
  away is reported by the events of both, if it comes before the second event of the first
  is read; the chain that this starts finds the row of the first package, and when the
  transaction of the first's move then writes that row, the second event makes a second transfer.
  The run gives each package a name of its own, and the theorems state this as `NamesApart`.
- A package that is replaced by another of the same name between two polls is not
  reported (`watch_dirs.py:48`: paths are compared, not files); the run uses a name once.
- A negative exit code (a script killed by a signal) counts as 0
  (`jobs/client.py:155`): the job is completed. `CompletedRowsAgree` says so openly.
- `_get_current_task_batch` leaves an empty batch behind for a job without tasks; nothing
  reads it.
- MCPClient answers with the key `stderror` (`MCPClient/client/gearman.py:98`), MCPServer
  reads `stderr`.
- `requestSoonerPoll` (`useProcessingMonitor.ts:191`) sets its timer anew at each call, so
  calls that never pause would starve it. The fairness of `SoonerFires` leaves this out:
  it lets a timer that is set fire, however often it is set again.
- The back-off of the RPC worker starts from its first value in each pass
  (`rpc_server.py:971`).
- The purge of a done transfer deletes, by `File.transfer` with `CASCADE`
  (`dashboard/main/models.py:692-698`), the files of a SIP that may still be processed. The
  docstring of the command concedes this for `--age=0` and calls the rest safe; but the age
  is that of the transfer, and a SIP may be at work, or wait for a decision, for longer.

## 4. Bounds

- Two workers are enough for two callbacks to interleave with each other, with main,
  the watcher and an RPC thread: five threads. Workers are interchangeable, and their
  symmetry is used where no liveness is checked. Burst has one worker and four
  packages of five jobs instead: four threads against a limit of one, with packages enough to
  go beyond the bound of `Overshoot` if the count were not compared. Handoff has one worker
  so that liveness stays within reach: a worker runs a chain's script and its callbacks
  while main, the watcher and an RPC thread act. `OwnedUnlessLost` covers any number.
- One slot and queues of length one make every limit reachable with two packages; two
  slots (Handoff) let two chains of a UUID run side by side and separate the properties
  that a full queue defeats from those it does not.
- Two jobs per chain show the order of a chain; three SIP and two DIP jobs show the
  handoff over watched directories.
- Three calls on one key give a winner, a loser, and a third that meets what either
  has left. Keys do not interact, as every row step is on the call's own key.
- Retention 1 and one tick: a record expires between any two steps of any call. More
  time only repeats that. One restart hits any point of the calls; calls that have
  not begun go on after it.

- TaskExecution has one thread: a Gearman backend belongs to its thread, and threads meet
  only in gearmand, the workers and the gauges. Three tasks with batches of two give a
  full and a left-over batch; the second job follows the first on the same thread, which
  is what `BackendIsOfJob` needs. Three workers wanted and scripts of one and two instances
  make a pool of two where one worker has both scripts. Workers exit after each batch. One
  fault strikes at any step; the counterexample of TaskExecutionExposed needs two.
- TransferArrival has one delivery, and the run chooses whether it is a user's or a
  client's, so that two restarts and both watch methods fit. With two deliveries and no
  restart the safety properties hold as well (run by hand), and random
  simulation of two deliveries with two restarts found nothing. The second inductive
  invariant (`EntriesAgree`, `ReportsAgree`, `LocationsAgree`) was checked by hand, for directories
  and for archives: one delivery with two restarts (91,661 and 119,383 states) and two
  deliveries without (748,145 and 1,628,648). Each package has one name: `ChooseName` finds it
  free.
- ProcessMonitor has one unit with one decision and another job, as units only meet in "one
  is open at a time" and in the list of the summaries; the server may be at any status when
  the page is opened, so polls, loads and choices overlap every change. Pages of many units
  are covered by the theorems.

The theorems of section 6 do away with these bounds for the properties they state.

## 5. Fairness

`FairSpec` of `PackageQueue` assumes weak fairness of each thread: Python threads are
scheduled, lock and queue waits are served when they can be. The main loop's
`get(timeout=1.0)` makes `Get` always possible. RPC threads are fair within a call and in
taking up submissions, but nobody has to answer a decision, and the signal need not
come. `run` ends: the code waits for gearman without a deadline, so this assumes that
MCPClient answers. In `TransferSubmission` a call that has begun goes on;
restarts, ticks and purges owe nothing. Weak fairness is enough for a call that waits
for a row: the holder's transaction ends, and once the row is free in the runs nobody
retakes it infinitely often, as calls are finite.

In `TaskExecution` threads, gearmand and workers make progress, the pool is maintained
(the code does so every second) and a supervisor starts the two programs again; faults owe
nothing, and a script returns. Weak fairness of `Take(w)` means that a worker with the script
takes a batch in the end, which gearmand's round over the functions of a worker gives. In
`TransferArrival` the watching thread, the chains with their scripts, the deliveries
that were begun and the supervisor go on; users and clients may do nothing. In `ProcessMonitor`
timers fire and requests are answered; nobody has to open a unit, to decide or to
proceed, and errors are bounded: a request that fails forever reaches nobody.

## 6. Proofs

`tlapm <module>` checks every step of `PackageQueueProofs`, `PackageQueueFlowProofs`,
`PackageQueueThrottleProofs`, `TransferSubmissionProofs`, `TaskExecutionProofs`,
`TaskExecutionPoolProofs`, `TransferArrivalProofs` and `ProcessMonitorProofs`. Every invariant and
every action property of the passing runs is stated by a theorem. The theorems hold for all
constants that satisfy the assumptions, which say what kind of thing each constant is and
little more (`CapacityAssumption`, `ThreadAssumption`, `WorkflowAssumption`, `PoolAssumption`;
`SubmissionAssumption`; `TaskAssumption`; `ArrivalAssumption`; `UnitOfAssumption`,
`TypesAssumption`, `MaxErrorsAssumption`). No number of threads, workers, packages, calls,
restarts or errors is fixed; that the threads of a pool (`PoolAssumption`) and the scripts of
a worker (in `TaskAssumption`) are finitely many is used only where they are counted. The
forest of `WorkflowAssumption` is the one assumption with content. Some theorems have a
hypothesis on the constants besides, stated in the theorem, because the property is false
without it:

| Hypothesis | Theorems | Why | Met by |
|---|---|---|---|
| `OneChainEach`: the jobs of a package are one chain | `AlwaysChainAgrees`, `AlwaysDoneMeansClean`, `AlwaysThrottleAgrees`, `AlwaysQueuedIsActive`, `AlwaysOvershoot` | a SIP and a DIP share a row and a slot (section 3) | Chains, Burst |
| `ChainsClose`: a chain ends its package or hands it over; no `DbErrors` | `OwnedUnlessLost` | the slot is never given back otherwise (section 3) | Handoff |
| `NamesApart`: no two packages come under one name | `AlwaysReportsAgree`, `AlwaysReportedOnce`, `AlwaysOneTransfer` | names that are used again (section 3) | TransferArrival |

**PackageQueue.** `JobInOnePlace` is not inductive: nothing in it stops a job that
is in a queue from also being the successor of one that has not ended. `StageAgrees`
strengthens it: each queue, set, future, callback and thread agrees with the history
`stage`, which gives a job one value. Its conjuncts are one per place (`SetsAgree`,
`DeferredAgrees`, `JobQueueAgrees`, `ExecQueueAgrees`, `HoldersAgree`, `HandlersAgree`,
`CallbacksAgree`), one for the future (`FutureAgrees`) and one for the workflow
(`ForestAgrees`: a job that has not ended has started nothing; here the forest
assumption is used). The proof has one lemma per action, over lemmas for the shapes
they share (a thread that only moves, a job that is lost, a job that is enqueued, a job
that hands over to its successor). Then

- `AlwaysStageAgrees`: `Spec => []StageAgrees`;
- `TypeCorrect`, `AlwaysOnePlace`: consequences;
- `AlwaysRunsOnce`: with the steps a future can take;
- `AlwaysChainOrder`: with one more invariant, that the successor of a job is only
  there when the job returned "next" or "self".

`RefinesJobFlow` is the refinement of `JobFlow`. `StageAgrees` says that what lies in a place
has the stage of the place; the refinement also needs the converse, that no job is
forgotten: a job of stage "deferred" is in its deferred queue, and so on. This is
`StagesLocated`, and `AlwaysLocated` proves both invariant. Then the phase, which is read off
queues, futures and threads, is a function of the stage alone (`PhaseOfStage`), and what is
left is one lemma per action that says which step of `JobFlow` it is (`FlowStep`).

`PackageQueueThrottleProofs` goes from jobs to packages. Where the jobs of a package are one
chain, a package has come to one job, its `Latest` (`ChainAgrees`). So the terminal job whose
callback marks the package as done is the only one whose result could say otherwise, which is
`AlwaysDoneMeansClean`. The throttle is harder: `deactivate_package` takes a UUID out of a set and
nothing in it says that no other job of this UUID is queued. The property cannot be had without its
exception: `await_decision` publishes the choice before it gives the slot back, and whoever decides in
between has the chain go on. Such decisions are kept in `late`, and a package is `Counted` when it is active
or has one. `ThrottleAgrees` says that a job which may still run has its package counted
(`SlotsAgree`), that the thread about to give a slot back has a job in hand that raised, that was the
last of the package, or that waits or waited for a decision, and that for each job which
raised or waited it is the only such thread (`ClosingAgrees`), that one thread completes a package, by the package
callback or on the way to it (`CompletesAgrees`), and that a late decision was taken and is over
(`LateAgrees`: no decision is late twice). `AlwaysQueuedIsActive` follows, for workflows with decisions.

`AlwaysOvershoot` counts, and what it counts is not `active`. After a late decision the package's
slot is given back a second time, when its last job ends: it is no longer in `active`,
and a thread becomes `Activating` all the same. `AtWork` are the packages that are active or still
have something to run or to release (`Busy`), and `WorkBounded`, the bound for `AtWork` and
`Activating`, is inductive: a thread that becomes `Activating` has found the limit unmet, by a count that
is short of `AtWork` by no more than the late decisions (`WorkCounted`), or has given a slot
back, and then `AtWork` has lost a package or `late` has a decision more. As `active` is part of
`AtWork`, `Overshoot` follows.

`OwnedUnlessLost` is the converse, that a slot is not kept for nobody: it needs that every running job
has a thread (`RunningHeld`) and every job under way its callbacks, or main about to
register them (`CallbacksHold`), and then follows the chain from owner to owner. It is stated as
`NoJobLost => ActiveHasOwner`: a call that raises in `put_nowait` loses the job of a package it has
just activated. In Handoff no job is lost in any reachable state, so that the run shows
the property itself.

**TransferSubmission.** `OneTransferPerKey` needs the records: `Reservations` says
that the record of a reserved transfer stays until its retention is over (`RecordStays`),
that an open transaction which deleted saw an expired record and holds the row, and
one that creates holds the row and sees no record (`RowHeld`), that no call has read a
time to come (`ClockRead`) and that nothing is handed over before the steps that may undo
it (`NotYetHanded`). The heart is `CreateFinds`: when a transaction commits a record, every
transfer of its key is past its retention. Then `AlwaysReservations`,
`SubmissionTypeCorrect`, `AlwaysOneTransferPerKey`. Without `owner = r` in `Release` (lookup by
key instead of by record) the step fails, and TLC shows the run.
`AlwaysAnswerIsHandedOff` adds that a completed record is of its key and of a transfer
that was handed over (`AnswersAgree`); `AlwaysNoAbandonedTransfer`, that a transfer without an
executor that is still open has its call at the handoff (`OpenIsAtWork`).

**TaskExecution.** That rows, answers and status agree depends on each batch being in one
place and answered once. `RunAgrees` says so in eight parts: a job has one thread
(`ThreadsAgree`); a backend is empty between jobs, and what it collected was answered
(`BackendAgrees`); the batches hold the tasks made so far (`TasksAgree`); a batch that left is
unacknowledged, queued, at one worker, completed or failed, and batches are disjoint
(`PlacesAgree`); a task that is made is new (`FreshAgrees`); the rows have what was saved
(`RowsAgree`); `exit` is the largest answer collected (`AnswersAgree`) and the status follows
it (`StatusAgrees`). The hard part is an answer: a batch at a worker that dies is run again,
so that codes and rows change under a job that waits, and only `PlacesAgree` gives that
nothing does so once the batch is answered (`AnswerStays`). `AlwaysBackendIsOfJob`,
`AlwaysAnsweredAndRecorded`, `AlwaysCompletedRowsAgree` follow, `AlwaysAnsweredRowsStay` with the
step, and `RefinesJobRun` shows each step to be one of `JobRun` or none.

`TaskExecutionPoolProofs` counts. The gauges are counted up and down in several places, and after a job
that raised by what its backend happens to hold; `GaugesAgree` adds to `GaugesReconcile` that the sets
that are counted are finite and that no batch is counted in both. `ScriptsAgree` says that a
worker only has tasks of the scripts that `ScriptsOf` deals to it. `AlwaysScriptConcurrency` then needs
that a script is dealt to no more workers than its limit, and the dealing is recursive: each
worker gets what the ones before have left. The induction schemes of the library cannot
be instantiated here, but that the natural numbers are well-founded can be cited: `LeastNatural` gives the
least worker for which a claim would be wrong, and the claim follows from the worker before
(`Dealt`).

**TransferArrival.** `AwaitingIsOffered` is nearly inductive. `OfferedIsProcessing` is not:
`SaveLocation` sets a status, and what forbids that it is the status of a row that
waits is that no chain has found the row of a delivery under way (`DeliveriesAgree`, which
holds as the row has no location before). `ProcessingAgrees` says of a whole chain, from its
report to its decision, what `OfferedIsProcessing` says of its end. `AlwaysArrivalAgrees`,
`ArrivalTypeCorrect`, `AlwaysAwaitingIsOffered`, `AlwaysOfferedIsProcessing`.

`ReportedOnce` bounds the chains of a package, and what has to be bounded is the chains together with
the reports still to come: an event in the queue, an entry that this scan has found and not
yet compared, one that the next scan will find. `ReportsAgree` is this sum, and the one exception is
a package that came between the watch and the scan (`early`), which is owed two. `EntriesAgree`
says that of a package which has not come nothing is known, neither to the watching thread nor
to a row; with `NamesApart` this makes each name its package's own. `LocationsAgree` is why a second
report, or one after a restart, finds the row of the first: the row has the package's path until the package
was moved out of the directory. Four lemmas carry the proof: a report turns one that was owed into
a chain (`HandleReports`), an arrival is owed one, or two if early (`AppearReports`), a scan only moves
what is owed (`ScanReports`), and a step of a chain changes none of it (`ChainReports`).
`AlwaysReportsAgree`, `AlwaysReportedOnce`, `AlwaysOneTransfer`.

**ProcessMonitor.** `ForwardOnly` needs that two requests never overtake each other: there is
one for the summaries (`OneRefresh`) and one per unit (`OneLoadPerUnit`), and what is shown,
what an answer on its way says and what the server knows are in this order of time
(`SummariesInOrder`, `RowsInOrder`). `AlwaysMonitorAgrees`, `MonitorTypeCorrect`,
`AlwaysPolling`, `AlwaysOpenedIsLoaded`, `AlwaysForward`, `AlwaysQuiet`. These are also for pages
with many units, which TLC does not see.

**Only model-checked:** liveness (`PackagesSettle`, `SlotsAreReleased`, `EveryCallEnds`, `RunsEnd`,
`EveryPackageIsOffered`, `DecisionReachesUser`) and deadlock, which are out of the prover's reach;
and, of `ActiveHasOwner`, that no job is lost in Handoff, which the theorem takes as a
premise.

## 7. Plan

1. Done: package queue and job life; keyed transfer submission; tasks, backends and
   workers; arrival, decision and restart; the processing monitor; two refinements
   proved.
2. Done: a theorem for every invariant and action property of the passing runs. Left:
   `ReportedOnce` for names that are used again while the directory is polled, and the
   throttle for a SIP and a DIP of one UUID.
3. `ChainVariables`: local jobs that set and read variables of a chain, across a
   decision and a restart.
4. `Purge`: rows of transfers, SIPs and files with their cascades, against chains under
   way.
5. RPC status queries against rows that change between their statements, and aggregated
   answers with embedded jobs in the monitor; on top, the product of `TransferArrival`'s chains
   and `ProcessMonitor` on a tiny instance.

## 8. Not modelled, and why

Metrics and logging (they change no state the properties are about). The client scripts other than
`move_transfer`, file formats, METS, FPR, rights, accounts, search and the storage service client
(functional code over files and services, no protocol of their own). The contents of
the workflow (`workflow.json`): it enters as constants, and what the models need of it
is the forest of chains; a terminal link that still has a next link only logs a warning
in `PackageQueue` and is covered by kind and successor being independent. Local jobs and
chain variables, the making of tasks from files, and output files of tasks. The RPC
queries that only read, the Gearman loop around them, and the dashboard's views (requests over the
database without state of their own). Of the monitor: payloads with embedded jobs,
removal of all units at once, selection and layout. The purge of packages. Loading of
settings and workflow, migrations and translations, which are most of the lines of the
repository and are data. Deadlock errors that a database engine may raise.
Building, packaging, the development environment.
