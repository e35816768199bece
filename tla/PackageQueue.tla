---------------------------- MODULE PackageQueue ----------------------------
(***************************************************************************)
(* The package queue of MCPServer (server/queues.py) and the threads that  *)
(* call it: the main thread that consumes the active job queue, the        *)
(* threads of the ThreadPoolExecutor that run jobs and their callbacks,    *)
(* the watched-directory thread and the RPC threads.                       *)
(*                                                                         *)
(* A job is a model value.  The workflow is a forest of jobs: a job has at *)
(* most one successor (what Job.run or a decision returns) and a set of    *)
(* jobs that start because its script left packages in watched             *)
(* directories.  Every step that another thread can interleave with is an  *)
(* action of its own: pc[t] is where thread t stands in the code.          *)
(***************************************************************************)
EXTENDS Naturals, Sequences, FiniteSets

CONSTANTS
    Jobs,           \* every Job object the workflow may create
    NoJob,          \* no job
    Packages,       \* package UUIDs (a SIP and its DIP share one)
    Main,           \* the main thread, PackageQueue.work
    Workers,        \* the threads of the executor
    Watcher,        \* the WatchDirs thread
    RpcThreads,     \* the RPC server threads
    NoThread,       \* the lock is free
    MaxConcurrent,  \* CONCURRENT_PACKAGES
    MaxQueued,      \* MAX_QUEUED_PACKAGES
    PackageOf,      \* [Jobs -> Packages]: job.package.uuid
    TypeOf,         \* [Jobs -> Types]: the class of job.package
    KindOf,         \* [Jobs -> Kinds]
    NextOf,         \* [Jobs -> Jobs \cup {NoJob}]: the next job in the chain
    DropsOf,        \* [Jobs -> SUBSET Jobs]: jobs of packages its script drops
    Arrivals,       \* jobs of packages found in watched directories at start
    Submissions,    \* first jobs of packages created through the API
    MayRaise,       \* jobs whose run may raise
    DbErrors,       \* may a database update about a package raise?
    MayShutDown     \* may SIGTERM arrive?

Threads == {Main, Watcher} \cup Workers \cup RpcThreads
Types == {"DIP", "SIP", "Transfer"}
\* A terminal link declares whether the package ends done or failed.
Kinds == {"script", "decision", "done", "failed"}
Terminal(j) == KindOf[j] \in {"done", "failed"}

ASSUME CapacityAssumption ==
    /\ MaxConcurrent \in Nat \ {0}
    /\ MaxQueued \in Nat \ {0}

ASSUME ThreadAssumption ==
    /\ Main # Watcher
    /\ Main \notin Workers \cup RpcThreads
    /\ Watcher \notin Workers \cup RpcThreads
    /\ Workers \cap RpcThreads = {}
    /\ NoThread \notin Threads

ASSUME PoolAssumption == IsFiniteSet(Workers) /\ IsFiniteSet(RpcThreads)

\* The workflow is a forest: no job is started from two places.
ASSUME WorkflowAssumption ==
    /\ NoJob \notin Jobs
    /\ PackageOf \in [Jobs -> Packages]
    /\ TypeOf \in [Jobs -> Types]
    /\ KindOf \in [Jobs -> Kinds]
    /\ NextOf \in [Jobs -> Jobs \cup {NoJob}]
    /\ DropsOf \in [Jobs -> SUBSET Jobs]
    /\ Arrivals \subseteq Jobs
    /\ Submissions \subseteq Jobs
    /\ MayRaise \subseteq Jobs
    /\ DbErrors \in BOOLEAN
    /\ MayShutDown \in BOOLEAN
    /\ Arrivals \cap Submissions = {}
    /\ \A j, k \in Jobs : NextOf[j] = NextOf[k] /\ NextOf[j] # NoJob => j = k
    /\ \A j, k \in Jobs : DropsOf[j] \cap DropsOf[k] # {} => j = k
    /\ \A j, k \in Jobs : NextOf[j] \notin DropsOf[k]
    /\ \A j \in Jobs : NextOf[j] \notin Arrivals \cup Submissions
    /\ \A j \in Jobs : DropsOf[j] \cap (Arrivals \cup Submissions) = {}

VARIABLES
    watched,    \* jobs of packages lying in a watched directory
    submitted,  \* packages still to be created by a client
    deferred,   \* [Types -> Seq(Jobs)]: dip_queue, sip_queue, transfer_queue
    jobQueue,   \* job_queue: jobs of active packages
    execQueue,  \* the executor's work queue
    waiting,    \* waiting_choices
    active,     \* active_packages
    lock,       \* the holder of active_package_lock
    future,     \* [Jobs -> Futures]: the Future of job.run
    callbacks,  \* [Jobs -> SUBSET {"job", "package"}]: registered, not yet run
    status,     \* [Packages -> Statuses]: the status column of the package
    shutdown,   \* shutdown_event
    pc,         \* [Threads -> Pcs]
    job,        \* the job a thread is scheduling
    fin,        \* the job a thread runs, or whose callbacks it runs
    ret,        \* where a thread goes when its call into the queue returns
    room,       \* active_package_count < max_concurrent_packages, as read
    late,       \* history: decisions taken before their package lost its slot
    stage       \* history: where each job is in its life; no guard reads it

outside == <<watched, submitted, waiting, shutdown>>
queues == <<deferred, jobQueue>>
slots == <<active, lock, late>>
execution == <<execQueue, future, callbacks>>
frame == <<fin, ret, room>>
vars == <<outside, queues, slots, execution, frame, status, pc, job, stage>>

Results == {"raised", "none", "self", "next"}
Futures == {"unsubmitted", "submitted", "running"} \cup Results
Statuses == {"unknown", "processing", "done", "failed"}
Tasks == [task : {"start", "run"}, job : Jobs]
Pcs == {"idle", "get", "submit", "addJobCb", "addPkgCb", "stopped", "running",
        "returning", "jobCb", "pkgCb", "fail", "await", "deactivate",
        "schedule", "acquire", "put", "defer", "getDIP", "getSIP",
        "getTransfer", "activate", "putNowait"}
Stages == {"absent", "watched", "submitted", "starting", "held", "deferred",
           "queued", "executor", "running", "ran", "returned", "awaiting",
           "spent", "lost"}

\* The control points at which job[t] is in the hands of thread t alone.
Holding == {"submit", "schedule", "acquire", "put", "defer", "activate",
            "putNowait"}
\* The control points at which fin[t] is still to be handled by thread t.
Handling == {"running", "returning", "jobCb", "await"}

Init ==
    /\ watched = Arrivals
    /\ submitted = Submissions
    /\ deferred = [ty \in Types |-> <<>>]
    /\ jobQueue = <<>>
    /\ execQueue = <<>>
    /\ waiting = {}
    /\ active = {}
    /\ lock = NoThread
    /\ late = {}
    /\ future = [j \in Jobs |-> "unsubmitted"]
    /\ callbacks = [j \in Jobs |-> {}]
    /\ status = [p \in Packages |-> "unknown"]
    /\ shutdown = FALSE
    /\ pc = [t \in Threads |-> "idle"]
    /\ job = [t \in Threads |-> NoJob]
    /\ fin = [t \in Threads |-> NoJob]
    /\ ret = [t \in Threads |-> "idle"]
    /\ room = [t \in Threads |-> FALSE]
    /\ stage = [j \in Jobs |-> IF j \in Arrivals THEN "watched"
                               ELSE IF j \in Submissions THEN "submitted"
                               ELSE "absent"]

Goto(t, l) == pc' = [pc EXCEPT ![t] = l]
Take(t, j) == job' = [job EXCEPT ![t] = j]
Release(t) == job' = [job EXCEPT ![t] = NoJob]
Move(j, s) == stage' = [stage EXCEPT ![j] = s]

\* Thread t goes on at l; its locals are gone when it is idle again.
Resume(t, l) ==
    /\ Goto(t, l)
    /\ fin' = IF l = "idle" THEN [fin EXCEPT ![t] = NoJob] ELSE fin
    /\ ret' = IF l = "idle" THEN [ret EXCEPT ![t] = "idle"] ELSE ret
\* The call into the queue returns to its caller.
Return(t) == Resume(t, IF ret[t] = "startup" THEN "idle" ELSE ret[t])
\* The call raises and the job in hand is gone.  The executor logs what a
\* callback raises and RPC answers with an error, but the watched-directory
\* thread dies, and the start of a transfer marks it failed.
Lose(t) ==
    /\ Move(job[t], "lost")
    /\ Release(t)
    /\ IF t = Watcher THEN Resume(t, "stopped") ELSE Return(t)
    /\ status' = IF ret[t] = "startup"
                 THEN [status EXCEPT ![PackageOf[fin[t]]] = "failed"]
                 ELSE status
-----------------------------------------------------------------------------
(* schedule_job *)

Schedule(t) ==
    /\ pc[t] = "schedule"
    /\ IF shutdown
       THEN Lose(t)
       ELSE Goto(t, "acquire") /\ UNCHANGED <<fin, ret, status, job, stage>>
    /\ UNCHANGED <<outside, queues, slots, execution, room>>

\* Under the lock: an active package keeps it for the put; for an inactive one
\* the count is read here and used two steps later.
Acquire(t) ==
    /\ pc[t] = "acquire"
    /\ lock = NoThread
    /\ IF PackageOf[job[t]] \in active
       THEN lock' = t /\ Goto(t, "put") /\ UNCHANGED room
       ELSE /\ room' = [room EXCEPT ![t] = Cardinality(active) < MaxConcurrent]
            /\ Goto(t, "defer")
            /\ UNCHANGED lock
    /\ UNCHANGED <<outside, queues, active, late, execution, fin, ret, status, job,
                   stage>>

\* job_queue.put(block=True) waits for a free slot with the lock held.
Put(t) ==
    /\ pc[t] = "put"
    /\ Len(jobQueue) < MaxConcurrent
    /\ jobQueue' = Append(jobQueue, job[t])
    /\ lock' = NoThread
    /\ Move(job[t], "queued")
    /\ Release(t)
    /\ Return(t)
    /\ UNCHANGED <<outside, deferred, active, late, execution, room, status>>

\* Mutation of Defer: the count of active packages is not compared.
DeferUnthrottled(t) ==
    LET ty == TypeOf[job[t]] IN
    /\ pc[t] = "defer"
    /\ IF Len(deferred[ty]) >= MaxQueued
       THEN Lose(t) /\ UNCHANGED deferred
       ELSE /\ deferred' = [deferred EXCEPT ![ty] = Append(@, job[t])]
            /\ Move(job[t], "deferred")
            /\ Release(t)
            /\ Goto(t, "getDIP")
            /\ UNCHANGED <<fin, ret, status>>
    /\ room' = [room EXCEPT ![t] = FALSE]
    /\ UNCHANGED <<outside, jobQueue, slots, execution>>

\* _put_package_nowait raises Full at the limit; then the stale count decides.
Defer(t) ==
    LET ty == TypeOf[job[t]] IN
    /\ pc[t] = "defer"
    /\ IF Len(deferred[ty]) >= MaxQueued
       THEN Lose(t) /\ UNCHANGED deferred
       ELSE /\ deferred' = [deferred EXCEPT ![ty] = Append(@, job[t])]
            /\ Move(job[t], "deferred")
            /\ Release(t)
            /\ IF room[t] THEN Goto(t, "getDIP") /\ UNCHANGED <<fin, ret>>
                          ELSE Return(t)
            /\ UNCHANGED status
    /\ room' = [room EXCEPT ![t] = FALSE]
    /\ UNCHANGED <<outside, jobQueue, slots, execution>>
-----------------------------------------------------------------------------
(* queue_next_job *)

\* Mutation of GetDeferred: queue_next_job forgets activate_package.
GetDeferredInactive(t, ty, here, Otherwise) ==
    /\ pc[t] = here
    /\ IF deferred[ty] # <<>>
       THEN /\ Take(t, Head(deferred[ty]))
            /\ Move(Head(deferred[ty]), "held")
            /\ deferred' = [deferred EXCEPT ![ty] = Tail(@)]
            /\ Goto(t, "putNowait")
            /\ UNCHANGED <<fin, ret>>
       ELSE Otherwise /\ UNCHANGED <<deferred, job, stage>>
    /\ UNCHANGED <<outside, jobQueue, slots, execution, room, status>>

\* _get_package_job_nowait looks at the three queues one after the other.
GetDeferred(t, ty, here, Otherwise) ==
    /\ pc[t] = here
    /\ IF deferred[ty] # <<>>
       THEN /\ Take(t, Head(deferred[ty]))
            /\ Move(Head(deferred[ty]), "held")
            /\ deferred' = [deferred EXCEPT ![ty] = Tail(@)]
            /\ Goto(t, "activate")
            /\ UNCHANGED <<fin, ret>>
       ELSE Otherwise /\ UNCHANGED <<deferred, job, stage>>
    /\ UNCHANGED <<outside, jobQueue, slots, execution, room, status>>

GetDip(t) == GetDeferred(t, "DIP", "getDIP", Resume(t, "getSIP"))
GetSip(t) == GetDeferred(t, "SIP", "getSIP", Resume(t, "getTransfer"))
GetTransfer(t) == GetDeferred(t, "Transfer", "getTransfer", Return(t))

\* activate_package: activating a package twice only logs a warning.
Activate(t) ==
    /\ pc[t] = "activate"
    /\ lock = NoThread
    /\ active' = active \cup {PackageOf[job[t]]}
    /\ Goto(t, "putNowait")
    /\ UNCHANGED <<outside, queues, lock, late, execution, frame, status, job,
                   stage>>

\* put_nowait raises Full when job_queue has no room: the package stays active.
PutNowait(t) ==
    /\ pc[t] = "putNowait"
    /\ IF Len(jobQueue) < MaxConcurrent
       THEN /\ jobQueue' = Append(jobQueue, job[t])
            /\ Move(job[t], "queued")
            /\ Release(t)
            /\ Return(t)
            /\ UNCHANGED status
       ELSE Lose(t) /\ UNCHANGED jobQueue
    /\ UNCHANGED <<outside, deferred, slots, execution, room>>
-----------------------------------------------------------------------------
(* The callbacks of a finished job, on the thread that found it finished.  *)

\* Mutation of JobCallback: what the job raised is not looked at.
JobCallbackAfterRaise(t) ==
    LET j == fin[t]
        r == future[j] IN
    /\ pc[t] = "jobCb"
    /\ \/ r = "none" /\ Return(t) /\ Move(j, "spent") /\ UNCHANGED job
       \/ r = "self" /\ Goto(t, "await") /\ UNCHANGED <<fin, ret, job, stage>>
       \/ /\ r \in {"next", "raised"}
          /\ Goto(t, "schedule")
          /\ Take(t, NextOf[j])
          /\ stage' = [i \in Jobs |-> IF i = j THEN "spent"
                                     ELSE IF i = NextOf[j] THEN "held" ELSE stage[i]]
          /\ UNCHANGED <<fin, ret>>
    /\ UNCHANGED <<outside, queues, slots, execution, room, status>>

\* _job_completed_callback
JobCallback(t) ==
    LET j == fin[t]
        r == future[j] IN
    /\ pc[t] = "jobCb"
    /\ \/ /\ r = "raised"
          /\ Goto(t, "fail")
          /\ Move(j, "spent")
          /\ UNCHANGED <<fin, ret, job>>
       \/ /\ r = "none"
          /\ Return(t)
          /\ Move(j, "spent")
          /\ UNCHANGED job
       \/ /\ r = "self"
          /\ Goto(t, "await")
          /\ UNCHANGED <<fin, ret, job, stage>>
       \/ /\ r = "next"
          /\ Goto(t, "schedule")
          /\ Take(t, NextOf[j])
          /\ stage' = [stage EXCEPT ![j] = "spent", ![NextOf[j]] = "held"]
          /\ UNCHANGED <<fin, ret>>
    /\ UNCHANGED <<outside, queues, slots, execution, room, status>>

\* await_decision, up to the point where the package is deactivated
AwaitDecision(t) ==
    /\ pc[t] = "await"
    /\ waiting' = waiting \cup {fin[t]}
    /\ Move(fin[t], "awaiting")
    /\ Goto(t, "deactivate")
    /\ UNCHANGED <<watched, submitted, shutdown, queues, slots, execution, frame,
                   status, job>>

\* Mutation of HandleFailure: the package is not marked failed.
HandleFailureUnmarked(t) ==
    /\ pc[t] = "fail"
    /\ Goto(t, "deactivate")
    /\ UNCHANGED <<outside, queues, slots, execution, frame, status, job, stage>>

\* _handle_job_failure: an error of the status update is logged and ignored.
HandleFailure(t) ==
    /\ pc[t] = "fail"
    /\ \/ status' = [status EXCEPT ![PackageOf[fin[t]]] = "failed"]
       \/ DbErrors /\ UNCHANGED status
    /\ Goto(t, "deactivate")
    /\ UNCHANGED <<outside, queues, slots, execution, frame, job, stage>>

\* Mutation of PackageCallback: a terminal job that raised completes its package.
PackageCallbackAfterRaise(t) ==
    /\ pc[t] = "pkgCb"
    /\ status' = [status EXCEPT ![PackageOf[fin[t]]] = KindOf[fin[t]]]
    /\ Goto(t, "deactivate")
    /\ ret' = [ret EXCEPT ![t] = "idle"]
    /\ UNCHANGED <<outside, queues, slots, execution, fin, room, job, stage>>

\* Mutation of PackageCallback: the package is marked but not deactivated.
PackageCallbackKeepingSlot(t) ==
    /\ pc[t] = "pkgCb"
    /\ status' = IF future[fin[t]] = "none"
                 THEN [status EXCEPT ![PackageOf[fin[t]]] = KindOf[fin[t]]]
                 ELSE status
    /\ Resume(t, "idle")
    /\ UNCHANGED <<outside, queues, slots, execution, room, job, stage>>

\* _package_completed_callback: an error of the status update ends it.
PackageCallback(t) ==
    /\ pc[t] = "pkgCb"
    /\ \/ /\ future[fin[t]] = "none"
          /\ status' = [status EXCEPT ![PackageOf[fin[t]]] = KindOf[fin[t]]]
          /\ Goto(t, "deactivate")
          /\ ret' = [ret EXCEPT ![t] = "idle"]
          /\ UNCHANGED fin
       \/ /\ future[fin[t]] # "none" \/ DbErrors
          /\ Resume(t, "idle")
          /\ UNCHANGED status
    /\ UNCHANGED <<outside, queues, slots, execution, room, job, stage>>

\* A decision that was taken already: its choice is gone from waiting_choices.
Taken(j) == future[j] = "self" /\ j \notin waiting

\* deactivate_package, then queue_next_job.  await_decision gets here after it
\* let go of waiting_choices_lock: the decision may have been taken meanwhile.
Deactivate(t) ==
    /\ pc[t] = "deactivate"
    /\ lock = NoThread
    /\ active' = active \ {PackageOf[fin[t]]}
    /\ late' = IF Taken(fin[t]) THEN late \cup {fin[t]} ELSE late
    /\ Goto(t, "getDIP")
    /\ UNCHANGED <<outside, queues, lock, execution, frame, status, job, stage>>
-----------------------------------------------------------------------------
(* The main thread: work and process_one_job *)

\* The loop tests shutdown_event before every get.
Loop ==
    /\ pc[Main] = "idle"
    /\ Goto(Main, IF shutdown THEN "stopped" ELSE "get")
    /\ UNCHANGED <<outside, queues, slots, execution, frame, status, job, stage>>

\* get(timeout=1.0): a job, or Empty.
Get ==
    /\ pc[Main] = "get"
    /\ IF jobQueue # <<>>
       THEN /\ Take(Main, Head(jobQueue))
            /\ Move(Head(jobQueue), "held")
            /\ jobQueue' = Tail(jobQueue)
            /\ Goto(Main, "submit")
       ELSE Goto(Main, "idle") /\ UNCHANGED <<job, jobQueue, stage>>
    /\ UNCHANGED <<outside, deferred, slots, execution, frame, status>>

\* executor.submit raises after executor.shutdown, and that ends the loop.
Submit ==
    LET j == job[Main] IN
    /\ pc[Main] = "submit"
    /\ Release(Main)
    /\ IF shutdown
       THEN /\ Move(j, "lost")
            /\ Goto(Main, "stopped")
            /\ UNCHANGED <<execQueue, future, fin>>
       ELSE /\ execQueue' = Append(execQueue, [task |-> "run", job |-> j])
            /\ future' = [future EXCEPT ![j] = "submitted"]
            /\ fin' = [fin EXCEPT ![Main] = j]
            /\ Move(j, "executor")
            /\ Goto(Main, "addJobCb")
    /\ UNCHANGED <<outside, queues, slots, callbacks, ret, room, status>>

\* add_done_callback runs the callback at once when the future is finished.
AddJobCallback ==
    LET j == fin[Main] IN
    /\ pc[Main] = "addJobCb"
    /\ IF future[j] \in Results
       THEN /\ Goto(Main, "jobCb")
            /\ ret' = [ret EXCEPT ![Main] = "addPkgCb"]
            /\ UNCHANGED callbacks
       ELSE /\ Goto(Main, "addPkgCb")
            /\ callbacks' = [callbacks EXCEPT ![j] = @ \cup {"job"}]
            /\ UNCHANGED ret
    /\ UNCHANGED <<outside, queues, slots, execQueue, future, fin, room, status,
                   job, stage>>

AddPackageCallback ==
    LET j == fin[Main] IN
    /\ pc[Main] = "addPkgCb"
    /\ IF Terminal(j) /\ future[j] \in Results
       THEN Resume(Main, "pkgCb") /\ UNCHANGED callbacks
       ELSE /\ Resume(Main, "idle")
            /\ callbacks' = IF Terminal(j)
                            THEN [callbacks EXCEPT ![j] = @ \cup {"package"}]
                            ELSE callbacks
    /\ UNCHANGED <<outside, queues, slots, execQueue, future, room, status, job,
                   stage>>

\* The signal handler: shutdown_event.set(), executor.shutdown(wait=False).
SignalHandler ==
    /\ MayShutDown
    /\ ~shutdown
    /\ shutdown' = TRUE
    /\ UNCHANGED <<watched, submitted, waiting, queues, slots, execution, frame,
                   status, pc, job, stage>>
-----------------------------------------------------------------------------
(* The threads of the executor *)

\* A worker takes the oldest task: job.run, or the start of a new transfer.
TakeTask(w) ==
    /\ pc[w] = "idle"
    /\ execQueue # <<>>
    /\ execQueue' = Tail(execQueue)
    /\ LET j == Head(execQueue).job IN
       /\ fin' = [fin EXCEPT ![w] = j]
       /\ IF Head(execQueue).task = "run"
          THEN /\ future' = [future EXCEPT ![j] = "running"]
               /\ Move(j, "running")
               /\ Goto(w, "running")
               /\ UNCHANGED <<ret, status, job>>
          ELSE /\ status' = [status EXCEPT ![PackageOf[j]] = "processing"]
               /\ Take(w, j)
               /\ Move(j, "held")
               /\ Goto(w, "schedule")
               /\ ret' = [ret EXCEPT ![w] = "startup"]
               /\ UNCHANGED future
    /\ UNCHANGED <<outside, queues, slots, callbacks, room>>

\* The script has moved its packages; the job itself is still running.
RunScript(w) ==
    LET j == fin[w] IN
    /\ pc[w] = "running"
    /\ watched' = watched \cup DropsOf[j]
    /\ stage' = [k \in Jobs |-> IF k \in DropsOf[j] THEN "watched"
                                ELSE IF k = j THEN "ran" ELSE stage[k]]
    /\ Goto(w, "returning")
    /\ UNCHANGED <<submitted, waiting, shutdown, queues, slots, execution, frame,
                   status, job>>

\* What job.run may return: a decision nobody configured returns itself.
ResultsOf(j) ==
    {IF NextOf[j] = NoJob THEN "none" ELSE "next"}
        \cup (IF KindOf[j] = "decision" THEN {"self"} ELSE {})
        \cup (IF j \in MayRaise THEN {"raised"} ELSE {})

\* The worker finishes the future and runs the callbacks registered by then.
Finish(w) ==
    LET j == fin[w] IN
    /\ pc[w] \in {"running", "returning"}
    /\ \E r \in ResultsOf(j) :
        /\ pc[w] = "running" => r = "raised"
        /\ future' = [future EXCEPT ![j] = r]
    /\ Move(j, "returned")
    /\ callbacks' = [callbacks EXCEPT ![j] = {}]
    /\ IF "job" \in callbacks[j]
       THEN /\ Goto(w, "jobCb")
            /\ ret' = [ret EXCEPT ![w] = IF "package" \in callbacks[j]
                                         THEN "pkgCb" ELSE "idle"]
            /\ UNCHANGED fin
       ELSE Resume(w, "idle")
    /\ UNCHANGED <<outside, queues, slots, execQueue, room, status, job>>
-----------------------------------------------------------------------------
(* The watched-directory thread and the RPC threads *)

\* watched_dir_handler.  An error of its database updates, before or after
\* mark_as_processing, ends the thread; the package stays in its directory.
HandleWatchedDir ==
    /\ pc[Watcher] = "idle"
    /\ \E j \in watched :
        \/ /\ watched' = watched \ {j}
           /\ status' = [status EXCEPT ![PackageOf[j]] = "processing"]
           /\ Take(Watcher, j)
           /\ Move(j, "held")
           /\ Goto(Watcher, "schedule")
        \/ /\ DbErrors
           /\ \/ UNCHANGED status
              \/ status' = [status EXCEPT ![PackageOf[j]] = "processing"]
           /\ Goto(Watcher, "stopped")
           /\ UNCHANGED <<watched, job, stage>>
    /\ UNCHANGED <<submitted, waiting, shutdown, queues, slots, execution, frame>>

\* create_package marks the transfer processing and hands its start to the
\* executor; executor.submit raises after the signal, which marks it failed.
CreatePackage(t) ==
    /\ pc[t] = "idle"
    /\ \E j \in submitted :
        /\ submitted' = submitted \ {j}
        /\ IF shutdown
           THEN /\ status' = [status EXCEPT ![PackageOf[j]] = "failed"]
                /\ Move(j, "lost")
                /\ UNCHANGED execQueue
           ELSE /\ status' = [status EXCEPT ![PackageOf[j]] = "processing"]
                /\ Move(j, "starting")
                /\ execQueue' = Append(execQueue, [task |-> "start", job |-> j])
    /\ UNCHANGED <<watched, waiting, shutdown, queues, slots, future, callbacks,
                   frame, pc, job>>

\* Mutation of Decide: the job stays in waiting_choices.
DecideKeepingChoice(t) ==
    /\ pc[t] = "idle"
    /\ \E j \in waiting :
        IF NextOf[j] = NoJob
        THEN Move(j, "spent") /\ UNCHANGED <<pc, job>>
        ELSE /\ Take(t, NextOf[j])
             /\ stage' = [stage EXCEPT ![j] = "spent", ![NextOf[j]] = "held"]
             /\ Goto(t, "schedule")
    /\ UNCHANGED <<outside, queues, slots, execution, frame, status>>

\* decide, under waiting_choices_lock, then schedule_job.  A refused choice, an
\* unknown job, and an error after mark_complete, which leaves the choice open,
\* change nothing here.
Decide(t) ==
    /\ pc[t] = "idle"
    /\ \E j \in waiting :
        /\ waiting' = waiting \ {j}
        /\ IF NextOf[j] = NoJob
           THEN Move(j, "spent") /\ UNCHANGED <<pc, job>>
           ELSE /\ Take(t, NextOf[j])
                /\ stage' = [stage EXCEPT ![j] = "spent", ![NextOf[j]] = "held"]
                /\ Goto(t, "schedule")
    /\ UNCHANGED <<watched, submitted, shutdown, queues, slots, execution, frame,
                   status>>
-----------------------------------------------------------------------------
\* What any thread does once it is inside a call of the queue
QueueStep(t) ==
    \/ Schedule(t) \/ Acquire(t) \/ Put(t) \/ Defer(t)
    \/ GetDip(t) \/ GetSip(t) \/ GetTransfer(t) \/ Activate(t) \/ PutNowait(t)

\* What the thread that found a future finished does
CallbackStep(t) ==
    \/ JobCallback(t) \/ AwaitDecision(t) \/ HandleFailure(t)
    \/ PackageCallback(t) \/ Deactivate(t)

MainStep ==
    Loop \/ Get \/ Submit \/ AddJobCallback \/ AddPackageCallback

WorkerStep(w) == TakeTask(w) \/ RunScript(w) \/ Finish(w)

Next ==
    \/ \E t \in Threads : QueueStep(t)
    \/ \E t \in Workers \cup {Main} : CallbackStep(t)
    \/ MainStep
    \/ SignalHandler
    \/ \E w \in Workers : WorkerStep(w)
    \/ HandleWatchedDir
    \/ \E t \in RpcThreads : CreatePackage(t) \/ Decide(t)

Spec == Init /\ [][Next]_vars

\* Threads that can run do run; nobody is obliged to answer a decision.
Fairness ==
    /\ WF_vars(MainStep \/ QueueStep(Main) \/ CallbackStep(Main))
    /\ \A w \in Workers : WF_vars(WorkerStep(w) \/ QueueStep(w) \/ CallbackStep(w))
    /\ WF_vars(HandleWatchedDir \/ QueueStep(Watcher))
    /\ \A t \in RpcThreads : WF_vars(QueueStep(t)) /\ WF_vars(CreatePackage(t))

FairSpec == Spec /\ Fairness
-----------------------------------------------------------------------------
(* Properties *)

\* Every variable keeps its type, and a thread that schedules has a job.
TypeOK ==
    /\ watched \subseteq Jobs
    /\ submitted \subseteq Jobs
    /\ deferred \in [Types -> Seq(Jobs)]
    /\ jobQueue \in Seq(Jobs)
    /\ execQueue \in Seq(Tasks)
    /\ waiting \subseteq Jobs
    /\ active \subseteq Packages
    /\ lock \in Threads \cup {NoThread}
    /\ late \subseteq Jobs \cup {NoJob}
    /\ future \in [Jobs -> Futures]
    /\ callbacks \in [Jobs -> SUBSET {"job", "package"}]
    /\ status \in [Packages -> Statuses]
    /\ shutdown \in BOOLEAN
    /\ pc \in [Threads -> Pcs]
    /\ job \in [Threads -> Jobs \cup {NoJob}]
    /\ fin \in [Threads -> Jobs \cup {NoJob}]
    /\ ret \in [Threads -> {"idle", "addPkgCb", "pkgCb", "startup"}]
    /\ room \in [Threads -> BOOLEAN]
    /\ stage \in [Jobs -> Stages]
    /\ \A t \in Threads : pc[t] \in Holding => job[t] \in Jobs

\* Thread t is the one that has job j in its hands.
Holds(t, j) ==
    \/ pc[t] \in Holding /\ job[t] = j
    \/ pc[t] \in Handling /\ fin[t] = j

\* Everywhere the server keeps job j
Positions(s, j) == {i \in 1..Len(s) : s[i] = j}
Places(j) ==
    ({"watched"} \X (watched \cap {j}))
        \cup ({"submitted"} \X (submitted \cap {j}))
        \cup ({"waiting"} \X (waiting \cap {j}))
        \cup (UNION {{ty} \X Positions(deferred[ty], j) : ty \in Types})
        \cup ({"job_queue"} \X Positions(jobQueue, j))
        \cup ({"executor"} \X {i \in 1..Len(execQueue) : execQueue[i].job = j})
        \cup ({"thread"} \X {t \in Threads : Holds(t, j)})

\* A job is in one place at most: no interleaving of the callbacks, the
\* decisions and the schedulers duplicates it.
JobInOnePlace == \A j \in Jobs : \A p, q \in Places(j) : p = q

\* A job is submitted to the executor once, and its result never changes.
SubmittedOnce(j) ==
    /\ future'[j] \in {"unsubmitted", "submitted"} =>
            future[j] \in {"unsubmitted", future'[j]}
    /\ future[j] \in Results => future'[j] = future[j]
RunsOnce == [][\A j \in Jobs : SubmittedOnce(j)]_vars

\* A job is only submitted after the one before it in the chain returned
\* without raising.
SubmittedInOrder(j, k) ==
    NextOf[j] = k /\ future[k] = "unsubmitted" /\ future'[k] = "submitted"
        => future[j] \in {"next", "self"}
ChainOrder == [][\A j, k \in Jobs : SubmittedInOrder(j, k)]_vars

\* A package whose jobs form one chain is never left marked done when a job of
\* it raised: the failure callback is not overwritten by the terminal one.
DoneMeansClean ==
    \A j \in Jobs : future[j] = "raised" => status[PackageOf[j]] # "done"

\* The control points of a thread that will still deactivate the package of
\* fin[t], or register the callback that does.
Completing(t) ==
    \/ pc[t] \in {"fail", "pkgCb", "deactivate", "addJobCb", "addPkgCb"}
    \/ ret[t] \in {"pkgCb", "addPkgCb"}

\* A package that occupies a slot has a job alive, or somebody about to give
\* the slot back.
ActiveHasOwner ==
    \A p \in active : \E j \in Jobs :
        /\ PackageOf[j] = p
        /\ \/ Places(j) # {}
           \/ future[j] = "submitted" \* taken off the work queue only to run
           \/ callbacks[j] # {}
           \/ \E t \in Threads : fin[t] = j /\ Completing(t)

\* The promise of JobFlow.  Where a job stands is read off the queues, futures
\* and threads; the history only tells what has left them.
Phase(j) ==
    CASE stage[j] = "absent" -> "absent"
      [] stage[j] = "spent" -> "ended"
      [] stage[j] = "lost" -> "dropped"
      [] OTHER -> IF j \in waiting THEN "awaiting"
                  ELSE IF future[j] \in Results THEN "returned"
                  ELSE IF future[j] = "running" THEN "running"
                  ELSE IF Places(j) # {} THEN "pending"
                  ELSE "forgotten"

Flow == INSTANCE JobFlow WITH
            FirstJobs <- Arrivals \cup Submissions,
            Decisions <- {j \in Jobs : KindOf[j] = "decision"},
            phase <- [j \in Jobs |-> Phase(j)]

\* Every step of the threads is a step of the life of one job, or none.
ImplementsJobFlow == Flow!Spec

\* Threads that may still activate a package
Activating ==
    {t \in Threads : \/ pc[t] \in {"getDIP", "getSIP", "getTransfer", "activate"}
                     \/ (pc[t] = "defer" /\ room[t])}

\* What the class promises: at most CONCURRENT_PACKAGES are active at one time.
AtMostConcurrentPackages == Cardinality(active) <= MaxConcurrent

\* What it keeps: the packages in active_packages, and the threads that may add
\* one, exceed the limit by less than one per thread, and by one more for each
\* decision that was taken before its package lost the slot.  The excess does
\* not go away when the threads have acted.
Overshoot == Cardinality(active) + Cardinality(Activating)
                <= MaxConcurrent + Cardinality(Threads) - 1 + Cardinality(late)

\* The slot of package p was given back after its decision had been taken, so
\* that the jobs after the decision may run without one.
Late(p) == \E d \in late : PackageOf[d] = p

\* A job waits for execution only while its package is active, unless a decision
\* of the package was taken before the package was deactivated for it.
QueuedIsActive ==
    \A i \in DOMAIN jobQueue :
        PackageOf[jobQueue[i]] \in active \/ Late(PackageOf[jobQueue[i]])

\* A package that is being processed reaches an end, or a decision.
PackagesSettle ==
    \A p \in Packages :
        status[p] = "processing" ~> \/ status[p] \in {"done", "failed"}
                                    \/ \E j \in waiting : PackageOf[j] = p

\* A slot that is taken is given back.
SlotsAreReleased == \A p \in Packages : p \in active ~> p \notin active

\* A deferred job is released when a package stops processing.
DeferredIsReleased ==
    \A j \in Jobs : stage[j] = "deferred" ~> stage[j] # "deferred"

\* The main thread ends after a termination signal.
WorkEndsOnSignal == shutdown ~> pc[Main] = "stopped"
=============================================================================
