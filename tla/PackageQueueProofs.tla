------------------------- MODULE PackageQueueProofs -------------------------
(***************************************************************************)
(* Proofs about PackageQueue for every workflow forest, number of threads, *)
(* capacity and set of jobs that may raise.                                *)
(*                                                                         *)
(* StageAgrees (PackageQueueInv) is inductive: InitInv and StepInv, which  *)
(* has one lemma per action.  The lemmas before them factor what actions   *)
(* share: a queue that only moves other jobs (DeferredKept, ...), a step   *)
(* that moves no job (QuietStep, QuietThread), a thread that leaves the    *)
(* queue (ExitThreads, ExitStages, LoseStep, EmptyReturn), and a job that  *)
(* is ended or followed by its successor (SpendStep, SuccessorStep).       *)
(***************************************************************************)
EXTENDS PackageQueueInv, SequenceTheorems, TLAPS

(* What Append returns, index by index. *)
LEMMA AppendFacts ==
    ASSUME NEW S, NEW s \in Seq(S), NEW x \in S
    PROVE  /\ Append(s, x) \in Seq(S)
           /\ Len(s) \in Nat
           /\ Len(Append(s, x)) = Len(s) + 1
           /\ \A i \in 1..Len(s) : Append(s, x)[i] = s[i]
           /\ Append(s, x)[Len(s) + 1] = x
  BY AppendProperties, LenProperties

(* What Head and Tail return of a sequence that is not empty. *)
LEMMA TailFacts ==
    ASSUME NEW S, NEW s \in Seq(S), s # <<>>
    PROVE  /\ Head(s) \in S
           /\ Head(s) = s[1]
           /\ Tail(s) \in Seq(S)
           /\ Len(s) \in Nat \ {0}
           /\ Len(Tail(s)) = Len(s) - 1
           /\ \A i \in 1..Len(Tail(s)) : Tail(s)[i] = s[i + 1]
  <1>1. Len(s) \in Nat \ {0} BY LenProperties, EmptySeq
  <1> QED BY <1>1, HeadTailProperties, LenProperties

(* Every queue holds jobs only. *)
LEMMA Elements ==
    ASSUME TypeOK
    PROVE  /\ \A ty \in Types :
                /\ deferred[ty] \in Seq(Jobs)
                /\ Len(deferred[ty]) \in Nat
                /\ \A i \in 1..Len(deferred[ty]) : deferred[ty][i] \in Jobs
           /\ Len(jobQueue) \in Nat
           /\ \A i \in 1..Len(jobQueue) : jobQueue[i] \in Jobs
           /\ Len(execQueue) \in Nat
           /\ \A i \in 1..Len(execQueue) :
                /\ execQueue[i] \in Tasks
                /\ execQueue[i].job \in Jobs
                /\ execQueue[i].task \in {"start", "run"}
  <1>1. ASSUME NEW ty \in Types
        PROVE  /\ deferred[ty] \in Seq(Jobs)
               /\ Len(deferred[ty]) \in Nat
               /\ \A i \in 1..Len(deferred[ty]) : deferred[ty][i] \in Jobs
    <2>1. deferred[ty] \in Seq(Jobs) BY DEF TypeOK
    <2> QED BY <2>1, LenProperties
  <1>2. Len(jobQueue) \in Nat /\ \A i \in 1..Len(jobQueue) : jobQueue[i] \in Jobs
    BY LenProperties DEF TypeOK
  <1>3. /\ Len(execQueue) \in Nat
        /\ \A i \in 1..Len(execQueue) : execQueue[i] \in Tasks
    BY LenProperties DEF TypeOK
  <1>4. \A x \in Tasks : x.job \in Jobs /\ x.task \in {"start", "run"}
    BY DEF Tasks
  <1> QED BY <1>1, <1>2, <1>3, <1>4

Exits == {"idle", "addPkgCb", "pkgCb", "stopped", "getDIP", "fail"}

(* Where a call into the queue can leave a thread, no job is in its hands. *)
LEMMA ExitPcs ==
    Exits \subseteq
        Pcs \ (Handling \cup Holding \cup {"get", "submit", "addJobCb"})
  BY DEF Exits, Pcs, Handling, Holding

(* A call that returns leaves the queue at the place its caller noted. *)
LEMMA ReturnExits ==
    ASSUME TypeOK, NEW t \in Threads, Return(t)
    PROVE  \E l \in Exits :
                Resume(t, l) /\ (l \in {"addPkgCb", "pkgCb"} => l = ret[t])
  <1>1. ret[t] \in {"idle", "addPkgCb", "pkgCb", "startup"} BY DEF TypeOK
  <1> QED BY <1>1 DEF Return, Exits

(* A call that raises leaves the queue in the same way, or ends its thread. *)
LEMMA LoseExits ==
    ASSUME TypeOK, NEW t \in Threads, Lose(t)
    PROVE  \E l \in Exits :
                Resume(t, l) /\ (l \in {"addPkgCb", "pkgCb"} => l = ret[t])
  <1>1. CASE t = Watcher BY <1>1 DEF Lose, Exits
  <1>2. CASE t # Watcher BY <1>2, ReturnExits DEF Lose
  <1> QED BY <1>1, <1>2

(* What Resume does to the locals of its thread and of the others. *)
LEMMA ResumeTypes ==
    ASSUME TypeOK, NEW t \in Threads, NEW l \in Pcs, Resume(t, l)
    PROVE  /\ pc' \in [Threads -> Pcs]
           /\ fin' \in [Threads -> Jobs \cup {NoJob}]
           /\ ret' \in [Threads -> {"idle", "addPkgCb", "pkgCb", "startup"}]
           /\ pc'[t] = l
           /\ \A u \in Threads \ {t} :
                pc'[u] = pc[u] /\ fin'[u] = fin[u] /\ ret'[u] = ret[u]
           /\ l # "idle" => fin'[t] = fin[t] /\ ret'[t] = ret[t]
           /\ l = "idle" => ret'[t] = "idle"
  BY DEF TypeOK, Resume, Goto

(* A thread that leaves the queue disturbs no other thread. *)
LEMMA ExitThreads ==
    ASSUME StageAgrees, NEW t \in Threads,
           NEW l \in Pcs \ (Handling \cup {"get", "submit", "addJobCb"}),
           Resume(t, l),
           l \in {"addPkgCb", "pkgCb"} => l = ret[t],
           UNCHANGED <<future, callbacks>>,
           stage' \in [Jobs -> Stages],
           \A j \in Jobs :
                stage[j] \in {"executor", "running", "ran", "returned"} =>
                    \/ stage'[j] = stage[j]
                    \/ pc[t] \in {"jobCb", "await"} /\ j = fin[t]
    PROVE  HandlersAgree' /\ CallbacksAgree'
  <1>1. /\ pc'[t] = l
        /\ \A u \in Threads \ {t} :
                pc'[u] = pc[u] /\ fin'[u] = fin[u] /\ ret'[u] = ret[u]
        /\ l # "idle" => fin'[t] = fin[t] /\ ret'[t] = ret[t]
        /\ l = "idle" => ret'[t] = "idle"
    BY ResumeTypes DEF StageAgrees
  <1>2. HandlersAgree'
    <2>1. ASSUME NEW u \in Threads, pc'[u] \in Handling
          PROVE  u # t /\ pc[u] \in Handling /\ pc'[u] = pc[u] /\ fin'[u] = fin[u]
      BY <1>1, <2>1
    <2>2. ASSUME NEW u \in Threads, pc'[u] \in Handling
          PROVE  /\ fin'[u] \in Jobs /\ stage'[fin'[u]] = stage[fin[u]]
                 /\ future'[fin'[u]] = future[fin[u]]
      <3>1. /\ fin[u] \in Jobs
            /\ stage[fin[u]] \in {"executor", "running", "ran", "returned"}
        BY <2>1, <2>2 DEF StageAgrees, HandlersAgree, Handling
      <3>2. ~(pc[t] \in {"jobCb", "await"} /\ fin[u] = fin[t])
        BY <2>1, <2>2 DEF StageAgrees, HandlersAgree, Handling
      <3> QED BY <2>1, <2>2, <3>1, <3>2
    <2>3. \A u \in Threads :
            /\ pc'[u] \in Handling => fin'[u] \in Jobs
            /\ pc'[u] = "running" => stage'[fin'[u]] = "running"
            /\ pc'[u] = "returning" => stage'[fin'[u]] = "ran"
            /\ pc'[u] \in {"jobCb", "await"} => stage'[fin'[u]] = "returned"
            /\ pc'[u] = "await" => future'[fin'[u]] = "self"
      BY <2>1, <2>2 DEF StageAgrees, HandlersAgree, Handling
    <2>4. ASSUME NEW u \in Threads, NEW v \in Threads, pc'[u] \in Handling,
                 pc'[v] \in Handling, fin'[u] = fin'[v]
          PROVE  u = v
      BY <2>1, <2>4 DEF StageAgrees, HandlersAgree
    <2> QED BY <2>3, <2>4 DEF HandlersAgree
  <1>3. CallbacksAgree'
    <2> USE ThreadAssumption DEF Threads
    <2>1. pc[t] \in {"jobCb", "await"} => stage[fin[t]] = "returned"
      BY DEF StageAgrees, HandlersAgree
    <2>2. \A j \in Jobs :
             /\ callbacks'[j] # {} => stage'[j] \in {"executor", "running", "ran"}
             /\ "package" \in callbacks'[j] => Terminal(j)
      BY <2>1 DEF StageAgrees, CallbacksAgree
    <2>3. pc'[Main] = "addJobCb" =>
            /\ fin'[Main] \in Jobs
            /\ callbacks'[fin'[Main]] = {}
            /\ stage'[fin'[Main]] \in {"executor", "running", "ran", "returned"}
            /\ \A u \in Threads : ~(pc'[u] \in {"jobCb", "await"} /\ fin'[u] = fin'[Main])
      BY <1>1 DEF StageAgrees, CallbacksAgree, Handling
    <2>4. pc'[Main] = "addPkgCb" \/ ret'[Main] = "addPkgCb" =>
            fin'[Main] \in Jobs /\ future'[fin'[Main]] # "unsubmitted"
      BY <1>1 DEF StageAgrees, CallbacksAgree
    <2>5. \A u \in Threads :
            /\ pc'[u] = "pkgCb" \/ ret'[u] = "pkgCb" => fin'[u] \in Jobs /\ Terminal(fin'[u])
            /\ pc'[u] \in {"idle", "get", "submit"} => ret'[u] = "idle"
      BY <1>1 DEF StageAgrees, CallbacksAgree
    <2> QED BY <2>2, <2>3, <2>4, <2>5 DEF CallbacksAgree
  <1> QED BY <1>2, <1>3

(* The job in hand leaves to stage to, and the thread leaves the queue.    *)
LEMMA ExitStages ==
    ASSUME StageAgrees, NEW t \in Threads, NEW l \in Exits, Resume(t, l),
           l \in {"addPkgCb", "pkgCb"} => l = ret[t],
           pc[t] \in Holding, NEW to \in {"lost", "deferred", "queued"},
           Move(job[t], to), Release(t),
           UNCHANGED <<outside, execution>>
    PROVE  /\ job[t] \in Jobs
           /\ stage[job[t]] = "held"
           /\ stage' \in [Jobs -> Stages]
           /\ pc' \in [Threads -> Pcs]
           /\ fin' \in [Threads -> Jobs \cup {NoJob}]
           /\ ret' \in [Threads -> {"idle", "addPkgCb", "pkgCb", "startup"}]
           /\ job' \in [Threads -> Jobs \cup {NoJob}]
           /\ \A u \in Threads : pc'[u] \in Holding => job'[u] \in Jobs
           /\ FutureAgrees' /\ SetsAgree' /\ ExecQueueAgrees' /\ HoldersAgree'
           /\ HandlersAgree' /\ CallbacksAgree' /\ ForestAgrees'
  <1>1. l \in Pcs BY DEF Exits, Pcs
  <1>2. /\ pc' \in [Threads -> Pcs]
        /\ fin' \in [Threads -> Jobs \cup {NoJob}]
        /\ ret' \in [Threads -> {"idle", "addPkgCb", "pkgCb", "startup"}]
        /\ pc'[t] = l
        /\ \A u \in Threads \ {t} : pc'[u] = pc[u]
    BY <1>1, ResumeTypes DEF StageAgrees
  <1>3. job[t] \in Jobs /\ stage[job[t]] = "held"
    BY DEF StageAgrees, TypeOK, HoldersAgree
  <1>4. stage' \in [Jobs -> Stages]
    BY DEF StageAgrees, TypeOK, Move, Stages
  <1>5. \A j \in Jobs : stage'[j] = IF j = job[t] THEN to ELSE stage[j]
    BY DEF StageAgrees, TypeOK, Move
  <1>6. /\ job' \in [Threads -> Jobs \cup {NoJob}]
        /\ \A u \in Threads \ {t} : job'[u] = job[u]
    BY DEF StageAgrees, TypeOK, Release
  <1>7. \A u \in Threads : pc'[u] \in Holding =>
            u # t /\ pc[u] \in Holding /\ job'[u] = job[u] /\ job[u] \in Jobs
    BY <1>2, <1>6 DEF StageAgrees, TypeOK, Exits, Holding
  <1>8. FutureAgrees'
    BY <1>3, <1>5 DEF StageAgrees, FutureAgrees, execution
  <1>9. SetsAgree'
    BY <1>3, <1>5 DEF StageAgrees, TypeOK, SetsAgree, outside
  <1>10. ExecQueueAgrees'
    <2>1. \A i \in 1..Len(execQueue) : execQueue[i].job \in Jobs
      BY Elements DEF StageAgrees
    <2> QED BY <2>1, <1>3, <1>5 DEF StageAgrees, ExecQueueAgrees, execution
  <1>11. HoldersAgree'
    BY <1>3, <1>5, <1>7 DEF StageAgrees, HoldersAgree
  <1>12. HandlersAgree' /\ CallbacksAgree'
    <2>1. UNCHANGED <<future, callbacks>> BY DEF execution
    <2>2. \A j \in Jobs :
            stage[j] \in {"executor", "running", "ran", "returned"} => stage'[j] = stage[j]
      BY <1>3, <1>5
    <2> QED BY <1>4, <2>1, <2>2, ExitPcs, ExitThreads
  <1>13. ForestAgrees'
    BY <1>3, <1>5, WorkflowAssumption DEF StageAgrees, ForestAgrees
  <1> QED BY <1>2, <1>3, <1>4, <1>6, <1>7, <1>8, <1>9, <1>10, <1>11, <1>12, <1>13

(* A step that leaves the deferred queues and their jobs alone keeps them. *)
LEMMA DeferredKept ==
    ASSUME StageAgrees, UNCHANGED deferred,
           \A j \in Jobs : stage[j] = "deferred" => stage'[j] = stage[j]
    PROVE  DeferredAgrees'
  BY Elements DEF StageAgrees, DeferredAgrees

(* The same of job_queue. *)
LEMMA JobQueueKept ==
    ASSUME StageAgrees, UNCHANGED jobQueue,
           \A j \in Jobs : stage[j] = "queued" => stage'[j] = stage[j]
    PROVE  JobQueueAgrees'
  BY Elements DEF StageAgrees, JobQueueAgrees

(* The same of the executor's work queue. *)
LEMMA ExecQueueKept ==
    ASSUME StageAgrees, UNCHANGED execQueue,
           \A j \in Jobs : stage[j] \in {"executor", "starting"} => stage'[j] = stage[j]
    PROVE  ExecQueueAgrees'
  BY Elements DEF StageAgrees, ExecQueueAgrees

(* Thread t takes a job that nobody held. *)
LEMMA HoldersTaken ==
    ASSUME StageAgrees, NEW t \in Threads, NEW j \in Jobs,
           stage[j] # "held", stage'[j] = "held", job'[t] = j,
           \A u \in Threads \ {t} : pc'[u] = pc[u] /\ job'[u] = job[u],
           \A k \in Jobs : stage[k] = "held" => stage'[k] = "held"
    PROVE  HoldersAgree'
  <1>1. ASSUME NEW u \in Threads \ {t}, pc'[u] \in Holding
        PROVE  /\ pc[u] \in Holding /\ job'[u] = job[u] /\ job'[u] # j
               /\ stage'[job'[u]] = "held"
    BY <1>1 DEF StageAgrees, TypeOK, HoldersAgree
  <1> QED BY <1>1 DEF StageAgrees, HoldersAgree

(* A step that moves no job. *)
LEMMA QuietStep ==
    ASSUME StageAgrees,
           UNCHANGED <<watched, submitted, waiting, queues, execQueue, future, job,
                       stage>>,
           \A u \in Threads : pc'[u] \in Holding => pc[u] \in Holding
    PROVE  /\ FutureAgrees' /\ SetsAgree' /\ DeferredAgrees' /\ JobQueueAgrees'
           /\ ExecQueueAgrees' /\ HoldersAgree' /\ ForestAgrees'
  <1>1. DeferredAgrees' /\ JobQueueAgrees' /\ ExecQueueAgrees'
    BY DeferredKept, JobQueueKept, ExecQueueKept DEF queues
  <1>2. FutureAgrees' BY DEF StageAgrees, FutureAgrees
  <1>3. SetsAgree' BY DEF StageAgrees, SetsAgree
  <1>4. HoldersAgree' BY DEF StageAgrees, HoldersAgree
  <1>5. ForestAgrees' BY DEF StageAgrees, ForestAgrees
  <1> QED BY <1>1, <1>2, <1>3, <1>4, <1>5

(* ... of a thread t that handles no job of its own afterwards. *)
LEMMA QuietThread ==
    ASSUME StageAgrees, NEW t \in Threads,
           UNCHANGED <<watched, submitted, waiting, queues, execQueue, future,
                       callbacks, fin, ret, job, stage>>,
           NEW l \in Pcs \ (Handling \cup {"idle", "get", "submit", "addJobCb",
                                       "addPkgCb", "pkgCb"}),
           Goto(t, l), l \in Holding => pc[t] \in Holding,
           TypeOK'
    PROVE  StageAgrees'
  <1>1. pc' = [pc EXCEPT ![t] = l] /\ pc \in [Threads -> Pcs]
    BY DEF Goto, StageAgrees, TypeOK
  <1>2. /\ FutureAgrees' /\ SetsAgree' /\ DeferredAgrees' /\ JobQueueAgrees'
        /\ ExecQueueAgrees' /\ HoldersAgree' /\ ForestAgrees'
    BY <1>1, QuietStep
  <1>3. HandlersAgree' BY <1>1 DEF StageAgrees, HandlersAgree, Handling
  <1>4. CallbacksAgree'
    BY <1>1, ThreadAssumption DEF StageAgrees, CallbacksAgree, Handling, Threads
  <1> QED BY <1>2, <1>3, <1>4 DEF StageAgrees

(* The job in hand is lost: its thread is the only one to notice.          *)
LEMMA LoseStep ==
    ASSUME StageAgrees, NEW t \in Threads, pc[t] \in Holding, Lose(t),
           UNCHANGED <<outside, queues, slots, execution>>,
           room' \in [Threads -> BOOLEAN]
    PROVE  StageAgrees'
  <1>1. PICK l \in Exits :
            Resume(t, l) /\ (l \in {"addPkgCb", "pkgCb"} => l = ret[t])
    BY LoseExits DEF StageAgrees
  <1>2. Move(job[t], "lost") /\ Release(t) BY DEF Lose
  <1>3. /\ job[t] \in Jobs
        /\ stage[job[t]] = "held"
        /\ stage' \in [Jobs -> Stages]
        /\ pc' \in [Threads -> Pcs]
        /\ fin' \in [Threads -> Jobs \cup {NoJob}]
        /\ ret' \in [Threads -> {"idle", "addPkgCb", "pkgCb", "startup"}]
        /\ job' \in [Threads -> Jobs \cup {NoJob}]
        /\ \A u \in Threads : pc'[u] \in Holding => job'[u] \in Jobs
        /\ FutureAgrees' /\ SetsAgree' /\ ExecQueueAgrees' /\ HoldersAgree'
        /\ HandlersAgree' /\ CallbacksAgree' /\ ForestAgrees'
    BY <1>1, <1>2, ExitStages
  <1>4. \A j \in Jobs : stage[j] # "held" => stage'[j] = stage[j]
    BY <1>2, <1>3 DEF Move, StageAgrees, TypeOK
  <1>5. status' \in [Packages -> Statuses]
    BY DEF Lose, StageAgrees, TypeOK, Statuses
  <1>6. TypeOK'
    BY <1>3, <1>5 DEF StageAgrees, TypeOK, outside, queues, slots, execution
  <1>7. DeferredAgrees'
    <2>1. \A ty \in Types : \A i \in 1..Len(deferred[ty]) : deferred[ty][i] \in Jobs
      BY Elements DEF StageAgrees
    <2> QED BY <2>1, <1>4 DEF StageAgrees, DeferredAgrees, queues
  <1>8. JobQueueAgrees'
    <2>1. \A i \in 1..Len(jobQueue) : jobQueue[i] \in Jobs
      BY Elements DEF StageAgrees
    <2> QED BY <2>1, <1>4 DEF StageAgrees, JobQueueAgrees, queues
  <1> QED BY <1>3, <1>6, <1>7, <1>8 DEF StageAgrees

(* schedule_job, the test of shutdown_event, keeps the invariant. *)
LEMMA ScheduleStep ==
    ASSUME StageAgrees, NEW t \in Threads, Schedule(t)
    PROVE  StageAgrees'
  <1>1. CASE shutdown
    <2>1. pc[t] \in Holding /\ Lose(t) BY <1>1 DEF Schedule, Holding
    <2>2. UNCHANGED <<outside, queues, slots, execution>> /\ room' = room
      BY DEF Schedule
    <2>3. room \in [Threads -> BOOLEAN] BY DEF StageAgrees, TypeOK
    <2> QED BY <2>1, <2>2, <2>3, LoseStep
  <1>2. CASE ~shutdown
    <2>1. Goto(t, "acquire") /\ UNCHANGED <<fin, ret, status, job, stage>>
      BY <1>2 DEF Schedule
    <2>2. TypeOK'
      BY <2>1, <1>2 DEF Schedule, StageAgrees, TypeOK, outside, queues, slots,
            execution, Goto, Pcs, Holding
    <2> QED BY <2>1, <2>2, QuietThread
            DEF Schedule, Pcs, Handling, Holding, outside, execution
  <1> QED BY <1>1, <1>2

(* schedule_job, the reading of active_packages, keeps the invariant. *)
LEMMA AcquireStep ==
    ASSUME StageAgrees, NEW t \in Threads, Acquire(t)
    PROVE  StageAgrees'
  <1>1. PICK l \in {"put", "defer"} : Goto(t, l) BY DEF Acquire
  <1>2. room' \in [Threads -> BOOLEAN] /\ lock' \in Threads \cup {NoThread}
    <2>1. \A b \in BOOLEAN : [room EXCEPT ![t] = b] \in [Threads -> BOOLEAN]
      BY DEF StageAgrees, TypeOK
    <2>2. (Cardinality(active) < MaxConcurrent) \in BOOLEAN OBVIOUS
    <2>3. room' = room \/ room' = [room EXCEPT ![t] = Cardinality(active) < MaxConcurrent]
      BY DEF Acquire
    <2>4. room' \in [Threads -> BOOLEAN]
      BY <2>1, <2>2, <2>3, Zenon DEF StageAgrees, TypeOK
    <2>5. lock' \in Threads \cup {NoThread} BY DEF Acquire, StageAgrees, TypeOK
    <2> QED BY <2>4, <2>5
  <1>3. TypeOK'
    BY <1>1, <1>2 DEF Acquire, StageAgrees, TypeOK, outside, queues, execution, Goto,
          Pcs, Holding
  <1> QED BY <1>1, <1>3, QuietThread
          DEF Acquire, Pcs, Handling, Holding, outside, execution

(* activate_package keeps the invariant. *)
LEMMA ActivateStep ==
    ASSUME StageAgrees, NEW t \in Threads, Activate(t)
    PROVE  StageAgrees'
  <1>1. active' \in SUBSET Packages
    BY WorkflowAssumption DEF Activate, StageAgrees, TypeOK, Holding
  <1>2. TypeOK'
    BY <1>1 DEF Activate, StageAgrees, TypeOK, outside, queues, execution, frame, Goto,
          Pcs, Holding
  <1> QED BY <1>2, QuietThread
          DEF Activate, Pcs, Handling, Holding, outside, execution, frame

(* _handle_job_failure keeps the invariant. *)
LEMMA HandleFailureStep ==
    ASSUME StageAgrees, NEW t \in Threads, HandleFailure(t)
    PROVE  StageAgrees'
  <1>1. status' \in [Packages -> Statuses]
    BY DEF HandleFailure, StageAgrees, TypeOK, Statuses
  <1>2. TypeOK'
    BY <1>1 DEF HandleFailure, StageAgrees, TypeOK, outside, queues, slots, execution,
          frame, Goto, Pcs, Holding
  <1> QED BY <1>2, QuietThread
          DEF HandleFailure, Pcs, Handling, Holding, outside, execution, frame

(* deactivate_package keeps the invariant. *)
LEMMA DeactivateStep ==
    ASSUME StageAgrees, NEW t \in Threads, Deactivate(t)
    PROVE  StageAgrees'
  <1>1. TypeOK'
    BY DEF Deactivate, StageAgrees, TypeOK, outside, queues, execution, frame, Goto,
          Pcs, Holding
  <1> QED BY <1>1, QuietThread
          DEF Deactivate, Pcs, Handling, Holding, outside, execution, frame

(* A thread that leaves the queue with no job in hand. *)
LEMMA EmptyReturn ==
    ASSUME StageAgrees, NEW t \in Threads, NEW l \in Exits, Resume(t, l),
           l \in {"addPkgCb", "pkgCb"} => l = ret[t],
           UNCHANGED <<outside, queues, execution, job, stage>>,
           TypeOK'
    PROVE  StageAgrees'
  <1>1. l \in Pcs BY DEF Exits, Pcs
  <1>2. pc'[t] = l /\ \A u \in Threads \ {t} : pc'[u] = pc[u]
    BY <1>1, ResumeTypes DEF StageAgrees
  <1>3. \A u \in Threads : pc'[u] \in Holding => pc[u] \in Holding
    BY <1>2 DEF Exits, Holding
  <1>4. /\ FutureAgrees' /\ SetsAgree' /\ DeferredAgrees' /\ JobQueueAgrees'
        /\ ExecQueueAgrees' /\ HoldersAgree' /\ ForestAgrees'
    BY <1>3, QuietStep DEF outside, execution
  <1>5. HandlersAgree' /\ CallbacksAgree'
    <2>1. UNCHANGED <<future, callbacks>> /\ stage' = stage BY DEF execution
    <2>2. stage \in [Jobs -> Stages] BY DEF StageAgrees, TypeOK
    <2> QED BY <2>1, <2>2, ExitPcs, ExitThreads
  <1> QED BY <1>4, <1>5 DEF StageAgrees

(* The next deferred job is taken, or the queue is left as it was. *)
LEMMA GetDeferredStep ==
    ASSUME StageAgrees, NEW t \in Threads, NEW ty \in Types,
           pc[t] \in {"getDIP", "getSIP", "getTransfer"},
           deferred[ty] # <<>>,
           Take(t, Head(deferred[ty])),
           Move(Head(deferred[ty]), "held"),
           deferred' = [deferred EXCEPT ![ty] = Tail(@)],
           Goto(t, "activate"),
           UNCHANGED <<fin, ret, outside, jobQueue, slots, execution, room, status>>
    PROVE  StageAgrees'
  <1> DEFINE s == deferred[ty]
             j == Head(s)
  <1>1. /\ s \in Seq(Jobs) /\ j \in Jobs /\ j = s[1] /\ Tail(s) \in Seq(Jobs)
        /\ Len(s) \in Nat \ {0} /\ Len(Tail(s)) = Len(s) - 1
        /\ \A i \in 1..Len(Tail(s)) : Tail(s)[i] = s[i + 1]
    BY Elements, TailFacts DEF StageAgrees
  <1>2. stage[j] = "deferred" /\ \A i \in 1..Len(s) : s[i] = j => i = 1
    BY <1>1 DEF StageAgrees, DeferredAgrees, Distinct
  <1>3. /\ stage' \in [Jobs -> Stages]
        /\ \A k \in Jobs : stage'[k] = IF k = j THEN "held" ELSE stage[k]
    BY <1>1 DEF Move, StageAgrees, TypeOK, Stages
  <1>4. /\ job' \in [Threads -> Jobs \cup {NoJob}] /\ job'[t] = j
        /\ \A u \in Threads \ {t} : job'[u] = job[u]
    BY <1>1 DEF Take, StageAgrees, TypeOK
  <1>5. /\ pc' \in [Threads -> Pcs] /\ pc'[t] = "activate"
        /\ \A u \in Threads \ {t} : pc'[u] = pc[u]
    BY DEF Goto, StageAgrees, TypeOK, Pcs
  <1>6. /\ deferred' \in [Types -> Seq(Jobs)] /\ deferred'[ty] = Tail(s)
        /\ \A u \in Types \ {ty} : deferred'[u] = deferred[u]
    BY <1>1 DEF StageAgrees, TypeOK
  <1>7. \A u \in Threads : pc'[u] \in Holding => job'[u] \in Jobs
    BY <1>1, <1>4, <1>5 DEF StageAgrees, TypeOK
  <1>8. TypeOK'
    BY <1>3, <1>4, <1>5, <1>6, <1>7 DEF StageAgrees, TypeOK, outside, slots, execution
  <1>9. FutureAgrees'
    BY <1>2, <1>3 DEF StageAgrees, FutureAgrees, execution
  <1>10. SetsAgree'
    BY <1>2, <1>3 DEF StageAgrees, TypeOK, SetsAgree, outside
  <1>11. DeferredAgrees'
    <2>1. ASSUME NEW u \in Types \ {ty}
          PROVE  /\ Distinct(deferred'[u])
                 /\ \A i \in 1..Len(deferred'[u]) :
                        /\ stage'[deferred'[u][i]] = "deferred"
                        /\ TypeOf[deferred'[u][i]] = u
      <3>1. \A i \in 1..Len(deferred[u]) :
                deferred[u][i] \in Jobs /\ stage[deferred[u][i]] = "deferred"
                /\ TypeOf[deferred[u][i]] = u
        BY Elements DEF StageAgrees, DeferredAgrees
      <3>2. Distinct(deferred[u]) BY DEF StageAgrees, DeferredAgrees
      <3>3. TypeOf[j] = ty BY <1>1 DEF StageAgrees, DeferredAgrees
      <3> QED BY <3>1, <3>2, <3>3, <1>3, <1>6
    <2>2. /\ Distinct(Tail(s))
          /\ \A i \in 1..Len(Tail(s)) :
                stage'[Tail(s)[i]] = "deferred" /\ TypeOf[Tail(s)[i]] = ty
      <3>1. ASSUME NEW i \in 1..Len(Tail(s))
            PROVE  /\ i + 1 \in 1..Len(s) /\ Tail(s)[i] = s[i + 1]
                   /\ s[i + 1] \in Jobs /\ s[i + 1] # j
                   /\ stage[s[i + 1]] = "deferred" /\ TypeOf[s[i + 1]] = ty
        BY <1>1, <1>2, Elements DEF StageAgrees, DeferredAgrees
      <3>2. \A i, k \in 1..Len(Tail(s)) : Tail(s)[i] = Tail(s)[k] => i = k
        BY <3>1, <1>1 DEF StageAgrees, DeferredAgrees, Distinct
      <3>3. Distinct(Tail(s)) BY <3>2 DEF Distinct
      <3> QED BY <3>1, <3>3, <1>3
    <2>3. \A u \in Types :
            /\ Distinct(deferred'[u])
            /\ \A i \in 1..Len(deferred'[u]) :
                /\ stage'[deferred'[u][i]] = "deferred"
                /\ TypeOf[deferred'[u][i]] = u
      BY <2>1, <2>2, <1>6
    <2> QED BY <2>3 DEF DeferredAgrees, Distinct
  <1>12. JobQueueAgrees' /\ ExecQueueAgrees'
    BY <1>2, <1>3, JobQueueKept, ExecQueueKept DEF execution
  <1>13. HoldersAgree'
    BY <1>1, <1>2, <1>3, <1>4, <1>5, HoldersTaken
  <1>14. HandlersAgree'
    BY <1>2, <1>3, <1>5 DEF StageAgrees, HandlersAgree, Handling, execution
  <1>15. CallbacksAgree'
    BY <1>2, <1>3, <1>5, ThreadAssumption
       DEF StageAgrees, CallbacksAgree, Threads, execution
  <1>16. ForestAgrees'
    BY <1>2, <1>3, WorkflowAssumption DEF StageAgrees, ForestAgrees
  <1> QED BY <1>8, <1>9, <1>10, <1>11, <1>12, <1>13, <1>14, <1>15, <1>16
          DEF StageAgrees

(* _get_package_job_nowait on dip_queue keeps the invariant. *)
LEMMA GetDipStep ==
    ASSUME StageAgrees, NEW t \in Threads, GetDip(t)
    PROVE  StageAgrees'
  <1>1. CASE deferred["DIP"] # <<>>
    BY <1>1, GetDeferredStep DEF GetDip, GetDeferred, Types
  <1>2. CASE deferred["DIP"] = <<>>
    <2>1. Goto(t, "getSIP") /\ UNCHANGED <<fin, ret>>
      BY <1>2 DEF GetDip, GetDeferred, Resume
    <2>2. TypeOK'
      BY <2>1, <1>2 DEF GetDip, GetDeferred, StageAgrees, TypeOK, outside, slots,
            execution, Goto, Pcs, Holding
    <2> QED BY <1>2, <2>1, <2>2, QuietThread
            DEF GetDip, GetDeferred, Pcs, Handling, Holding, outside, queues, execution
  <1> QED BY <1>1, <1>2

(* _get_package_job_nowait on sip_queue keeps the invariant. *)
LEMMA GetSipStep ==
    ASSUME StageAgrees, NEW t \in Threads, GetSip(t)
    PROVE  StageAgrees'
  <1>1. CASE deferred["SIP"] # <<>>
    BY <1>1, GetDeferredStep DEF GetSip, GetDeferred, Types
  <1>2. CASE deferred["SIP"] = <<>>
    <2>1. Goto(t, "getTransfer") /\ UNCHANGED <<fin, ret>>
      BY <1>2 DEF GetSip, GetDeferred, Resume
    <2>2. TypeOK'
      BY <2>1, <1>2 DEF GetSip, GetDeferred, StageAgrees, TypeOK, outside, slots,
            execution, Goto, Pcs, Holding
    <2> QED BY <1>2, <2>1, <2>2, QuietThread
            DEF GetSip, GetDeferred, Pcs, Handling, Holding, outside, queues, execution
  <1> QED BY <1>1, <1>2

(* _get_package_job_nowait on transfer_queue keeps the invariant. *)
LEMMA GetTransferStep ==
    ASSUME StageAgrees, NEW t \in Threads, GetTransfer(t)
    PROVE  StageAgrees'
  <1>1. CASE deferred["Transfer"] # <<>>
    BY <1>1, GetDeferredStep DEF GetTransfer, GetDeferred, Types
  <1>2. CASE deferred["Transfer"] = <<>>
    <2>1. /\ Return(t)
          /\ UNCHANGED <<outside, queues, slots, execution, room, status, job, stage>>
      BY <1>2 DEF GetTransfer, GetDeferred, queues
    <2>2. PICK l \in Exits : Resume(t, l) /\ (l \in {"addPkgCb", "pkgCb"} => l = ret[t])
      BY <2>1, ReturnExits DEF StageAgrees
    <2>3. /\ pc' \in [Threads -> Pcs]
          /\ fin' \in [Threads -> Jobs \cup {NoJob}]
          /\ ret' \in [Threads -> {"idle", "addPkgCb", "pkgCb", "startup"}]
          /\ pc'[t] = l
          /\ \A u \in Threads \ {t} : pc'[u] = pc[u]
      BY <2>2, ResumeTypes DEF StageAgrees, Exits, Pcs
    <2>4. TypeOK'
      BY <2>1, <2>3 DEF StageAgrees, TypeOK, outside, queues, slots, execution, Exits,
            Holding
    <2> QED BY <2>1, <2>2, <2>4, EmptyReturn
  <1> QED BY <1>1, <1>2

(* The job in hand enters job_queue. *)
LEMMA EnqueueStep ==
    ASSUME StageAgrees, NEW t \in Threads, pc[t] \in Holding,
           jobQueue' = Append(jobQueue, job[t]),
           Move(job[t], "queued"), Release(t), Return(t),
           UNCHANGED <<outside, deferred, active, late, execution, room, status>>,
           lock' \in Threads \cup {NoThread}
    PROVE  StageAgrees'
  <1>1. PICK l \in Exits :
            Resume(t, l) /\ (l \in {"addPkgCb", "pkgCb"} => l = ret[t])
    BY ReturnExits DEF StageAgrees
  <1>2. /\ job[t] \in Jobs
        /\ stage[job[t]] = "held"
        /\ stage' \in [Jobs -> Stages]
        /\ pc' \in [Threads -> Pcs]
        /\ fin' \in [Threads -> Jobs \cup {NoJob}]
        /\ ret' \in [Threads -> {"idle", "addPkgCb", "pkgCb", "startup"}]
        /\ job' \in [Threads -> Jobs \cup {NoJob}]
        /\ \A u \in Threads : pc'[u] \in Holding => job'[u] \in Jobs
        /\ FutureAgrees' /\ SetsAgree' /\ ExecQueueAgrees' /\ HoldersAgree'
        /\ HandlersAgree' /\ CallbacksAgree' /\ ForestAgrees'
    BY <1>1, ExitStages
  <1>3. \A j \in Jobs : stage'[j] = IF j = job[t] THEN "queued" ELSE stage[j]
    BY DEF StageAgrees, TypeOK, Move
  <1>4. /\ jobQueue' \in Seq(Jobs)
        /\ Len(jobQueue) \in Nat
        /\ Len(jobQueue') = Len(jobQueue) + 1
        /\ \A i \in 1..Len(jobQueue) : jobQueue'[i] = jobQueue[i]
        /\ jobQueue'[Len(jobQueue) + 1] = job[t]
    BY <1>2, AppendFacts DEF StageAgrees, TypeOK
  <1>5. \A i \in 1..Len(jobQueue) :
            /\ jobQueue[i] \in Jobs /\ stage[jobQueue[i]] = "queued"
            /\ jobQueue[i] # job[t]
    BY <1>2, Elements DEF StageAgrees, JobQueueAgrees
  <1>6. TypeOK'
    BY <1>2, <1>4 DEF StageAgrees, TypeOK, outside, execution
  <1>7. JobQueueAgrees'
    <2>1. ASSUME NEW i \in 1..Len(jobQueue')
          PROVE  \/ i \in 1..Len(jobQueue) /\ jobQueue'[i] = jobQueue[i]
                 \/ i = Len(jobQueue) + 1 /\ jobQueue'[i] = job[t]
      BY <1>4
    <2>2. \A i, k \in 1..Len(jobQueue) : jobQueue[i] = jobQueue[k] => i = k
      BY DEF StageAgrees, JobQueueAgrees, Distinct
    <2>3. \A i, k \in 1..Len(jobQueue') : jobQueue'[i] = jobQueue'[k] => i = k
      BY <2>1, <2>2, <1>5
    <2>4. \A i \in 1..Len(jobQueue') : stage'[jobQueue'[i]] = "queued"
      BY <2>1, <1>2, <1>3, <1>5
    <2> QED BY <2>3, <2>4 DEF JobQueueAgrees, Distinct
  <1>8. DeferredAgrees' BY <1>2, <1>3, DeferredKept
  <1> QED BY <1>2, <1>6, <1>7, <1>8 DEF StageAgrees

(* job_queue.put in schedule_job keeps the invariant. *)
LEMMA PutStep ==
    ASSUME StageAgrees, NEW t \in Threads, Put(t)
    PROVE  StageAgrees'
  BY EnqueueStep DEF Put, Holding

(* job_queue.put_nowait in queue_next_job keeps the invariant. *)
LEMMA PutNowaitStep ==
    ASSUME StageAgrees, NEW t \in Threads, PutNowait(t)
    PROVE  StageAgrees'
  <1>1. CASE Len(jobQueue) < MaxConcurrent
    <2>1. lock' \in Threads \cup {NoThread}
      BY DEF PutNowait, slots, StageAgrees, TypeOK
    <2> QED BY <1>1, <2>1, EnqueueStep DEF PutNowait, Holding, slots
  <1>2. CASE ~(Len(jobQueue) < MaxConcurrent)
    <2>1. pc[t] \in Holding /\ Lose(t) BY <1>2 DEF PutNowait, Holding
    <2>2. UNCHANGED <<outside, queues, slots, execution>> /\ room' = room
      BY <1>2 DEF PutNowait, queues
    <2>3. room \in [Threads -> BOOLEAN] BY DEF StageAgrees, TypeOK
    <2> QED BY <2>1, <2>2, <2>3, LoseStep
  <1> QED BY <1>1, <1>2

(* _put_package_nowait keeps the invariant. *)
LEMMA DeferStep ==
    ASSUME StageAgrees, NEW t \in Threads, Defer(t)
    PROVE  StageAgrees'
  <1> DEFINE ty == TypeOf[job[t]]
             s == deferred[ty]
  <1>1. /\ pc[t] \in Holding /\ job[t] \in Jobs /\ ty \in Types
        /\ stage[job[t]] = "held"
    BY WorkflowAssumption DEF Defer, Holding, StageAgrees, TypeOK, HoldersAgree
  <1>2. room' \in [Threads -> BOOLEAN] BY DEF Defer, StageAgrees, TypeOK
  <1>3. CASE Len(s) >= MaxQueued
    <2>1. Lose(t) /\ UNCHANGED <<outside, queues, slots, execution>>
      BY <1>3 DEF Defer, queues
    <2> QED BY <1>1, <1>2, <2>1, LoseStep
  <1>4. CASE ~(Len(s) >= MaxQueued)
    <2>1. /\ deferred' = [deferred EXCEPT ![ty] = Append(@, job[t])]
          /\ Move(job[t], "deferred") /\ Release(t)
          /\ \/ Goto(t, "getDIP") /\ UNCHANGED <<fin, ret>>
             \/ Return(t)
          /\ UNCHANGED <<outside, jobQueue, slots, execution, status>>
      BY <1>4 DEF Defer
    <2>2. PICK l \in Exits :
              Resume(t, l) /\ (l \in {"addPkgCb", "pkgCb"} => l = ret[t])
      <3>1. CASE Goto(t, "getDIP") /\ UNCHANGED <<fin, ret>>
        BY <3>1 DEF Resume, Exits
      <3>2. CASE Return(t) BY <3>2, ReturnExits DEF StageAgrees
      <3> QED BY <2>1, <3>1, <3>2
    <2>3. /\ stage' \in [Jobs -> Stages]
          /\ pc' \in [Threads -> Pcs]
          /\ fin' \in [Threads -> Jobs \cup {NoJob}]
          /\ ret' \in [Threads -> {"idle", "addPkgCb", "pkgCb", "startup"}]
          /\ job' \in [Threads -> Jobs \cup {NoJob}]
          /\ \A u \in Threads : pc'[u] \in Holding => job'[u] \in Jobs
          /\ FutureAgrees' /\ SetsAgree' /\ ExecQueueAgrees' /\ HoldersAgree'
          /\ HandlersAgree' /\ CallbacksAgree' /\ ForestAgrees'
      BY <1>1, <2>1, <2>2, ExitStages
    <2>4. \A j \in Jobs : stage'[j] = IF j = job[t] THEN "deferred" ELSE stage[j]
      BY <2>1 DEF StageAgrees, TypeOK, Move
    <2>5. /\ Append(s, job[t]) \in Seq(Jobs)
          /\ Len(s) \in Nat
          /\ Len(Append(s, job[t])) = Len(s) + 1
          /\ \A i \in 1..Len(s) : Append(s, job[t])[i] = s[i]
          /\ Append(s, job[t])[Len(s) + 1] = job[t]
      BY <1>1, AppendFacts, Elements DEF StageAgrees
    <2>6. /\ deferred' \in [Types -> Seq(Jobs)]
          /\ deferred'[ty] = Append(s, job[t])
          /\ \A u \in Types \ {ty} : deferred'[u] = deferred[u]
      BY <1>1, <2>1, <2>5 DEF StageAgrees, TypeOK
    <2>7. TypeOK'
      BY <1>2, <2>1, <2>3, <2>6 DEF StageAgrees, TypeOK, outside, slots, execution
    <2>8. ASSUME NEW u \in Types
          PROVE  /\ \A i, k \in 1..Len(deferred[u]) :
                        deferred[u][i] = deferred[u][k] => i = k
                 /\ \A i \in 1..Len(deferred[u]) :
                        /\ deferred[u][i] # job[t]
                        /\ stage'[deferred[u][i]] = "deferred"
                        /\ TypeOf[deferred[u][i]] = u
      <3>1. \A i \in 1..Len(deferred[u]) :
                /\ deferred[u][i] \in Jobs
                /\ stage[deferred[u][i]] = "deferred"
                /\ TypeOf[deferred[u][i]] = u
        BY Elements DEF StageAgrees, DeferredAgrees
      <3>2. Distinct(deferred[u]) BY DEF StageAgrees, DeferredAgrees
      <3> QED BY <1>1, <2>4, <3>1, <3>2 DEF Distinct
    <2>9. ASSUME NEW i \in 1..Len(deferred'[ty])
          PROVE  \/ i \in 1..Len(s) /\ deferred'[ty][i] = s[i]
                 \/ i = Len(s) + 1 /\ deferred'[ty][i] = job[t]
      BY <2>5, <2>6
    <2>10. ASSUME NEW u \in Types
           PROVE  /\ Distinct(deferred'[u])
                  /\ \A i \in 1..Len(deferred'[u]) :
                        /\ stage'[deferred'[u][i]] = "deferred"
                        /\ TypeOf[deferred'[u][i]] = u
      <3>1. CASE u = ty
        <4>1. \A i, k \in 1..Len(deferred'[ty]) :
                deferred'[ty][i] = deferred'[ty][k] => i = k
          BY <1>1, <2>8, <2>9
        <4>2. \A i \in 1..Len(deferred'[ty]) :
                /\ stage'[deferred'[ty][i]] = "deferred"
                /\ TypeOf[deferred'[ty][i]] = ty
          BY <1>1, <2>4, <2>8, <2>9
        <4> QED BY <3>1, <4>1, <4>2 DEF Distinct
      <3>2. CASE u # ty
        BY <2>6, <2>8, <3>2 DEF Distinct
      <3> QED BY <3>1, <3>2
    <2>11. DeferredAgrees' BY <2>10 DEF DeferredAgrees, Distinct
    <2>12. JobQueueAgrees' BY <1>1, <2>1, <2>4, JobQueueKept
    <2> QED BY <2>3, <2>7, <2>11, <2>12 DEF StageAgrees
  <1> QED BY <1>3, <1>4

(* What the invariant says of the job whose callback a thread runs. *)
LEMMA Finished ==
    ASSUME StageAgrees, NEW t \in Threads, pc[t] \in {"jobCb", "await"}
    PROVE  /\ fin[t] \in Jobs
           /\ stage[fin[t]] = "returned"
           /\ future[fin[t]] \in Results
           /\ callbacks[fin[t]] = {}
  <1>1. fin[t] \in Jobs /\ stage[fin[t]] = "returned"
    BY DEF StageAgrees, HandlersAgree, Handling
  <1>2. future[fin[t]] \in Futures BY <1>1 DEF StageAgrees, TypeOK
  <1>3. future[fin[t]] \in Results
    BY <1>1, <1>2 DEF StageAgrees, FutureAgrees, Futures
  <1>4. callbacks[fin[t]] = {} BY <1>1 DEF StageAgrees, CallbacksAgree
  <1> QED BY <1>1, <1>3, <1>4

(* The callback ends the job, and its thread leaves or goes on to failure. *)
LEMMA SpendStep ==
    ASSUME StageAgrees, NEW t \in Threads, pc[t] = "jobCb",
           NEW l \in Exits, Resume(t, l),
           l \in {"addPkgCb", "pkgCb"} => l = ret[t],
           Move(fin[t], "spent"), NextOf[fin[t]] = NoJob \/ future[fin[t]] # "next",
           UNCHANGED <<outside, queues, slots, execution, room, status, job>>
    PROVE  StageAgrees'
  <1>1. /\ fin[t] \in Jobs /\ stage[fin[t]] = "returned"
        /\ future[fin[t]] \in Results
    BY Finished
  <1>2. /\ stage' \in [Jobs -> Stages]
        /\ \A j \in Jobs : stage'[j] = IF j = fin[t] THEN "spent" ELSE stage[j]
    BY <1>1 DEF StageAgrees, TypeOK, Move, Stages
  <1>3. /\ pc' \in [Threads -> Pcs]
        /\ fin' \in [Threads -> Jobs \cup {NoJob}]
        /\ ret' \in [Threads -> {"idle", "addPkgCb", "pkgCb", "startup"}]
        /\ pc'[t] = l /\ l \notin Holding
        /\ \A u \in Threads \ {t} : pc'[u] = pc[u]
    BY ResumeTypes, ExitPcs DEF StageAgrees
  <1>4. TypeOK'
    BY <1>2, <1>3 DEF StageAgrees, TypeOK, outside, queues, slots, execution
  <1>5. FutureAgrees'
    BY <1>1, <1>2 DEF StageAgrees, FutureAgrees, Results, execution
  <1>6. SetsAgree'
    BY <1>1, <1>2 DEF StageAgrees, TypeOK, SetsAgree, outside
  <1>7. DeferredAgrees' /\ JobQueueAgrees' /\ ExecQueueAgrees'
    BY <1>1, <1>2, DeferredKept, JobQueueKept, ExecQueueKept DEF queues, execution
  <1>8. HoldersAgree'
    BY <1>1, <1>2, <1>3 DEF StageAgrees, TypeOK, HoldersAgree
  <1>9. HandlersAgree' /\ CallbacksAgree'
    <2>1. UNCHANGED <<future, callbacks>> BY DEF execution
    <2> QED BY <1>2, <2>1, ExitPcs, ExitThreads
  <1>10. ForestAgrees'
    BY <1>1, <1>2, WorkflowAssumption DEF StageAgrees, ForestAgrees
  <1> QED BY <1>4, <1>5, <1>6, <1>7, <1>8, <1>9, <1>10 DEF StageAgrees

(* A thread takes the successor of the job it ends into its hands. *)
LEMMA SuccessorStep ==
    ASSUME StageAgrees, NEW t \in Threads, NEW j \in Jobs,
           \/ pc[t] = "jobCb" /\ j = fin[t]
           \/ pc[t] = "idle" /\ j \in waiting,
           NextOf[j] # NoJob,
           Goto(t, "schedule"), Take(t, NextOf[j]),
           stage' = [stage EXCEPT ![j] = "spent", ![NextOf[j]] = "held"],
           waiting' = waiting \ {j},
           UNCHANGED <<watched, submitted, shutdown, queues, slots, execution, frame,
                       status>>
    PROVE  StageAgrees'
  <1> DEFINE k == NextOf[j]
  <1>1. /\ stage[j] \in {"returned", "awaiting"} /\ future[j] \in Results
        /\ callbacks[j] = {}
    <2>1. CASE pc[t] = "jobCb" /\ j = fin[t] BY <2>1, Finished
    <2>2. CASE j \in waiting
      <3>1. stage[j] = "awaiting" BY <2>2 DEF StageAgrees, SetsAgree
      <3> QED BY <3>1 DEF StageAgrees, FutureAgrees, CallbacksAgree, Results
    <2> QED BY <2>1, <2>2
  <1>2. k \in Jobs /\ k # j /\ stage[k] = "absent"
    BY <1>1, WorkflowAssumption DEF StageAgrees, ForestAgrees
  <1>3. /\ stage' \in [Jobs -> Stages]
        /\ \A i \in Jobs : stage'[i] = IF i = j THEN "spent"
                                       ELSE IF i = k THEN "held" ELSE stage[i]
    BY <1>2 DEF StageAgrees, TypeOK, Stages
  <1>4. /\ pc' \in [Threads -> Pcs] /\ pc'[t] = "schedule"
        /\ \A u \in Threads \ {t} : pc'[u] = pc[u]
    BY DEF Goto, StageAgrees, TypeOK, Pcs
  <1>5. /\ job' \in [Threads -> Jobs \cup {NoJob}] /\ job'[t] = k
        /\ \A u \in Threads \ {t} : job'[u] = job[u]
    BY <1>2 DEF Take, StageAgrees, TypeOK
  <1>6. \A u \in Threads : pc'[u] \in Holding => job'[u] \in Jobs
    BY <1>2, <1>4, <1>5 DEF StageAgrees, TypeOK
  <1>7. TypeOK'
    BY <1>3, <1>4, <1>5, <1>6 DEF StageAgrees, TypeOK, queues, slots, execution, frame
  <1>8. FutureAgrees'
    BY <1>1, <1>2, <1>3 DEF StageAgrees, FutureAgrees, Results, execution
  <1>9. SetsAgree'
    BY <1>1, <1>2, <1>3 DEF StageAgrees, TypeOK, SetsAgree
  <1>10. DeferredAgrees' /\ JobQueueAgrees' /\ ExecQueueAgrees'
    BY <1>1, <1>2, <1>3, DeferredKept, JobQueueKept, ExecQueueKept
       DEF queues, execution
  <1>11. HoldersAgree'
    BY <1>1, <1>2, <1>3, <1>4, <1>5, HoldersTaken
  <1>12. HandlersAgree' /\ CallbacksAgree'
    <2>1. Resume(t, "schedule") /\ UNCHANGED <<future, callbacks>>
      BY DEF Resume, frame, execution
    <2>2. "schedule" \in Pcs \ (Handling \cup {"get", "submit", "addJobCb"})
      BY DEF Pcs, Handling
    <2>3. \A i \in Jobs :
            stage[i] \in {"executor", "running", "ran", "returned"} =>
                \/ stage'[i] = stage[i]
                \/ pc[t] \in {"jobCb", "await"} /\ i = fin[t]
      <3>1. pc[t] = "idle" /\ j \in waiting => stage[j] = "awaiting"
        BY DEF StageAgrees, SetsAgree
      <3> QED BY <1>2, <1>3, <3>1
    <2> QED BY <1>3, <2>1, <2>2, <2>3, ExitThreads
  <1>13. ForestAgrees'
    BY <1>1, <1>2, <1>3, WorkflowAssumption DEF StageAgrees, ForestAgrees
  <1> QED BY <1>7, <1>8, <1>9, <1>10, <1>11, <1>12, <1>13 DEF StageAgrees

(* _job_completed_callback keeps the invariant. *)
LEMMA JobCallbackStep ==
    ASSUME StageAgrees, NEW t \in Threads, JobCallback(t)
    PROVE  StageAgrees'
  <1>1. /\ pc[t] = "jobCb" /\ fin[t] \in Jobs /\ stage[fin[t]] = "returned"
        /\ UNCHANGED <<outside, queues, slots, execution, room, status>>
    BY Finished DEF JobCallback
  <1>2. CASE /\ future[fin[t]] = "raised" /\ Goto(t, "fail") /\ Move(fin[t], "spent")
             /\ UNCHANGED <<fin, ret, job>>
    BY <1>1, <1>2, SpendStep DEF Exits, Resume
  <1>3. CASE /\ future[fin[t]] = "none" /\ Return(t) /\ Move(fin[t], "spent")
             /\ UNCHANGED job
    BY <1>1, <1>3, SpendStep, ReturnExits DEF StageAgrees
  <1>4. CASE /\ future[fin[t]] = "self" /\ Goto(t, "await")
             /\ UNCHANGED <<fin, ret, job, stage>>
    <2>1. pc' = [pc EXCEPT ![t] = "await"] /\ pc \in [Threads -> Pcs]
      BY <1>4 DEF Goto, StageAgrees, TypeOK
    <2>2. TypeOK'
      BY <1>1, <1>4, <2>1 DEF StageAgrees, TypeOK, outside, queues, slots, execution,
            Pcs, Holding
    <2>3. /\ FutureAgrees' /\ SetsAgree' /\ DeferredAgrees' /\ JobQueueAgrees'
          /\ ExecQueueAgrees' /\ HoldersAgree' /\ ForestAgrees'
      BY <1>1, <1>4, <2>1, QuietStep DEF outside, execution, Holding
    <2>4. HandlersAgree'
      BY <1>1, <1>4, <2>1 DEF StageAgrees, HandlersAgree, Handling, execution
    <2>5. CallbacksAgree'
      BY <1>1, <1>4, <2>1, ThreadAssumption
         DEF StageAgrees, CallbacksAgree, Threads, execution
    <2> QED BY <2>2, <2>3, <2>4, <2>5 DEF StageAgrees
  <1>5. CASE /\ future[fin[t]] = "next" /\ Goto(t, "schedule")
             /\ Take(t, NextOf[fin[t]])
             /\ stage' = [stage EXCEPT ![fin[t]] = "spent", ![NextOf[fin[t]]] = "held"]
             /\ UNCHANGED <<fin, ret>>
    <2>1. NextOf[fin[t]] # NoJob BY <1>1, <1>5 DEF StageAgrees, FutureAgrees
    <2>2. fin[t] \notin waiting BY <1>1 DEF StageAgrees, SetsAgree
    <2>3. waiting' = waiting \ {fin[t]} BY <1>1, <2>2 DEF outside
    <2>4. UNCHANGED <<watched, submitted, shutdown, frame>>
      BY <1>1, <1>5 DEF outside, frame
    <2> QED BY <1>1, <1>5, <2>1, <2>3, <2>4, SuccessorStep
  <1> QED BY <1>2, <1>3, <1>4, <1>5 DEF JobCallback

(* await_decision keeps the invariant. *)
LEMMA AwaitDecisionStep ==
    ASSUME StageAgrees, NEW t \in Threads, AwaitDecision(t)
    PROVE  StageAgrees'
  <1>1. /\ pc[t] = "await" /\ fin[t] \in Jobs /\ stage[fin[t]] = "returned"
        /\ future[fin[t]] = "self"
    BY Finished DEF AwaitDecision, StageAgrees, HandlersAgree
  <1>2. /\ stage' \in [Jobs -> Stages]
        /\ \A j \in Jobs : stage'[j] = IF j = fin[t] THEN "awaiting" ELSE stage[j]
    BY <1>1 DEF AwaitDecision, StageAgrees, TypeOK, Move, Stages
  <1>3. /\ pc' \in [Threads -> Pcs] /\ pc'[t] = "deactivate"
        /\ \A u \in Threads \ {t} : pc'[u] = pc[u]
    BY DEF AwaitDecision, Goto, StageAgrees, TypeOK, Pcs
  <1>4. TypeOK'
    BY <1>1, <1>2, <1>3 DEF AwaitDecision, StageAgrees, TypeOK, queues, slots,
          execution, frame, Holding
  <1>5. FutureAgrees'
    BY <1>1, <1>2 DEF AwaitDecision, StageAgrees, FutureAgrees, execution
  <1>6. SetsAgree'
    BY <1>1, <1>2 DEF AwaitDecision, StageAgrees, TypeOK, SetsAgree
  <1>7. DeferredAgrees' /\ JobQueueAgrees' /\ ExecQueueAgrees'
    BY <1>1, <1>2, DeferredKept, JobQueueKept, ExecQueueKept
       DEF AwaitDecision, queues, execution
  <1>8. HoldersAgree'
    BY <1>1, <1>2, <1>3 DEF AwaitDecision, StageAgrees, TypeOK, HoldersAgree, Holding
  <1>9. HandlersAgree' /\ CallbacksAgree'
    <2>1. Resume(t, "deactivate") /\ UNCHANGED <<future, callbacks>>
      BY DEF AwaitDecision, Resume, frame, execution
    <2>2. "deactivate" \in Pcs \ (Handling \cup {"get", "submit", "addJobCb"})
      BY DEF Pcs, Handling
    <2> QED BY <1>1, <1>2, <2>1, <2>2, ExitThreads
  <1>10. ForestAgrees'
    BY <1>1, <1>2, WorkflowAssumption DEF StageAgrees, ForestAgrees
  <1> QED BY <1>4, <1>5, <1>6, <1>7, <1>8, <1>9, <1>10 DEF StageAgrees

(* _package_completed_callback keeps the invariant. *)
LEMMA PackageCallbackStep ==
    ASSUME StageAgrees, NEW t \in Threads, PackageCallback(t)
    PROVE  StageAgrees'
  <1>1. /\ pc[t] = "pkgCb" /\ fin[t] \in Jobs /\ Terminal(fin[t])
        /\ UNCHANGED <<outside, queues, slots, execution, room, job, stage>>
    BY DEF PackageCallback, StageAgrees, CallbacksAgree
  <1>2. PICK l \in {"idle", "deactivate"} :
            /\ pc' = [pc EXCEPT ![t] = l]
            /\ fin' = fin \/ (l = "idle" /\ fin' = [fin EXCEPT ![t] = NoJob])
            /\ ret' = [ret EXCEPT ![t] = "idle"]
    BY DEF PackageCallback, Resume, Goto
  <1>3. status' \in [Packages -> Statuses]
    BY <1>1 DEF PackageCallback, StageAgrees, TypeOK, Statuses, Terminal
  <1>4. TypeOK'
    BY <1>1, <1>2, <1>3 DEF StageAgrees, TypeOK, outside, queues, slots, execution,
          Pcs, Holding
  <1>5. /\ FutureAgrees' /\ SetsAgree' /\ DeferredAgrees' /\ JobQueueAgrees'
        /\ ExecQueueAgrees' /\ HoldersAgree' /\ ForestAgrees'
    BY <1>1, <1>2, QuietStep DEF outside, execution, Holding, StageAgrees, TypeOK
  <1>6. HandlersAgree'
    BY <1>1, <1>2 DEF StageAgrees, TypeOK, HandlersAgree, Handling, execution
  <1>7. CallbacksAgree'
    BY <1>1, <1>2, ThreadAssumption
       DEF StageAgrees, TypeOK, CallbacksAgree, Threads, execution
  <1> QED BY <1>4, <1>5, <1>6, <1>7 DEF StageAgrees

(* The test of shutdown_event in work keeps the invariant. *)
LEMMA LoopStep ==
    ASSUME StageAgrees, Loop
    PROVE  StageAgrees'
  <1>1. /\ Main \in Threads /\ pc[Main] = "idle" /\ ret[Main] = "idle"
        /\ UNCHANGED <<outside, queues, slots, execution, frame, status, job, stage>>
    BY DEF Loop, Threads, StageAgrees, CallbacksAgree
  <1>2. PICK l \in {"stopped", "get"} : pc' = [pc EXCEPT ![Main] = l]
    BY DEF Loop, Goto
  <1>3. TypeOK'
    BY <1>1, <1>2 DEF StageAgrees, TypeOK, outside, queues, slots, execution, frame,
          Pcs, Holding
  <1>4. /\ FutureAgrees' /\ SetsAgree' /\ DeferredAgrees' /\ JobQueueAgrees'
        /\ ExecQueueAgrees' /\ HoldersAgree' /\ ForestAgrees'
    BY <1>1, <1>2, QuietStep DEF outside, execution, Holding, StageAgrees, TypeOK
  <1>5. HandlersAgree'
    BY <1>1, <1>2 DEF StageAgrees, TypeOK, HandlersAgree, Handling, execution, frame
  <1>6. CallbacksAgree'
    BY <1>1, <1>2, ThreadAssumption
       DEF StageAgrees, TypeOK, CallbacksAgree, Threads, execution, frame
  <1> QED BY <1>3, <1>4, <1>5, <1>6 DEF StageAgrees

(* job_queue.get in process_one_job keeps the invariant. *)
LEMMA GetStep ==
    ASSUME StageAgrees, Get
    PROVE  StageAgrees'
  <1>1. /\ Main \in Threads /\ pc[Main] = "get" /\ ret[Main] = "idle"
        /\ UNCHANGED <<outside, deferred, slots, execution, frame, status>>
    BY DEF Get, Threads, StageAgrees, CallbacksAgree
  <1>2. CASE jobQueue = <<>>
    <2>1. pc' = [pc EXCEPT ![Main] = "idle"] /\ UNCHANGED <<job, jobQueue, stage>>
      BY <1>2 DEF Get, Goto
    <2>2. TypeOK'
      BY <1>1, <2>1 DEF StageAgrees, TypeOK, outside, slots, execution, frame, Pcs,
            Holding
    <2>3. /\ FutureAgrees' /\ SetsAgree' /\ DeferredAgrees' /\ JobQueueAgrees'
          /\ ExecQueueAgrees' /\ HoldersAgree' /\ ForestAgrees'
      BY <1>1, <2>1, QuietStep
         DEF outside, queues, execution, Holding, StageAgrees, TypeOK
    <2>4. HandlersAgree'
      BY <1>1, <2>1 DEF StageAgrees, TypeOK, HandlersAgree, Handling, execution, frame
    <2>5. CallbacksAgree'
      BY <1>1, <2>1, ThreadAssumption
         DEF StageAgrees, TypeOK, CallbacksAgree, Threads, execution, frame
    <2> QED BY <2>2, <2>3, <2>4, <2>5 DEF StageAgrees
  <1>3. CASE jobQueue # <<>>
    <2> DEFINE j == Head(jobQueue)
    <2>1. /\ j \in Jobs /\ j = jobQueue[1] /\ Tail(jobQueue) \in Seq(Jobs)
          /\ Len(jobQueue) \in Nat \ {0}
          /\ Len(Tail(jobQueue)) = Len(jobQueue) - 1
          /\ \A i \in 1..Len(Tail(jobQueue)) : Tail(jobQueue)[i] = jobQueue[i + 1]
      BY <1>3, TailFacts DEF StageAgrees, TypeOK
    <2>2. /\ Take(Main, j) /\ Move(j, "held") /\ jobQueue' = Tail(jobQueue)
          /\ Goto(Main, "submit")
      BY <1>3 DEF Get
    <2>3. stage[j] = "queued" /\ \A i \in 1..Len(jobQueue) : jobQueue[i] = j => i = 1
      BY <2>1 DEF StageAgrees, JobQueueAgrees, Distinct
    <2>4. /\ stage' \in [Jobs -> Stages]
          /\ \A k \in Jobs : stage'[k] = IF k = j THEN "held" ELSE stage[k]
      BY <2>1, <2>2 DEF Move, StageAgrees, TypeOK, Stages
    <2>5. /\ job' \in [Threads -> Jobs \cup {NoJob}] /\ job'[Main] = j
          /\ \A u \in Threads \ {Main} : job'[u] = job[u]
      BY <1>1, <2>1, <2>2 DEF Take, StageAgrees, TypeOK
    <2>6. /\ pc' \in [Threads -> Pcs] /\ pc'[Main] = "submit"
          /\ \A u \in Threads \ {Main} : pc'[u] = pc[u]
      BY <1>1, <2>2 DEF Goto, StageAgrees, TypeOK, Pcs
    <2>7. \A u \in Threads : pc'[u] \in Holding => job'[u] \in Jobs
      BY <2>1, <2>5, <2>6 DEF StageAgrees, TypeOK
    <2>8. TypeOK'
      BY <1>1, <2>1, <2>2, <2>4, <2>5, <2>6, <2>7
         DEF StageAgrees, TypeOK, outside, slots, execution, frame
    <2>9. FutureAgrees'
      BY <1>1, <2>3, <2>4 DEF StageAgrees, FutureAgrees, execution
    <2>10. SetsAgree'
      BY <1>1, <2>3, <2>4 DEF StageAgrees, TypeOK, SetsAgree, outside
    <2>11. JobQueueAgrees'
      <3>1. ASSUME NEW i \in 1..Len(Tail(jobQueue))
            PROVE  /\ i + 1 \in 1..Len(jobQueue)
                   /\ Tail(jobQueue)[i] = jobQueue[i + 1]
                   /\ jobQueue[i + 1] \in Jobs /\ jobQueue[i + 1] # j
                   /\ stage[jobQueue[i + 1]] = "queued"
        BY <2>1, <2>3, Elements DEF StageAgrees, JobQueueAgrees
      <3>2. \A i, k \in 1..Len(Tail(jobQueue)) :
                Tail(jobQueue)[i] = Tail(jobQueue)[k] => i = k
        BY <3>1, <2>1 DEF StageAgrees, JobQueueAgrees, Distinct
      <3>3. \A i \in 1..Len(Tail(jobQueue)) : stage'[Tail(jobQueue)[i]] = "queued"
        BY <3>1, <2>4
      <3> QED BY <3>2, <3>3, <2>2 DEF JobQueueAgrees, Distinct
    <2>12. DeferredAgrees' /\ ExecQueueAgrees'
      BY <1>1, <2>3, <2>4, DeferredKept, ExecQueueKept DEF execution
    <2>13. HoldersAgree'
      BY <1>1, <2>1, <2>3, <2>4, <2>5, <2>6, HoldersTaken
    <2>14. HandlersAgree'
      BY <1>1, <2>3, <2>4, <2>6
         DEF StageAgrees, HandlersAgree, Handling, execution, frame
    <2>15. CallbacksAgree'
      BY <1>1, <2>3, <2>4, <2>6, ThreadAssumption
         DEF StageAgrees, CallbacksAgree, Threads, execution, frame
    <2>16. ForestAgrees'
      BY <2>3, <2>4, WorkflowAssumption DEF StageAgrees, ForestAgrees
    <2> QED BY <2>8, <2>9, <2>10, <2>11, <2>12, <2>13, <2>14, <2>15, <2>16
            DEF StageAgrees
  <1> QED BY <1>2, <1>3

(* What a task appended to the executor's queue leaves as it was. *)
LEMMA ExecAppend ==
    ASSUME StageAgrees, NEW x \in Tasks,
           execQueue' = Append(execQueue, x),
           stage[x.job] \notin {"executor", "starting"},
           stage'[x.job] = IF x.task = "run" THEN "executor" ELSE "starting",
           \A j \in Jobs \ {x.job} : stage'[j] = stage[j]
    PROVE  execQueue' \in Seq(Tasks) /\ ExecQueueAgrees'
  <1>1. /\ execQueue' \in Seq(Tasks)
        /\ Len(execQueue) \in Nat
        /\ Len(execQueue') = Len(execQueue) + 1
        /\ \A i \in 1..Len(execQueue) : execQueue'[i] = execQueue[i]
        /\ execQueue'[Len(execQueue) + 1] = x
    BY AppendFacts DEF StageAgrees, TypeOK
  <1>2. \A i \in 1..Len(execQueue) :
            /\ execQueue[i].job \in Jobs /\ execQueue[i].job # x.job
            /\ stage[execQueue[i].job] = IF execQueue[i].task = "run"
                                        THEN "executor" ELSE "starting"
    BY Elements DEF StageAgrees, ExecQueueAgrees
  <1>3. ASSUME NEW i \in 1..Len(execQueue')
        PROVE  \/ i \in 1..Len(execQueue) /\ execQueue'[i] = execQueue[i]
               \/ i = Len(execQueue) + 1 /\ execQueue'[i] = x
    BY <1>1
  <1>4. \A i, k \in 1..Len(execQueue) :
            execQueue[i].job = execQueue[k].job => i = k
    BY DEF StageAgrees, ExecQueueAgrees
  <1>5. \A i, k \in 1..Len(execQueue') :
            execQueue'[i].job = execQueue'[k].job => i = k
    BY <1>2, <1>3, <1>4
  <1>6. \A i \in 1..Len(execQueue') :
            stage'[execQueue'[i].job] = IF execQueue'[i].task = "run"
                                        THEN "executor" ELSE "starting"
    BY <1>2, <1>3
  <1> QED BY <1>1, <1>5, <1>6 DEF ExecQueueAgrees

(* executor.submit in process_one_job keeps the invariant. *)
LEMMA SubmitStep ==
    ASSUME StageAgrees, Submit
    PROVE  StageAgrees'
  <1> DEFINE j == job[Main]
  <1>1. /\ Main \in Threads /\ pc[Main] = "submit" /\ pc[Main] \in Holding
        /\ ret[Main] = "idle" /\ j \in Jobs /\ stage[j] = "held"
        /\ Release(Main)
        /\ UNCHANGED <<outside, queues, slots, callbacks, ret, room, status>>
    BY DEF Submit, Threads, Holding, StageAgrees, TypeOK, HoldersAgree, CallbacksAgree
  <1>2. CASE shutdown
    <2>1. Move(j, "lost") /\ Goto(Main, "stopped") /\ UNCHANGED <<execQueue, future, fin>>
      BY <1>2 DEF Submit
    <2>2. Resume(Main, "stopped") /\ UNCHANGED execution
      BY <1>1, <2>1 DEF Resume, execution
    <2>3. /\ stage' \in [Jobs -> Stages]
          /\ pc' \in [Threads -> Pcs]
          /\ fin' \in [Threads -> Jobs \cup {NoJob}]
          /\ ret' \in [Threads -> {"idle", "addPkgCb", "pkgCb", "startup"}]
          /\ job' \in [Threads -> Jobs \cup {NoJob}]
          /\ \A u \in Threads : pc'[u] \in Holding => job'[u] \in Jobs
          /\ FutureAgrees' /\ SetsAgree' /\ ExecQueueAgrees' /\ HoldersAgree'
          /\ HandlersAgree' /\ CallbacksAgree' /\ ForestAgrees'
      BY <1>1, <2>1, <2>2, ExitStages DEF Exits
    <2>4. \A k \in Jobs : stage[k] # "held" => stage'[k] = stage[k]
      BY <1>1, <2>1 DEF Move, StageAgrees, TypeOK
    <2>5. DeferredAgrees' /\ JobQueueAgrees'
      BY <1>1, <2>4, DeferredKept, JobQueueKept DEF queues
    <2>6. TypeOK'
      BY <1>1, <2>2, <2>3 DEF StageAgrees, TypeOK, outside, queues, slots, execution
    <2> QED BY <2>3, <2>5, <2>6 DEF StageAgrees
  <1>3. CASE ~shutdown
    <2> DEFINE x == [task |-> "run", job |-> j]
    <2>1. /\ execQueue' = Append(execQueue, x)
          /\ future' = [future EXCEPT ![j] = "submitted"]
          /\ fin' = [fin EXCEPT ![Main] = j]
          /\ Move(j, "executor")
          /\ Goto(Main, "addJobCb")
      BY <1>3 DEF Submit
    <2>2. /\ stage' \in [Jobs -> Stages]
          /\ \A k \in Jobs : stage'[k] = IF k = j THEN "executor" ELSE stage[k]
      BY <1>1, <2>1 DEF Move, StageAgrees, TypeOK, Stages
    <2>3. /\ pc' \in [Threads -> Pcs] /\ pc'[Main] = "addJobCb"
          /\ \A u \in Threads \ {Main} : pc'[u] = pc[u]
      BY <1>1, <2>1 DEF Goto, StageAgrees, TypeOK, Pcs
    <2>4. /\ job' \in [Threads -> Jobs \cup {NoJob}]
          /\ \A u \in Threads \ {Main} : job'[u] = job[u]
      BY <1>1 DEF Release, StageAgrees, TypeOK
    <2>5. /\ fin' \in [Threads -> Jobs \cup {NoJob}] /\ fin'[Main] = j
          /\ \A u \in Threads \ {Main} : fin'[u] = fin[u]
      BY <1>1, <2>1 DEF StageAgrees, TypeOK
    <2>6. /\ future' \in [Jobs -> Futures]
          /\ \A k \in Jobs : future'[k] = IF k = j THEN "submitted" ELSE future[k]
      BY <1>1, <2>1 DEF StageAgrees, TypeOK, Futures
    <2>7. execQueue' \in Seq(Tasks) /\ ExecQueueAgrees'
      <3>1. x \in Tasks /\ x.job = j /\ x.task = "run" BY <1>1 DEF Tasks
      <3> QED BY <1>1, <2>1, <2>2, <3>1, ExecAppend
    <2>8. \A u \in Threads : pc'[u] \in Holding => u # Main
      BY <2>3 DEF Holding
    <2>9. TypeOK'
      BY <1>1, <2>2, <2>3, <2>4, <2>5, <2>6, <2>7, <2>8
         DEF StageAgrees, TypeOK, outside, queues, slots
    <2>10. FutureAgrees'
      BY <1>1, <2>2, <2>6 DEF StageAgrees, FutureAgrees
    <2>11. SetsAgree'
      BY <1>1, <2>2 DEF StageAgrees, TypeOK, SetsAgree, outside
    <2>12. DeferredAgrees' /\ JobQueueAgrees'
      BY <1>1, <2>2, DeferredKept, JobQueueKept DEF queues
    <2>13. HoldersAgree'
      <3>1. ASSUME NEW u \in Threads, pc'[u] \in Holding
            PROVE  /\ pc[u] \in Holding /\ job'[u] = job[u] /\ job[u] # j
                   /\ job[u] \in Jobs
        BY <1>1, <2>3, <2>4, <2>8, <3>1 DEF StageAgrees, TypeOK, HoldersAgree
      <3> QED BY <3>1, <2>2 DEF StageAgrees, HoldersAgree
    <2>14. \A u \in Threads :
            pc'[u] \in Handling =>
                /\ u # Main /\ pc[u] \in Handling /\ pc'[u] = pc[u]
                /\ fin'[u] = fin[u] /\ fin[u] \in Jobs /\ fin[u] # j
      BY <1>1, <2>3, <2>5 DEF StageAgrees, HandlersAgree, Handling
    <2>15. HandlersAgree'
      BY <2>2, <2>6, <2>14 DEF StageAgrees, HandlersAgree, Handling
    <2>16. CallbacksAgree'
      <3>1. callbacks[j] = {} BY <1>1 DEF StageAgrees, CallbacksAgree
      <3>2. future'[fin'[Main]] # "unsubmitted" BY <1>1, <2>5, <2>6
      <3> QED BY <1>1, <2>2, <2>3, <2>5, <2>6, <2>14, <3>1, <3>2, ThreadAssumption
              DEF StageAgrees, CallbacksAgree, Threads, Handling
    <2>17. ForestAgrees'
      BY <1>1, <2>2, WorkflowAssumption DEF StageAgrees, ForestAgrees
    <2> QED BY <2>7, <2>9, <2>10, <2>11, <2>12, <2>13, <2>15, <2>16, <2>17
            DEF StageAgrees
  <1> QED BY <1>2, <1>3

(* Registering _job_completed_callback keeps the invariant. *)
LEMMA AddJobCallbackStep ==
    ASSUME StageAgrees, AddJobCallback
    PROVE  StageAgrees'
  <1> DEFINE j == fin[Main]
  <1>1. /\ Main \in Threads /\ pc[Main] = "addJobCb"
        /\ j \in Jobs /\ callbacks[j] = {}
        /\ stage[j] \in {"executor", "running", "ran", "returned"}
        /\ \A u \in Threads : ~(pc[u] \in {"jobCb", "await"} /\ fin[u] = j)
        /\ UNCHANGED <<outside, queues, slots, execQueue, future, fin, room, status,
                       job, stage>>
    BY DEF AddJobCallback, Threads, StageAgrees, CallbacksAgree
  <1>2. future[j] \in Futures BY <1>1 DEF StageAgrees, TypeOK
  <1>3. CASE future[j] \in Results
    <2>1. /\ pc' = [pc EXCEPT ![Main] = "jobCb"]
          /\ ret' = [ret EXCEPT ![Main] = "addPkgCb"]
          /\ UNCHANGED callbacks
      BY <1>3 DEF AddJobCallback, Goto
    <2>2. stage[j] = "returned" /\ future[j] # "unsubmitted"
      BY <1>1, <1>3 DEF StageAgrees, FutureAgrees, Results
    <2>3. TypeOK'
      BY <1>1, <2>1 DEF StageAgrees, TypeOK, outside, queues, slots, Pcs, Holding
    <2>4. /\ FutureAgrees' /\ SetsAgree' /\ DeferredAgrees' /\ JobQueueAgrees'
          /\ ExecQueueAgrees' /\ HoldersAgree' /\ ForestAgrees'
      BY <1>1, <2>1, QuietStep DEF outside, Holding, StageAgrees, TypeOK
    <2>5. HandlersAgree'
      <3>1. \A u \in Threads \ {Main} : pc[u] \in Handling => fin[u] # j
        BY <1>1, <2>2 DEF StageAgrees, HandlersAgree, Handling
      <3> QED BY <1>1, <2>1, <2>2, <3>1
              DEF StageAgrees, TypeOK, HandlersAgree, Handling
    <2>6. CallbacksAgree'
      BY <1>1, <2>1, <2>2, ThreadAssumption
         DEF StageAgrees, TypeOK, CallbacksAgree, Threads
    <2> QED BY <2>3, <2>4, <2>5, <2>6 DEF StageAgrees
  <1>4. CASE future[j] \notin Results
    <2>1. /\ pc' = [pc EXCEPT ![Main] = "addPkgCb"]
          /\ callbacks' = [callbacks EXCEPT ![j] = @ \cup {"job"}]
          /\ UNCHANGED ret
      BY <1>4 DEF AddJobCallback, Goto
    <2>2. stage[j] \in {"executor", "running", "ran"} /\ future[j] # "unsubmitted"
      BY <1>1, <1>2, <1>4 DEF StageAgrees, FutureAgrees, Futures
    <2>3. TypeOK'
      BY <1>1, <2>1 DEF StageAgrees, TypeOK, outside, queues, slots, Pcs, Holding
    <2>4. /\ FutureAgrees' /\ SetsAgree' /\ DeferredAgrees' /\ JobQueueAgrees'
          /\ ExecQueueAgrees' /\ HoldersAgree' /\ ForestAgrees'
      BY <1>1, <2>1, QuietStep DEF outside, Holding, StageAgrees, TypeOK
    <2>5. HandlersAgree'
      BY <1>1, <2>1 DEF StageAgrees, TypeOK, HandlersAgree, Handling
    <2>6. CallbacksAgree'
      BY <1>1, <2>1, <2>2, ThreadAssumption
         DEF StageAgrees, TypeOK, CallbacksAgree, Threads
    <2> QED BY <2>3, <2>4, <2>5, <2>6 DEF StageAgrees
  <1> QED BY <1>3, <1>4

(* Registering _package_completed_callback keeps the invariant. *)
LEMMA AddPackageCallbackStep ==
    ASSUME StageAgrees, AddPackageCallback
    PROVE  StageAgrees'
  <1> DEFINE j == fin[Main]
  <1>1. /\ Main \in Threads /\ pc[Main] = "addPkgCb" /\ j \in Jobs
        /\ future[j] \in Futures \ {"unsubmitted"}
        /\ UNCHANGED <<outside, queues, slots, execQueue, future, room, status, job,
                       stage>>
    BY DEF AddPackageCallback, Threads, StageAgrees, TypeOK, CallbacksAgree
  <1>2. PICK l \in {"idle", "pkgCb"} :
            /\ Resume(Main, l)
            /\ l = "pkgCb" => Terminal(j)
    BY DEF AddPackageCallback
  <1>3. /\ pc' \in [Threads -> Pcs] /\ pc'[Main] = l
        /\ fin' \in [Threads -> Jobs \cup {NoJob}]
        /\ ret' \in [Threads -> {"idle", "addPkgCb", "pkgCb", "startup"}]
        /\ \A u \in Threads \ {Main} :
                pc'[u] = pc[u] /\ fin'[u] = fin[u] /\ ret'[u] = ret[u]
        /\ l = "pkgCb" => fin'[Main] = fin[Main] /\ ret'[Main] = ret[Main]
        /\ l = "idle" => ret'[Main] = "idle"
    BY <1>1, <1>2, ResumeTypes DEF StageAgrees, Pcs
  <1>4. /\ callbacks' \in [Jobs -> SUBSET {"job", "package"}]
        /\ \A k \in Jobs \ {j} : callbacks'[k] = callbacks[k]
        /\ callbacks'[j] # {} => callbacks[j] # {} \/ future[j] \notin Results
        /\ "package" \in callbacks'[j] => "package" \in callbacks[j] \/ Terminal(j)
    BY <1>1 DEF AddPackageCallback, StageAgrees, TypeOK
  <1>5. TypeOK'
    <2>1. \A u \in Threads : pc'[u] \in Holding => job'[u] \in Jobs
      BY <1>1, <1>2, <1>3 DEF StageAgrees, TypeOK, Holding
    <2> QED BY <1>1, <1>3, <1>4, <2>1 DEF StageAgrees, TypeOK, outside, queues, slots
  <1>6. /\ FutureAgrees' /\ SetsAgree' /\ DeferredAgrees' /\ JobQueueAgrees'
        /\ ExecQueueAgrees' /\ HoldersAgree' /\ ForestAgrees'
    BY <1>1, <1>3, QuietStep DEF outside, Holding
  <1>7. HandlersAgree'
    BY <1>1, <1>3 DEF StageAgrees, HandlersAgree, Handling
  <1>8. CallbacksAgree'
    <2>1. callbacks'[j] # {} => stage[j] \in {"executor", "running", "ran"}
      BY <1>1, <1>4 DEF StageAgrees, CallbacksAgree, FutureAgrees, Futures
    <2> QED BY <1>1, <1>2, <1>3, <1>4, <2>1, ThreadAssumption
            DEF StageAgrees, CallbacksAgree, Threads
  <1> QED BY <1>5, <1>6, <1>7, <1>8 DEF StageAgrees

(* signal_handler keeps the invariant. *)
LEMMA SignalHandlerStep ==
    ASSUME StageAgrees, SignalHandler
    PROVE  StageAgrees'
  <1>1. TypeOK'
    BY DEF SignalHandler, StageAgrees, TypeOK, queues, slots, execution, frame
  <1>2. /\ FutureAgrees' /\ SetsAgree' /\ DeferredAgrees' /\ JobQueueAgrees'
        /\ ExecQueueAgrees' /\ HoldersAgree' /\ ForestAgrees'
    BY QuietStep DEF SignalHandler, execution
  <1>3. HandlersAgree' /\ CallbacksAgree'
    BY DEF SignalHandler, StageAgrees, HandlersAgree, CallbacksAgree, execution, frame
  <1> QED BY <1>1, <1>2, <1>3 DEF StageAgrees

(* A thread of the executor that takes a task keeps the invariant. *)
LEMMA TakeTaskStep ==
    ASSUME StageAgrees, NEW w \in Workers, TakeTask(w)
    PROVE  StageAgrees'
  <1> DEFINE x == Head(execQueue)
             j == x.job
             to == IF x.task = "run" THEN "running" ELSE "held"
  <1>1. /\ w \in Threads /\ w # Main /\ pc[w] = "idle" /\ ret[w] = "idle"
        /\ execQueue # <<>> /\ execQueue' = Tail(execQueue)
        /\ UNCHANGED <<outside, queues, slots, callbacks, room>>
    BY ThreadAssumption DEF TakeTask, Threads, StageAgrees, CallbacksAgree
  <1>2. /\ x \in Tasks /\ x = execQueue[1] /\ Tail(execQueue) \in Seq(Tasks)
        /\ Len(execQueue) \in Nat \ {0}
        /\ Len(Tail(execQueue)) = Len(execQueue) - 1
        /\ \A i \in 1..Len(Tail(execQueue)) : Tail(execQueue)[i] = execQueue[i + 1]
    BY <1>1, TailFacts DEF StageAgrees, TypeOK
  <1>3. /\ j \in Jobs
        /\ stage[j] = IF x.task = "run" THEN "executor" ELSE "starting"
        /\ \A i \in 1..Len(execQueue) : execQueue[i].job = j => i = 1
    BY <1>2, Elements DEF StageAgrees, ExecQueueAgrees
  <1>4. fin' = [fin EXCEPT ![w] = j] BY DEF TakeTask
  <1>5. /\ fin' \in [Threads -> Jobs \cup {NoJob}] /\ fin'[w] = j
        /\ \A u \in Threads \ {w} : fin'[u] = fin[u]
    BY <1>1, <1>3, <1>4 DEF StageAgrees, TypeOK
  <1>6. Move(j, to) BY DEF TakeTask
  <1>7. /\ stage' \in [Jobs -> Stages]
        /\ \A k \in Jobs : stage'[k] = IF k = j THEN to ELSE stage[k]
    BY <1>3, <1>6 DEF Move, StageAgrees, TypeOK, Stages
  <1>8. execQueue' \in Seq(Tasks) /\ ExecQueueAgrees'
    <2>1. ASSUME NEW i \in 1..Len(Tail(execQueue))
          PROVE  /\ i + 1 \in 1..Len(execQueue)
                 /\ Tail(execQueue)[i] = execQueue[i + 1]
                 /\ execQueue[i + 1].job \in Jobs /\ execQueue[i + 1].job # j
                 /\ stage[execQueue[i + 1].job] =
                        IF execQueue[i + 1].task = "run" THEN "executor" ELSE "starting"
      BY <1>2, <1>3, Elements DEF StageAgrees, ExecQueueAgrees
    <2>2. \A i, k \in 1..Len(execQueue') :
            execQueue'[i].job = execQueue'[k].job => i = k
      BY <1>1, <1>2, <2>1 DEF StageAgrees, ExecQueueAgrees
    <2>3. \A i \in 1..Len(execQueue') :
            stage'[execQueue'[i].job] =
                IF execQueue'[i].task = "run" THEN "executor" ELSE "starting"
      BY <1>1, <1>7, <2>1
    <2> QED BY <1>1, <1>2, <2>2, <2>3 DEF ExecQueueAgrees
  <1>9. DeferredAgrees' /\ JobQueueAgrees'
    BY <1>1, <1>3, <1>7, DeferredKept, JobQueueKept DEF queues
  <1>10. SetsAgree'
    BY <1>1, <1>3, <1>7 DEF StageAgrees, TypeOK, SetsAgree, outside
  <1>11. ForestAgrees'
    BY <1>3, <1>7, WorkflowAssumption DEF StageAgrees, ForestAgrees
  <1>12. callbacks \in [Jobs -> SUBSET {"job", "package"}]
         /\ (stage[j] = "starting" => callbacks[j] = {})
    BY <1>3 DEF StageAgrees, TypeOK, CallbacksAgree
  <1>13. CASE x.task = "run"
    <2>1. /\ future' = [future EXCEPT ![j] = "running"]
          /\ pc' = [pc EXCEPT ![w] = "running"]
          /\ UNCHANGED <<ret, status, job>>
      BY <1>13 DEF TakeTask, Goto
    <2>2. /\ future' \in [Jobs -> Futures]
          /\ \A k \in Jobs : future'[k] = IF k = j THEN "running" ELSE future[k]
      BY <1>3, <2>1 DEF StageAgrees, TypeOK, Futures
    <2>3. /\ pc' \in [Threads -> Pcs] /\ pc'[w] = "running"
          /\ \A u \in Threads \ {w} : pc'[u] = pc[u]
      BY <1>1, <2>1 DEF StageAgrees, TypeOK, Pcs
    <2>4. TypeOK'
      BY <1>1, <1>5, <1>7, <1>8, <2>1, <2>2, <2>3
         DEF StageAgrees, TypeOK, outside, queues, slots, Holding
    <2>5. FutureAgrees'
      BY <1>3, <1>7, <1>13, <2>2 DEF StageAgrees, FutureAgrees
    <2>6. HoldersAgree'
      <3>1. ASSUME NEW u \in Threads, pc'[u] \in Holding
            PROVE  /\ pc[u] \in Holding /\ job'[u] = job[u]
                   /\ job[u] \in Jobs /\ job[u] # j
        BY <1>3, <1>13, <2>1, <2>3, <3>1 DEF StageAgrees, TypeOK, HoldersAgree, Holding
      <3> QED BY <3>1, <1>7 DEF StageAgrees, HoldersAgree
    <2>7. HandlersAgree'
      <3>1. ASSUME NEW u \in Threads \ {w}, pc'[u] \in Handling
            PROVE  /\ pc[u] \in Handling /\ pc'[u] = pc[u] /\ fin'[u] = fin[u]
                   /\ fin[u] \in Jobs /\ fin[u] # j
        BY <1>3, <1>5, <1>13, <2>3, <3>1 DEF StageAgrees, HandlersAgree, Handling
      <3> QED BY <3>1, <1>3, <1>5, <1>7, <1>13, <2>2, <2>3
              DEF StageAgrees, HandlersAgree, Handling
    <2>8. CallbacksAgree'
      BY <1>1, <1>3, <1>5, <1>7, <1>13, <2>1, <2>2, <2>3, ThreadAssumption
         DEF StageAgrees, CallbacksAgree, Threads
    <2> QED BY <1>8, <1>9, <1>10, <1>11, <2>4, <2>5, <2>6, <2>7, <2>8 DEF StageAgrees
  <1>14. CASE x.task # "run"
    <2>1. /\ status' = [status EXCEPT ![PackageOf[j]] = "processing"]
          /\ Take(w, j)
          /\ pc' = [pc EXCEPT ![w] = "schedule"]
          /\ ret' = [ret EXCEPT ![w] = "startup"]
          /\ UNCHANGED future
      BY <1>14 DEF TakeTask, Goto
    <2>2. /\ job' \in [Threads -> Jobs \cup {NoJob}] /\ job'[w] = j
          /\ \A u \in Threads \ {w} : job'[u] = job[u]
      BY <1>1, <1>3, <2>1 DEF Take, StageAgrees, TypeOK
    <2>3. /\ pc' \in [Threads -> Pcs] /\ pc'[w] = "schedule"
          /\ \A u \in Threads \ {w} : pc'[u] = pc[u]
      BY <1>1, <2>1 DEF StageAgrees, TypeOK, Pcs
    <2>4. /\ status' \in [Packages -> Statuses]
          /\ ret' \in [Threads -> {"idle", "addPkgCb", "pkgCb", "startup"}]
      BY <2>1 DEF StageAgrees, TypeOK, Statuses
    <2>5. \A u \in Threads : pc'[u] \in Holding => job'[u] \in Jobs
      BY <1>3, <2>2, <2>3 DEF StageAgrees, TypeOK
    <2>6. TypeOK'
      BY <1>1, <1>5, <1>7, <1>8, <2>1, <2>2, <2>3, <2>4, <2>5
         DEF StageAgrees, TypeOK, outside, queues, slots
    <2>7. FutureAgrees'
      BY <1>3, <1>7, <1>14, <2>1 DEF StageAgrees, FutureAgrees
    <2>8. HoldersAgree'
      BY <1>1, <1>3, <1>7, <1>14, <2>2, <2>3, HoldersTaken
    <2>9. HandlersAgree'
      <3>1. ASSUME NEW u \in Threads, pc'[u] \in Handling
            PROVE  /\ pc[u] \in Handling /\ pc'[u] = pc[u] /\ fin'[u] = fin[u]
                   /\ fin[u] \in Jobs /\ fin[u] # j
        BY <1>3, <1>5, <1>14, <2>3, <3>1 DEF StageAgrees, HandlersAgree, Handling
      <3> QED BY <3>1, <1>7, <2>1 DEF StageAgrees, HandlersAgree, Handling
    <2>10. CallbacksAgree'
      <3>1. /\ ret'[w] = "startup"
            /\ \A u \in Threads \ {w} : ret'[u] = ret[u]
        BY <1>1, <2>1 DEF StageAgrees, TypeOK
      <3>2. Main \in Threads \ {w} BY <1>1 DEF Threads
      <3>3. \A k \in Jobs : callbacks[k] # {} => stage'[k] = stage[k]
        BY <1>3, <1>7, <1>14 DEF StageAgrees, CallbacksAgree
      <3>4. /\ \A k \in Jobs :
                /\ callbacks'[k] # {} => stage'[k] \in {"executor", "running", "ran"}
                /\ "package" \in callbacks'[k] => Terminal(k)
        BY <1>1, <3>3 DEF StageAgrees, CallbacksAgree
      <3>5. pc'[Main] = "addJobCb" =>
            /\ fin'[Main] \in Jobs
            /\ callbacks'[fin'[Main]] = {}
            /\ stage'[fin'[Main]] \in {"executor", "running", "ran", "returned"}
            /\ \A u \in Threads : ~(pc'[u] \in {"jobCb", "await"} /\ fin'[u] = fin'[Main])
        BY <1>1, <1>3, <1>5, <1>7, <1>14, <2>3, <3>2 DEF StageAgrees, CallbacksAgree
      <3>6. pc'[Main] = "addPkgCb" \/ ret'[Main] = "addPkgCb" =>
            fin'[Main] \in Jobs /\ future'[fin'[Main]] # "unsubmitted"
        BY <1>5, <2>1, <2>3, <3>1, <3>2 DEF StageAgrees, CallbacksAgree
      <3>7. \A u \in Threads :
            /\ pc'[u] = "pkgCb" \/ ret'[u] = "pkgCb" => fin'[u] \in Jobs /\ Terminal(fin'[u])
            /\ pc'[u] \in {"idle", "get", "submit"} => ret'[u] = "idle"
        BY <1>5, <2>3, <3>1 DEF StageAgrees, CallbacksAgree
      <3> QED BY <3>4, <3>5, <3>6, <3>7 DEF CallbacksAgree
    <2> QED BY <1>8, <1>9, <1>10, <1>11, <2>6, <2>7, <2>8, <2>9, <2>10 DEF StageAgrees
  <1> QED BY <1>13, <1>14

(* A script that leaves packages in watched directories keeps it. *)
LEMMA RunScriptStep ==
    ASSUME StageAgrees, NEW w \in Workers, RunScript(w)
    PROVE  StageAgrees'
  <1> DEFINE j == fin[w]
  <1>1. /\ w \in Threads /\ w # Main /\ pc[w] = "running"
        /\ j \in Jobs /\ stage[j] = "running"
        /\ UNCHANGED <<submitted, waiting, shutdown, queues, slots, execution, frame,
                       status, job>>
    BY ThreadAssumption
       DEF RunScript, Threads, StageAgrees, HandlersAgree, Handling
  <1>2. DropsOf[j] \subseteq Jobs /\ \A d \in DropsOf[j] : stage[d] = "absent"
    BY <1>1, WorkflowAssumption DEF StageAgrees, ForestAgrees
  <1>3. /\ watched' = watched \cup DropsOf[j] /\ watched' \subseteq Jobs
        /\ pc' = [pc EXCEPT ![w] = "returning"]
    BY <1>2 DEF RunScript, Goto, StageAgrees, TypeOK
  <1>4. /\ stage' \in [Jobs -> Stages]
        /\ \A k \in Jobs : stage'[k] = IF k \in DropsOf[j] THEN "watched"
                                       ELSE IF k = j THEN "ran" ELSE stage[k]
    BY <1>1 DEF RunScript, StageAgrees, TypeOK, Stages
  <1>5. /\ pc' \in [Threads -> Pcs] /\ pc'[w] = "returning"
        /\ \A u \in Threads \ {w} : pc'[u] = pc[u]
    BY <1>1, <1>3 DEF StageAgrees, TypeOK, Pcs
  <1>6. TypeOK'
    BY <1>1, <1>3, <1>4, <1>5
       DEF StageAgrees, TypeOK, queues, slots, execution, frame, Holding
  <1>7. j \notin DropsOf[j] BY <1>1, <1>2
  <1>8. FutureAgrees'
    BY <1>1, <1>2, <1>4, <1>7 DEF StageAgrees, FutureAgrees, execution
  <1>9. SetsAgree'
    <2>1. \A k \in Jobs : stage[k] \in {"watched", "submitted", "awaiting"} =>
                k # j /\ k \notin DropsOf[j] /\ stage'[k] = stage[k]
      BY <1>1, <1>2, <1>4
    <2>2. watched \subseteq Jobs /\ submitted \subseteq Jobs /\ waiting \subseteq Jobs
      BY DEF StageAgrees, TypeOK
    <2>3. \A k \in watched' : stage'[k] = "watched"
      BY <1>2, <1>3, <1>4, <2>1, <2>2 DEF StageAgrees, SetsAgree
    <2> QED BY <1>1, <2>1, <2>2, <2>3 DEF StageAgrees, SetsAgree
  <1>10. DeferredAgrees' /\ JobQueueAgrees' /\ ExecQueueAgrees'
    BY <1>1, <1>2, <1>4, DeferredKept, JobQueueKept, ExecQueueKept
       DEF queues, execution
  <1>11. HoldersAgree'
    <2>1. ASSUME NEW u \in Threads, pc'[u] \in Holding
          PROVE  /\ pc[u] \in Holding /\ job'[u] = job[u] /\ job[u] \in Jobs
                 /\ stage'[job[u]] = stage[job[u]]
      BY <1>1, <1>2, <1>4, <1>5, <2>1 DEF StageAgrees, TypeOK, HoldersAgree, Holding
    <2> QED BY <2>1 DEF StageAgrees, HoldersAgree
  <1>12. HandlersAgree'
    <2>1. ASSUME NEW u \in Threads \ {w}, pc'[u] \in Handling
          PROVE  /\ pc[u] \in Handling /\ pc'[u] = pc[u] /\ fin'[u] = fin[u]
                 /\ fin[u] \in Jobs /\ fin[u] # j /\ stage'[fin[u]] = stage[fin[u]]
      BY <1>1, <1>2, <1>4, <1>5, <2>1
         DEF StageAgrees, HandlersAgree, Handling, frame
    <2>2. fin'[w] = j /\ stage'[j] = "ran" BY <1>1, <1>4, <1>7 DEF frame
    <2> QED BY <2>1, <2>2, <1>1, <1>5
            DEF StageAgrees, HandlersAgree, Handling, execution
  <1>13. CallbacksAgree'
    BY <1>1, <1>2, <1>4, <1>5, <1>7, ThreadAssumption
       DEF StageAgrees, CallbacksAgree, Threads, execution, frame
  <1>14. ForestAgrees'
    <2>1. ASSUME NEW k \in Jobs, NextOf[k] # NoJob, stage'[k] # "spent"
          PROVE  stage'[NextOf[k]] = "absent"
      <3>1. NextOf[k] \in Jobs /\ NextOf[k] \notin DropsOf[j]
        BY <1>1, <2>1, WorkflowAssumption
      <3>2. stage[k] # "spent" BY <1>1, <1>2, <1>4, <2>1
      <3>3. stage[NextOf[k]] = "absent" BY <2>1, <3>2 DEF StageAgrees, ForestAgrees
      <3> QED BY <1>1, <1>4, <3>1, <3>3
    <2>2. ASSUME NEW k \in Jobs,
                 stage'[k] \notin {"ran", "returned", "awaiting", "spent"},
                 NEW d \in DropsOf[k]
          PROVE  stage'[d] = "absent"
      <3>1. k # j /\ d \in Jobs BY <1>4, <1>7, <2>2, WorkflowAssumption
      <3>2. d \notin DropsOf[j] BY <1>1, <3>1, WorkflowAssumption
      <3>3. stage[k] \notin {"ran", "returned", "awaiting", "spent"}
        BY <1>2, <1>4, <2>2, <3>1
      <3>4. stage[d] = "absent" BY <3>3 DEF StageAgrees, ForestAgrees
      <3> QED BY <1>1, <1>4, <3>1, <3>2, <3>4
    <2> QED BY <2>1, <2>2 DEF ForestAgrees
  <1> QED BY <1>6, <1>8, <1>9, <1>10, <1>11, <1>12, <1>13, <1>14 DEF StageAgrees

(* A future that finishes, with its callbacks, keeps the invariant. *)
LEMMA FinishStep ==
    ASSUME StageAgrees, NEW w \in Workers, Finish(w)
    PROVE  StageAgrees'
  <1> DEFINE j == fin[w]
  <1>1. /\ w \in Threads /\ w # Main /\ pc[w] \in {"running", "returning"}
        /\ j \in Jobs /\ stage[j] \in {"running", "ran"}
        /\ UNCHANGED <<outside, queues, slots, execQueue, room, status, job>>
    BY ThreadAssumption DEF Finish, Threads, StageAgrees, HandlersAgree, Handling
  <1>2. PICK r \in ResultsOf(j) :
            /\ future' = [future EXCEPT ![j] = r]
            /\ pc[w] = "running" => r = "raised"
    BY DEF Finish
  <1>3. r \in Results /\ (r = "next" => NextOf[j] # NoJob)
    BY <1>2 DEF ResultsOf, Results
  <1>4. /\ future' \in [Jobs -> Futures]
        /\ \A k \in Jobs : future'[k] = IF k = j THEN r ELSE future[k]
    BY <1>1, <1>2, <1>3 DEF StageAgrees, TypeOK, Futures
  <1>5. /\ stage' \in [Jobs -> Stages]
        /\ \A k \in Jobs : stage'[k] = IF k = j THEN "returned" ELSE stage[k]
    BY <1>1 DEF Finish, Move, StageAgrees, TypeOK, Stages
  <1>6. /\ callbacks' \in [Jobs -> SUBSET {"job", "package"}]
        /\ \A k \in Jobs : callbacks'[k] = IF k = j THEN {} ELSE callbacks[k]
    BY <1>1 DEF Finish, StageAgrees, TypeOK
  <1>7. \/ /\ "job" \in callbacks[j]
           /\ pc' = [pc EXCEPT ![w] = "jobCb"]
           /\ ret' = [ret EXCEPT ![w] = IF "package" \in callbacks[j]
                                       THEN "pkgCb" ELSE "idle"]
           /\ UNCHANGED fin
        \/ /\ pc' = [pc EXCEPT ![w] = "idle"]
           /\ ret' = [ret EXCEPT ![w] = "idle"]
           /\ fin' = [fin EXCEPT ![w] = NoJob]
    BY DEF Finish, Resume, Goto
  <1>8. /\ pc' \in [Threads -> Pcs] /\ pc'[w] \in {"jobCb", "idle"}
        /\ fin' \in [Threads -> Jobs \cup {NoJob}]
        /\ ret' \in [Threads -> {"idle", "addPkgCb", "pkgCb", "startup"}]
        /\ ret'[w] \in {"pkgCb", "idle"}
        /\ \A u \in Threads \ {w} :
                pc'[u] = pc[u] /\ fin'[u] = fin[u] /\ ret'[u] = ret[u]
        /\ pc'[w] = "jobCb" => "job" \in callbacks[j] /\ fin'[w] = j
        /\ pc'[w] = "idle" => ret'[w] = "idle"
        /\ ret'[w] = "pkgCb" => "package" \in callbacks[j] /\ fin'[w] = j
    <2>1. /\ pc \in [Threads -> Pcs]
          /\ fin \in [Threads -> Jobs \cup {NoJob}]
          /\ ret \in [Threads -> {"idle", "addPkgCb", "pkgCb", "startup"}]
          /\ "jobCb" \in Pcs /\ "idle" \in Pcs
      BY DEF StageAgrees, TypeOK, Pcs
    <2>2. CASE /\ "job" \in callbacks[j]
               /\ pc' = [pc EXCEPT ![w] = "jobCb"]
               /\ ret' = [ret EXCEPT ![w] = IF "package" \in callbacks[j]
                                           THEN "pkgCb" ELSE "idle"]
               /\ UNCHANGED fin
      <3>1. PICK s \in {"pkgCb", "idle"} :
                /\ ret' = [ret EXCEPT ![w] = s]
                /\ s = "pkgCb" => "package" \in callbacks[j]
        BY <2>2
      <3> QED BY <1>1, <2>1, <2>2, <3>1
    <2>3. CASE /\ pc' = [pc EXCEPT ![w] = "idle"]
               /\ ret' = [ret EXCEPT ![w] = "idle"]
               /\ fin' = [fin EXCEPT ![w] = NoJob]
      BY <1>1, <2>1, <2>3
    <2> QED BY <1>7, <2>2, <2>3
  <1>9. TypeOK'
    BY <1>1, <1>4, <1>5, <1>6, <1>8
       DEF StageAgrees, TypeOK, outside, queues, slots, Holding
  <1>10. FutureAgrees'
    BY <1>1, <1>3, <1>4, <1>5 DEF StageAgrees, FutureAgrees, Results
  <1>11. SetsAgree'
    BY <1>1, <1>5 DEF StageAgrees, TypeOK, SetsAgree, outside
  <1>12. DeferredAgrees' /\ JobQueueAgrees' /\ ExecQueueAgrees'
    BY <1>1, <1>5, DeferredKept, JobQueueKept, ExecQueueKept DEF queues
  <1>13. HoldersAgree'
    <2>1. ASSUME NEW u \in Threads, pc'[u] \in Holding
          PROVE  /\ pc[u] \in Holding /\ job'[u] = job[u] /\ job[u] \in Jobs
                 /\ stage'[job[u]] = stage[job[u]]
      BY <1>1, <1>5, <1>8, <2>1 DEF StageAgrees, TypeOK, HoldersAgree, Holding
    <2> QED BY <2>1 DEF StageAgrees, HoldersAgree
  <1>14. \A u \in Threads \ {w} :
            pc[u] \in Handling => fin[u] \in Jobs /\ fin[u] # j
    BY <1>1 DEF StageAgrees, HandlersAgree, Handling
  <1>15. HandlersAgree'
    <2>1. ASSUME NEW u \in Threads \ {w}, pc'[u] \in Handling
          PROVE  /\ pc[u] \in Handling /\ pc'[u] = pc[u] /\ fin'[u] = fin[u]
                 /\ fin[u] \in Jobs /\ fin[u] # j /\ stage'[fin[u]] = stage[fin[u]]
                 /\ future'[fin[u]] = future[fin[u]]
      BY <1>4, <1>5, <1>8, <1>14, <2>1
    <2>2. pc'[w] \in Handling => /\ pc'[w] = "jobCb" /\ fin'[w] = j /\ j \in Jobs
                                 /\ stage'[j] = "returned"
      BY <1>1, <1>5, <1>8 DEF Handling
    <2> QED BY <2>1, <2>2 DEF StageAgrees, HandlersAgree, Handling
  <1>16. CallbacksAgree'
    <2>1. \A k \in Jobs :
            /\ callbacks'[k] # {} => stage'[k] \in {"executor", "running", "ran"}
            /\ "package" \in callbacks'[k] => Terminal(k)
      BY <1>5, <1>6 DEF StageAgrees, CallbacksAgree
    <2>2. pc'[Main] = "addJobCb" =>
            /\ fin'[Main] \in Jobs
            /\ callbacks'[fin'[Main]] = {}
            /\ stage'[fin'[Main]] \in {"executor", "running", "ran", "returned"}
            /\ \A u \in Threads : ~(pc'[u] \in {"jobCb", "await"} /\ fin'[u] = fin'[Main])
      BY <1>1, <1>5, <1>6, <1>8 DEF StageAgrees, CallbacksAgree, Threads
    <2>3. pc'[Main] = "addPkgCb" \/ ret'[Main] = "addPkgCb" =>
            fin'[Main] \in Jobs /\ future'[fin'[Main]] # "unsubmitted"
      BY <1>1, <1>3, <1>4, <1>8 DEF StageAgrees, CallbacksAgree, Threads, Results
    <2>4. \A u \in Threads :
            /\ pc'[u] = "pkgCb" \/ ret'[u] = "pkgCb" => fin'[u] \in Jobs /\ Terminal(fin'[u])
            /\ pc'[u] \in {"idle", "get", "submit"} => ret'[u] = "idle"
      BY <1>1, <1>8 DEF StageAgrees, CallbacksAgree
    <2> QED BY <2>1, <2>2, <2>3, <2>4 DEF CallbacksAgree
  <1>17. ForestAgrees'
    BY <1>1, <1>5, WorkflowAssumption DEF StageAgrees, ForestAgrees
  <1> QED BY <1>9, <1>10, <1>11, <1>12, <1>13, <1>15, <1>16, <1>17 DEF StageAgrees

(* watched_dir_handler keeps the invariant. *)
LEMMA HandleWatchedDirStep ==
    ASSUME StageAgrees, HandleWatchedDir
    PROVE  StageAgrees'
  <1>a. CASE Goto(Watcher, "stopped") /\ UNCHANGED <<watched, job, stage>>
    <2>1. Watcher \in Threads /\ pc[Watcher] = "idle"
      BY DEF HandleWatchedDir, Threads
    <2>2. status' \in [Packages -> Statuses]
      BY DEF HandleWatchedDir, StageAgrees, TypeOK, Statuses
    <2>3. UNCHANGED <<submitted, waiting, shutdown, queues, slots, execution, frame>>
      BY DEF HandleWatchedDir
    <2>4. TypeOK'
      BY <1>a, <2>1, <2>2, <2>3
         DEF StageAgrees, TypeOK, queues, slots, execution, frame, Goto, Pcs, Holding
    <2> QED BY <1>a, <2>1, <2>3, <2>4, QuietThread
            DEF Pcs, Handling, Holding, outside, queues, execution, frame
  <1> SUFFICES ASSUME ~ (Goto(Watcher, "stopped") /\ UNCHANGED <<watched, job, stage>>)
               PROVE  StageAgrees'
    BY <1>a
  <1>1. PICK j \in watched :
            /\ watched' = watched \ {j}
            /\ status' = [status EXCEPT ![PackageOf[j]] = "processing"]
            /\ Take(Watcher, j)
            /\ Move(j, "held")
            /\ Goto(Watcher, "schedule")
    BY DEF HandleWatchedDir
  <1>2. /\ Watcher \in Threads /\ pc[Watcher] = "idle" /\ Goto(Watcher, "schedule")
        /\ j \in Jobs /\ stage[j] = "watched"
        /\ UNCHANGED <<submitted, waiting, shutdown, queues, slots, execution, frame>>
    BY <1>1 DEF HandleWatchedDir, Threads, StageAgrees, TypeOK, SetsAgree
  <1>3. /\ stage' \in [Jobs -> Stages]
        /\ \A k \in Jobs : stage'[k] = IF k = j THEN "held" ELSE stage[k]
    BY <1>1, <1>2 DEF Move, StageAgrees, TypeOK, Stages
  <1>4. /\ pc' \in [Threads -> Pcs] /\ pc'[Watcher] = "schedule"
        /\ \A u \in Threads \ {Watcher} : pc'[u] = pc[u]
    BY <1>2 DEF Goto, StageAgrees, TypeOK, Pcs
  <1>5. /\ job' \in [Threads -> Jobs \cup {NoJob}] /\ job'[Watcher] = j
        /\ \A u \in Threads \ {Watcher} : job'[u] = job[u]
    BY <1>1, <1>2 DEF Take, StageAgrees, TypeOK
  <1>6. status' \in [Packages -> Statuses]
    BY <1>1 DEF StageAgrees, TypeOK, Statuses
  <1>7. \A u \in Threads : pc'[u] \in Holding => job'[u] \in Jobs
    BY <1>2, <1>4, <1>5 DEF StageAgrees, TypeOK
  <1>8. TypeOK'
    BY <1>1, <1>2, <1>3, <1>4, <1>5, <1>6, <1>7
       DEF StageAgrees, TypeOK, queues, slots, execution, frame
  <1>9. FutureAgrees'
    BY <1>2, <1>3 DEF StageAgrees, FutureAgrees, execution
  <1>10. SetsAgree'
    BY <1>1, <1>2, <1>3 DEF StageAgrees, TypeOK, SetsAgree
  <1>11. DeferredAgrees' /\ JobQueueAgrees' /\ ExecQueueAgrees'
    BY <1>2, <1>3, DeferredKept, JobQueueKept, ExecQueueKept DEF queues, execution
  <1>12. HoldersAgree'
    BY <1>2, <1>3, <1>4, <1>5, HoldersTaken
  <1>13. HandlersAgree' /\ CallbacksAgree'
    <2>1. Resume(Watcher, "schedule") /\ UNCHANGED <<future, callbacks>>
      BY <1>2 DEF Resume, frame, execution
    <2>2. "schedule" \in Pcs \ (Handling \cup {"get", "submit", "addJobCb"})
      BY DEF Pcs, Handling
    <2> QED BY <1>2, <1>3, <2>1, <2>2, ExitThreads
  <1>14. ForestAgrees'
    BY <1>2, <1>3, WorkflowAssumption DEF StageAgrees, ForestAgrees
  <1> QED BY <1>8, <1>9, <1>10, <1>11, <1>12, <1>13, <1>14 DEF StageAgrees

(* create_package keeps the invariant. *)
LEMMA CreatePackageStep ==
    ASSUME StageAgrees, NEW t \in Threads, CreatePackage(t)
    PROVE  StageAgrees'
  <1>1. PICK j \in submitted :
            /\ submitted' = submitted \ {j}
            /\ \/ /\ status' = [status EXCEPT ![PackageOf[j]] = "failed"]
                  /\ Move(j, "lost")
                  /\ UNCHANGED execQueue
               \/ /\ status' = [status EXCEPT ![PackageOf[j]] = "processing"]
                  /\ Move(j, "starting")
                  /\ execQueue' = Append(execQueue, [task |-> "start", job |-> j])
    BY DEF CreatePackage
  <1>2. /\ j \in Jobs /\ stage[j] = "submitted"
        /\ UNCHANGED <<watched, waiting, shutdown, queues, slots, future, callbacks,
                       frame, pc, job>>
    BY DEF CreatePackage, StageAgrees, TypeOK, SetsAgree
  <1>3. PICK s \in {"lost", "starting"} :
            /\ Move(j, s)
            /\ s = "lost" => UNCHANGED execQueue
            /\ s = "starting" =>
                execQueue' = Append(execQueue, [task |-> "start", job |-> j])
    BY <1>1
  <1>4. /\ stage' \in [Jobs -> Stages]
        /\ \A k \in Jobs : stage'[k] = IF k = j THEN s ELSE stage[k]
    BY <1>2, <1>3 DEF Move, StageAgrees, TypeOK, Stages
  <1>5. execQueue' \in Seq(Tasks) /\ ExecQueueAgrees'
    <2>1. CASE s = "lost"
      <3>1. UNCHANGED execQueue BY <1>3, <2>1
      <3> QED BY <1>2, <1>4, <3>1, ExecQueueKept DEF StageAgrees, TypeOK
    <2>2. CASE s = "starting"
      <3> DEFINE x == [task |-> "start", job |-> j]
      <3>1. x \in Tasks /\ x.job = j /\ x.task = "start" BY <1>2 DEF Tasks
      <3> QED BY <1>2, <1>3, <1>4, <2>2, <3>1, ExecAppend
    <2> QED BY <2>1, <2>2
  <1>6. status' \in [Packages -> Statuses]
    BY <1>1 DEF StageAgrees, TypeOK, Statuses
  <1>7. TypeOK'
    BY <1>1, <1>2, <1>4, <1>5, <1>6 DEF StageAgrees, TypeOK, queues, slots, frame
  <1>8. FutureAgrees'
    BY <1>2, <1>4 DEF StageAgrees, FutureAgrees
  <1>9. SetsAgree'
    BY <1>1, <1>2, <1>4 DEF StageAgrees, TypeOK, SetsAgree
  <1>10. DeferredAgrees' /\ JobQueueAgrees'
    BY <1>2, <1>4, DeferredKept, JobQueueKept DEF queues
  <1>11. HoldersAgree'
    BY <1>2, <1>4 DEF StageAgrees, TypeOK, HoldersAgree
  <1>12. HandlersAgree' /\ CallbacksAgree'
    BY <1>2, <1>4 DEF StageAgrees, HandlersAgree, CallbacksAgree, Handling, frame
  <1>13. ForestAgrees'
    BY <1>2, <1>4, WorkflowAssumption DEF StageAgrees, ForestAgrees
  <1> QED BY <1>5, <1>7, <1>8, <1>9, <1>10, <1>11, <1>12, <1>13 DEF StageAgrees

(* decide keeps the invariant. *)
LEMMA DecideStep ==
    ASSUME StageAgrees, NEW t \in Threads, Decide(t)
    PROVE  StageAgrees'
  <1>1. PICK j \in waiting :
            /\ waiting' = waiting \ {j}
            /\ IF NextOf[j] = NoJob
               THEN Move(j, "spent") /\ UNCHANGED <<pc, job>>
               ELSE /\ Take(t, NextOf[j])
                    /\ stage' = [stage EXCEPT ![j] = "spent", ![NextOf[j]] = "held"]
                    /\ Goto(t, "schedule")
    BY DEF Decide
  <1>2. /\ pc[t] = "idle" /\ j \in Jobs /\ stage[j] = "awaiting"
        /\ UNCHANGED <<watched, submitted, shutdown, queues, slots, execution, frame,
                       status>>
    BY DEF Decide, StageAgrees, TypeOK, SetsAgree
  <1>3. CASE NextOf[j] # NoJob
    BY <1>1, <1>2, <1>3, SuccessorStep
  <1>4. CASE NextOf[j] = NoJob
    <2>1. Move(j, "spent") /\ UNCHANGED <<pc, job>> BY <1>1, <1>4
    <2>2. /\ stage' \in [Jobs -> Stages]
          /\ \A k \in Jobs : stage'[k] = IF k = j THEN "spent" ELSE stage[k]
      BY <1>2, <2>1 DEF Move, StageAgrees, TypeOK, Stages
    <2>3. TypeOK'
      BY <1>1, <1>2, <2>1, <2>2
         DEF StageAgrees, TypeOK, queues, slots, execution, frame
    <2>4. FutureAgrees'
      BY <1>2, <2>2 DEF StageAgrees, FutureAgrees, execution
    <2>5. SetsAgree'
      BY <1>1, <1>2, <2>2 DEF StageAgrees, TypeOK, SetsAgree
    <2>6. DeferredAgrees' /\ JobQueueAgrees' /\ ExecQueueAgrees'
      BY <1>2, <2>2, DeferredKept, JobQueueKept, ExecQueueKept DEF queues, execution
    <2>7. HoldersAgree'
      BY <1>2, <2>1, <2>2 DEF StageAgrees, TypeOK, HoldersAgree
    <2>8. HandlersAgree' /\ CallbacksAgree'
      BY <1>2, <2>1, <2>2
         DEF StageAgrees, HandlersAgree, CallbacksAgree, Handling, execution, frame
    <2>9. ForestAgrees'
      BY <1>2, <1>4, <2>2, WorkflowAssumption DEF StageAgrees, ForestAgrees
    <2> QED BY <2>3, <2>4, <2>5, <2>6, <2>7, <2>8, <2>9 DEF StageAgrees
  <1> QED BY <1>3, <1>4

(* The server starts with the invariant. *)
LEMMA InitInv == ASSUME Init PROVE StageAgrees
  <1> USE DEF Init
  <1>1. TypeOK
    <2>1. Arrivals \subseteq Jobs /\ Submissions \subseteq Jobs BY WorkflowAssumption
    <2>2. deferred \in [Types -> Seq(Jobs)] /\ jobQueue \in Seq(Jobs)
          /\ execQueue \in Seq(Tasks)
      BY EmptySeq
    <2>3. stage \in [Jobs -> Stages] BY DEF Stages
    <2>4. \A t \in Threads : pc[t] \notin Holding BY DEF Holding
    <2> QED BY <2>1, <2>2, <2>3, <2>4 DEF TypeOK, Futures, Statuses, Pcs
  <1>2. FutureAgrees BY DEF FutureAgrees
  <1>3. SetsAgree BY WorkflowAssumption DEF SetsAgree
  <1>4. DeferredAgrees BY DEF DeferredAgrees, Distinct
  <1>5. JobQueueAgrees BY DEF JobQueueAgrees, Distinct
  <1>6. ExecQueueAgrees BY DEF ExecQueueAgrees
  <1>7. HoldersAgree BY DEF HoldersAgree, Holding
  <1>8. HandlersAgree BY DEF HandlersAgree, Handling
  <1>9. CallbacksAgree BY DEF CallbacksAgree, Threads
  <1>10. ForestAgrees BY WorkflowAssumption DEF ForestAgrees
  <1> QED BY <1>1, <1>2, <1>3, <1>4, <1>5, <1>6, <1>7, <1>8, <1>9, <1>10
          DEF StageAgrees

(* Every step of every thread keeps the invariant. *)
LEMMA StepInv == ASSUME StageAgrees, [Next]_vars PROVE StageAgrees'
  <1>1. ASSUME NEW t \in Threads, QueueStep(t) PROVE StageAgrees'
    <2>1. CASE Schedule(t) BY <2>1, ScheduleStep
    <2>2. CASE Acquire(t) BY <2>2, AcquireStep
    <2>3. CASE Put(t) BY <2>3, PutStep
    <2>4. CASE Defer(t) BY <2>4, DeferStep
    <2>5. CASE GetDip(t) BY <2>5, GetDipStep
    <2>6. CASE GetSip(t) BY <2>6, GetSipStep
    <2>7. CASE GetTransfer(t) BY <2>7, GetTransferStep
    <2>8. CASE Activate(t) BY <2>8, ActivateStep
    <2>9. CASE PutNowait(t) BY <2>9, PutNowaitStep
    <2> QED BY <1>1, <2>1, <2>2, <2>3, <2>4, <2>5, <2>6, <2>7, <2>8, <2>9 DEF QueueStep
  <1>2. ASSUME NEW t \in Workers \cup {Main}, CallbackStep(t) PROVE StageAgrees'
    <2> t \in Threads BY DEF Threads
    <2>1. CASE JobCallback(t) BY <2>1, JobCallbackStep
    <2>2. CASE AwaitDecision(t) BY <2>2, AwaitDecisionStep
    <2>3. CASE HandleFailure(t) BY <2>3, HandleFailureStep
    <2>4. CASE PackageCallback(t) BY <2>4, PackageCallbackStep
    <2>5. CASE Deactivate(t) BY <2>5, DeactivateStep
    <2> QED BY <1>2, <2>1, <2>2, <2>3, <2>4, <2>5 DEF CallbackStep
  <1>3. CASE MainStep
    BY <1>3, LoopStep, GetStep, SubmitStep, AddJobCallbackStep, AddPackageCallbackStep
       DEF MainStep
  <1>4. CASE SignalHandler BY <1>4, SignalHandlerStep
  <1>5. ASSUME NEW w \in Workers, WorkerStep(w) PROVE StageAgrees'
    BY <1>5, TakeTaskStep, RunScriptStep, FinishStep DEF WorkerStep
  <1>6. CASE HandleWatchedDir BY <1>6, HandleWatchedDirStep
  <1>7. ASSUME NEW t \in RpcThreads, CreatePackage(t) \/ Decide(t) PROVE StageAgrees'
    BY <1>7, CreatePackageStep, DecideStep DEF Threads
  <1>8. CASE UNCHANGED vars
    <2> USE <1>8 DEF vars, outside, queues, slots, execution, frame
    <2>1. TypeOK' BY DEF StageAgrees, TypeOK
    <2>2. /\ FutureAgrees' /\ SetsAgree' /\ DeferredAgrees' /\ JobQueueAgrees'
          /\ ExecQueueAgrees' /\ HoldersAgree' /\ ForestAgrees'
      BY QuietStep
    <2>3. HandlersAgree' /\ CallbacksAgree'
      BY DEF StageAgrees, HandlersAgree, CallbacksAgree
    <2> QED BY <2>1, <2>2, <2>3 DEF StageAgrees
  <1> QED BY <1>1, <1>2, <1>3, <1>4, <1>5, <1>6, <1>7, <1>8 DEF Next

(* Queues, sets and threads agree on where every job is, in every reachable
   state: the inductive invariant of the package queue. *)
THEOREM AlwaysStageAgrees == Spec => []StageAgrees
  BY InitInv, StepInv, PTL DEF Spec

(* Every variable keeps its type, and a thread at a control point that uses
   the job in its hands has one. *)
THEOREM TypeCorrect == Spec => []TypeOK
  <1>1. StageAgrees => TypeOK BY DEF StageAgrees
  <1> QED BY <1>1, AlwaysStageAgrees, PTL

(* The stage of a job names the only kind of place it can be in. *)
LEMMA PlaceNames ==
    ASSUME StageAgrees, NEW j \in Jobs, NEW p \in Places(j)
    PROVE  \/ stage[j] = "watched" /\ p = <<"watched", j>>
           \/ stage[j] = "submitted" /\ p = <<"submitted", j>>
           \/ stage[j] = "awaiting" /\ p = <<"waiting", j>>
           \/ /\ stage[j] = "deferred"
              /\ \E i \in 1..Len(deferred[TypeOf[j]]) :
                    p = <<TypeOf[j], i>> /\ deferred[TypeOf[j]][i] = j
           \/ /\ stage[j] = "queued"
              /\ \E i \in 1..Len(jobQueue) : p = <<"job_queue", i>> /\ jobQueue[i] = j
           \/ /\ stage[j] \in {"executor", "starting"}
              /\ \E i \in 1..Len(execQueue) :
                    p = <<"executor", i>> /\ execQueue[i].job = j
           \/ /\ stage[j] \in {"held", "running", "ran", "returned"}
              /\ \E t \in Threads : p = <<"thread", t>> /\ Holds(t, j)
  <1>1. CASE p \in {"watched"} \X (watched \cap {j})
    BY <1>1 DEF StageAgrees, SetsAgree
  <1>2. CASE p \in {"submitted"} \X (submitted \cap {j})
    BY <1>2 DEF StageAgrees, SetsAgree
  <1>3. CASE p \in {"waiting"} \X (waiting \cap {j})
    BY <1>3 DEF StageAgrees, SetsAgree
  <1>4. CASE p \in UNION {{ty} \X Positions(deferred[ty], j) : ty \in Types}
    <2>1. PICK ty \in Types : p \in {ty} \X Positions(deferred[ty], j) BY <1>4
    <2>2. PICK i \in 1..Len(deferred[ty]) : p = <<ty, i>> /\ deferred[ty][i] = j
      BY <2>1 DEF Positions
    <2>3. stage[j] = "deferred" /\ TypeOf[j] = ty
      BY <2>2 DEF StageAgrees, DeferredAgrees
    <2> QED BY <2>2, <2>3
  <1>5. CASE p \in {"job_queue"} \X Positions(jobQueue, j)
    BY <1>5 DEF StageAgrees, JobQueueAgrees, Positions
  <1>6. CASE p \in {"executor"} \X {i \in 1..Len(execQueue) : execQueue[i].job = j}
    BY <1>6 DEF StageAgrees, ExecQueueAgrees
  <1>7. CASE p \in {"thread"} \X {t \in Threads : Holds(t, j)}
    <2>1. PICK t \in Threads : p = <<"thread", t>> /\ Holds(t, j) BY <1>7
    <2>2. stage[j] \in {"held", "running", "ran", "returned"}
      BY <2>1 DEF Holds, StageAgrees, HoldersAgree, HandlersAgree, Handling
    <2> QED BY <2>1, <2>2
  <1>8. \/ p \in {"watched"} \X (watched \cap {j})
        \/ p \in {"submitted"} \X (submitted \cap {j})
        \/ p \in {"waiting"} \X (waiting \cap {j})
        \/ p \in UNION {{ty} \X Positions(deferred[ty], j) : ty \in Types}
        \/ p \in {"job_queue"} \X Positions(jobQueue, j)
        \/ p \in {"executor"} \X {i \in 1..Len(execQueue) : execQueue[i].job = j}
        \/ p \in {"thread"} \X {t \in Threads : Holds(t, j)}
    BY Zenon DEF Places
  <1> QED BY <1>1, <1>2, <1>3, <1>4, <1>5, <1>6, <1>7, <1>8

(* Under the invariant a job is in one place at most. *)
LEMMA OnePlace == ASSUME StageAgrees PROVE JobInOnePlace
  <1> SUFFICES ASSUME NEW j \in Jobs, NEW p \in Places(j), NEW q \in Places(j)
               PROVE  p = q
    BY DEF JobInOnePlace
  <1> TypeOf[j] \in Types BY WorkflowAssumption
  <1>1. CASE stage[j] = "deferred"
    <2>1. PICK i \in 1..Len(deferred[TypeOf[j]]) :
            p = <<TypeOf[j], i>> /\ deferred[TypeOf[j]][i] = j
      BY <1>1, PlaceNames
    <2>2. PICK k \in 1..Len(deferred[TypeOf[j]]) :
            q = <<TypeOf[j], k>> /\ deferred[TypeOf[j]][k] = j
      BY <1>1, PlaceNames
    <2> QED BY <2>1, <2>2 DEF StageAgrees, DeferredAgrees, Distinct
  <1>2. CASE stage[j] = "queued"
    <2>1. PICK i \in 1..Len(jobQueue) : p = <<"job_queue", i>> /\ jobQueue[i] = j
      BY <1>2, PlaceNames
    <2>2. PICK k \in 1..Len(jobQueue) : q = <<"job_queue", k>> /\ jobQueue[k] = j
      BY <1>2, PlaceNames
    <2> QED BY <2>1, <2>2 DEF StageAgrees, JobQueueAgrees, Distinct
  <1>3. CASE stage[j] \in {"executor", "starting"}
    <2>1. PICK i \in 1..Len(execQueue) : p = <<"executor", i>> /\ execQueue[i].job = j
      BY <1>3, PlaceNames
    <2>2. PICK k \in 1..Len(execQueue) : q = <<"executor", k>> /\ execQueue[k].job = j
      BY <1>3, PlaceNames
    <2> QED BY <2>1, <2>2 DEF StageAgrees, ExecQueueAgrees
  <1>4. CASE stage[j] \in {"held", "running", "ran", "returned"}
    <2>1. PICK t \in Threads : p = <<"thread", t>> /\ Holds(t, j) BY <1>4, PlaceNames
    <2>2. PICK u \in Threads : q = <<"thread", u>> /\ Holds(u, j) BY <1>4, PlaceNames
    <2>3. t = u
      <3>1. CASE stage[j] = "held"
        BY <3>1, <2>1, <2>2
           DEF Holds, StageAgrees, HoldersAgree, HandlersAgree, Handling
      <3>2. CASE stage[j] # "held"
        BY <3>2, <2>1, <2>2 DEF Holds, StageAgrees, HoldersAgree, HandlersAgree
      <3> QED BY <3>1, <3>2
    <2> QED BY <2>1, <2>2, <2>3
  <1>5. CASE stage[j] \in {"watched", "submitted", "awaiting"}
    BY <1>5, PlaceNames
  <1> QED BY <1>1, <1>2, <1>3, <1>4, <1>5, PlaceNames

(* No interleaving of callbacks, decisions and schedulers puts a job in two
   queues, in one queue twice, or in the hands of two threads. *)
THEOREM AlwaysOnePlace == Spec => []JobInOnePlace
  BY AlwaysStageAgrees, OnePlace, PTL

(* A job's future goes from unsubmitted to submitted, running and a result. *)
LEMMA FuturesMove ==
    ASSUME StageAgrees, [Next]_vars, NEW j \in Jobs
    PROVE  \/ future'[j] = future[j]
           \/ future[j] = "unsubmitted" /\ future'[j] = "submitted" /\ stage[j] = "held"
           \/ future[j] = "submitted" /\ future'[j] = "running"
           \/ future[j] = "running" /\ future'[j] \in Results
  <1> future \in [Jobs -> Futures] BY DEF StageAgrees, TypeOK
  <1>1. CASE Submit
    <2>1. job[Main] \in Jobs /\ stage[job[Main]] = "held"
      BY <1>1 DEF Submit, Threads, Holding, StageAgrees, TypeOK, HoldersAgree
    <2>2. future[job[Main]] = "unsubmitted" BY <2>1 DEF StageAgrees, FutureAgrees
    <2>3. \/ future' = future
          \/ future' = [future EXCEPT ![job[Main]] = "submitted"]
      BY <1>1 DEF Submit
    <2> QED BY <2>1, <2>2, <2>3
  <1>2. ASSUME NEW w \in Workers, TakeTask(w)
        PROVE  \/ future'[j] = future[j]
               \/ future[j] = "submitted" /\ future'[j] = "running"
    <2> DEFINE x == Head(execQueue)
    <2>1. \/ future' = future
          \/ x.task = "run" /\ future' = [future EXCEPT ![x.job] = "running"]
      BY <1>2 DEF TakeTask
    <2>2. x.task = "run" => x.job \in Jobs /\ future[x.job] = "submitted"
      <3>1. x = execQueue[1] /\ 1 \in 1..Len(execQueue)
        BY <1>2, TailFacts DEF TakeTask, StageAgrees, TypeOK
      <3> QED BY <3>1, Elements DEF StageAgrees, ExecQueueAgrees, FutureAgrees
    <2> QED BY <2>1, <2>2
  <1>3. ASSUME NEW w \in Workers, Finish(w)
        PROVE  \/ future'[j] = future[j]
               \/ future[j] = "running" /\ future'[j] \in Results
    <2>1. fin[w] \in Jobs /\ stage[fin[w]] \in {"running", "ran"}
      BY <1>3 DEF Finish, Threads, StageAgrees, HandlersAgree, Handling
    <2>2. future[fin[w]] = "running" BY <2>1 DEF StageAgrees, FutureAgrees
    <2>3. \E r \in Results : future' = [future EXCEPT ![fin[w]] = r]
      BY <1>3 DEF Finish, ResultsOf, Results
    <2> QED BY <2>1, <2>2, <2>3
  <1>4. CASE UNCHANGED future BY <1>4
  <1>5. \A t \in Threads : QueueStep(t) => UNCHANGED future
    BY DEF QueueStep, Schedule, Acquire, Put, Defer, GetDip, GetSip, GetTransfer,
           GetDeferred, Activate, PutNowait, execution
  <1>6. \A t \in Workers \cup {Main} : CallbackStep(t) => UNCHANGED future
    BY DEF CallbackStep, JobCallback, AwaitDecision, HandleFailure, PackageCallback,
           Deactivate, execution
  <1>7. MainStep => Submit \/ UNCHANGED future
    BY DEF MainStep, Loop, Get, AddJobCallback, AddPackageCallback, execution
  <1>8. \A w \in Workers : WorkerStep(w) => TakeTask(w) \/ Finish(w) \/ UNCHANGED future
    BY DEF WorkerStep, RunScript, execution
  <1>9. SignalHandler \/ HandleWatchedDir => UNCHANGED future
    BY DEF SignalHandler, HandleWatchedDir, execution
  <1>10. \A t \in RpcThreads : CreatePackage(t) \/ Decide(t) => UNCHANGED future
    BY DEF CreatePackage, Decide, execution
  <1>11. UNCHANGED vars => UNCHANGED future BY DEF vars, execution
  <1> QED BY <1>1, <1>2, <1>3, <1>4, <1>5, <1>6, <1>7, <1>8, <1>9, <1>10, <1>11
          DEF Next

(* A job is submitted to the executor once, and its result never changes. *)
THEOREM AlwaysRunsOnce == Spec => RunsOnce
  <1>1. StageAgrees /\ [Next]_vars => [\A j \in Jobs : SubmittedOnce(j)]_vars
    BY FuturesMove DEF Results, SubmittedOnce
  <1> QED BY <1>1, AlwaysStageAgrees, PTL DEF Spec, RunsOnce

(* Where the first job of a chain and the successor of a job come from. *)
LEMMA Origins ==
    ASSUME StageAgrees, [Next]_vars, NEW k \in Jobs,
           stage[k] = "absent", stage'[k] # "absent"
    PROVE  \/ \E i \in Jobs : k \in DropsOf[i]
           \/ \E i \in Jobs : NextOf[i] = k /\ future[i] \in {"next", "self"}
  <1> stage \in [Jobs -> Stages] BY DEF StageAgrees, TypeOK
  <1>1. \A j, s : stage[j] # "absent" /\ Move(j, s) => stage'[k] = "absent"
    BY DEF Move
  <1>2. ASSUME NEW t \in Threads, pc[t] \in Holding
        PROVE  stage[job[t]] # "absent"
    BY <1>2 DEF StageAgrees, HoldersAgree
  <1>3. ASSUME NEW t \in Threads, QueueStep(t) PROVE FALSE
    <2>1. ASSUME NEW ty \in Types, NEW here, NEW Otherwise,
                 GetDeferred(t, ty, here, Otherwise)
          PROVE  FALSE
      <3>1. deferred[ty] # <<>> => stage[Head(deferred[ty])] = "deferred"
        <4>1. ASSUME deferred[ty] # <<>>
              PROVE  /\ Head(deferred[ty]) = deferred[ty][1]
                     /\ 1 \in 1..Len(deferred[ty])
          BY <4>1, Elements, TailFacts DEF StageAgrees
        <4> QED BY <4>1 DEF StageAgrees, DeferredAgrees
      <3> QED BY <2>1, <3>1, <1>1 DEF GetDeferred
    <2>2. CASE GetDip(t) BY <2>2, <2>1 DEF GetDip, Types
    <2>3. CASE GetSip(t) BY <2>3, <2>1 DEF GetSip, Types
    <2>4. CASE GetTransfer(t) BY <2>4, <2>1 DEF GetTransfer, Types
    <2>5. CASE Schedule(t) BY <2>5, <1>1, <1>2 DEF Schedule, Lose, Holding
    <2>6. CASE Put(t) BY <2>6, <1>1, <1>2 DEF Put, Holding
    <2>7. CASE Defer(t) BY <2>7, <1>1, <1>2 DEF Defer, Lose, Holding
    <2>8. CASE PutNowait(t) BY <2>8, <1>1, <1>2 DEF PutNowait, Lose, Holding
    <2>9. CASE Acquire(t) \/ Activate(t) BY <2>9 DEF Acquire, Activate
    <2> QED BY <1>3, <2>2, <2>3, <2>4, <2>5, <2>6, <2>7, <2>8, <2>9 DEF QueueStep
  <1>4. ASSUME NEW t \in Workers \cup {Main}, CallbackStep(t)
        PROVE  NextOf[fin[t]] = k /\ fin[t] \in Jobs /\ future[fin[t]] = "next"
    <2>1. t \in Threads BY DEF Threads
    <2>2. CASE JobCallback(t)
      <3>1. pc[t] = "jobCb" /\ fin[t] \in Jobs /\ stage[fin[t]] = "returned"
        BY <2>1, <2>2, Finished DEF JobCallback
      <3> QED BY <2>2, <3>1, <1>1 DEF JobCallback
    <2>3. CASE AwaitDecision(t) BY <2>1, <2>3, Finished, <1>1 DEF AwaitDecision
    <2>4. CASE HandleFailure(t) \/ PackageCallback(t) \/ Deactivate(t)
      BY <2>4 DEF HandleFailure, PackageCallback, Deactivate
    <2> QED BY <1>4, <2>2, <2>3, <2>4 DEF CallbackStep
  <1>5. ASSUME MainStep PROVE FALSE
    <2>1. CASE Get
      <3>1. jobQueue # <<>> => stage[Head(jobQueue)] = "queued"
        <4>1. ASSUME jobQueue # <<>>
              PROVE  Head(jobQueue) = jobQueue[1] /\ 1 \in 1..Len(jobQueue)
          BY <4>1, TailFacts DEF StageAgrees, TypeOK
        <4> QED BY <4>1 DEF StageAgrees, JobQueueAgrees
      <3> QED BY <2>1, <3>1, <1>1 DEF Get
    <2>2. CASE Submit BY <2>2, <1>1, <1>2 DEF Submit, Holding, Threads
    <2>3. CASE Loop \/ AddJobCallback \/ AddPackageCallback
      BY <2>3 DEF Loop, AddJobCallback, AddPackageCallback
    <2> QED BY <1>5, <2>1, <2>2, <2>3 DEF MainStep
  <1>6. ASSUME NEW w \in Workers, WorkerStep(w)
        PROVE  fin[w] \in Jobs /\ k \in DropsOf[fin[w]]
    <2>1. CASE TakeTask(w)
      <3>1. stage[Head(execQueue).job] \in {"executor", "starting"}
        <4>1. Head(execQueue) = execQueue[1] /\ 1 \in 1..Len(execQueue)
          BY <2>1, TailFacts DEF TakeTask, StageAgrees, TypeOK
        <4> QED BY <4>1 DEF StageAgrees, ExecQueueAgrees
      <3> QED BY <2>1, <3>1, <1>1 DEF TakeTask
    <2>2. pc[w] \in {"running", "returning"} =>
            fin[w] \in Jobs /\ stage[fin[w]] \in {"running", "ran"}
      BY DEF Threads, StageAgrees, HandlersAgree, Handling
    <2>3. CASE RunScript(w) BY <2>2, <2>3 DEF RunScript
    <2>4. CASE Finish(w) BY <2>2, <2>4, <1>1 DEF Finish
    <2> QED BY <1>6, <2>1, <2>3, <2>4 DEF WorkerStep
  <1>7. ASSUME SignalHandler \/ HandleWatchedDir PROVE FALSE
    BY <1>7, <1>1 DEF SignalHandler, HandleWatchedDir, StageAgrees, SetsAgree
  <1>8. ASSUME NEW t \in RpcThreads, CreatePackage(t) PROVE FALSE
    BY <1>8, <1>1 DEF CreatePackage, StageAgrees, SetsAgree
  <1>9. ASSUME NEW t \in RpcThreads, Decide(t)
        PROVE  \E i \in Jobs : NextOf[i] = k /\ future[i] = "self"
    <2>1. PICK j \in waiting :
            \/ Move(j, "spent")
            \/ stage' = [stage EXCEPT ![j] = "spent", ![NextOf[j]] = "held"]
      BY <1>9 DEF Decide
    <2>2. j \in Jobs /\ stage[j] = "awaiting" /\ future[j] = "self"
      BY DEF StageAgrees, TypeOK, SetsAgree, FutureAgrees
    <2>3. NextOf[j] = k BY <2>1, <2>2, <1>1
    <2> QED BY <2>2, <2>3
  <1>10. CASE UNCHANGED vars BY <1>10 DEF vars
  <1> QED BY <1>3, <1>4, <1>5, <1>6, <1>7, <1>8, <1>9, <1>10 DEF Next

(* OrderAgrees is inductive: a job starts its successor by letting it go. *)
LEMMA StepOrder ==
    ASSUME StageAgrees, OrderAgrees, [Next]_vars
    PROVE  OrderAgrees'
  <1> SUFFICES ASSUME NEW j \in Jobs, NextOf[j] # NoJob, stage'[NextOf[j]] # "absent"
               PROVE  future'[j] \in {"next", "self"}
    BY DEF OrderAgrees
  <1>1. NextOf[j] \in Jobs /\ \A i \in Jobs : NextOf[j] \notin DropsOf[i]
    BY WorkflowAssumption
  <1>2. future[j] \in {"next", "self"}
    <2>1. CASE stage[NextOf[j]] # "absent" BY <2>1 DEF OrderAgrees
    <2>2. CASE stage[NextOf[j]] = "absent"
      <3>1. PICK i \in Jobs : NextOf[i] = NextOf[j] /\ future[i] \in {"next", "self"}
        BY <1>1, <2>2, Origins
      <3> QED BY <3>1, WorkflowAssumption
    <2> QED BY <2>1, <2>2
  <1> QED BY <1>2, FuturesMove

(* A job is submitted only after the one before it in its chain returned
   without raising. *)
THEOREM AlwaysChainOrder == Spec => ChainOrder
  <1>1. Init => OrderAgrees BY WorkflowAssumption DEF Init, OrderAgrees
  <1>2. StageAgrees /\ OrderAgrees /\ [Next]_vars => OrderAgrees' BY StepOrder
  <1>3. StageAgrees /\ OrderAgrees /\ [Next]_vars =>
            [\A j, k \in Jobs : SubmittedInOrder(j, k)]_vars
    <2> SUFFICES ASSUME StageAgrees, OrderAgrees, [Next]_vars,
                        NEW j \in Jobs, NEW k \in Jobs, NextOf[j] = k,
                        future[k] = "unsubmitted", future'[k] = "submitted"
                 PROVE  future[j] \in {"next", "self"}
      BY DEF SubmittedInOrder
    <2>1. stage[k] = "held" BY FuturesMove DEF Results
    <2>2. k # NoJob BY WorkflowAssumption
    <2> QED BY <2>1, <2>2 DEF OrderAgrees
  <1> QED BY <1>1, <1>2, <1>3, AlwaysStageAgrees, PTL DEF Spec, ChainOrder
=============================================================================
