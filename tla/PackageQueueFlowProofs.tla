---------------------- MODULE PackageQueueFlowProofs ------------------------
(***************************************************************************)
(* The package queue implements JobFlow, for every workflow forest, number *)
(* of threads and capacity: RefinesJobFlow.  StageAgrees says that a job   *)
(* in a queue has the stage of that queue; the refinement also needs the   *)
(* converse, StagesLocated, that a job is where its stage says: a job that *)
(* no queue and no thread holds would be in no phase.  With both, the      *)
(* phase of a job is a function of its stage (PhaseOfStage), and every     *)
(* action moves stages as a step of JobFlow moves phases.                  *)
(***************************************************************************)
EXTENDS PackageQueueProofs

Pending == {"watched", "submitted", "starting", "held", "deferred", "queued",
            "executor"}
PhaseAt(s) ==
    CASE s = "absent" -> "absent"
      [] s \in Pending -> "pending"
      [] s \in {"running", "ran"} -> "running"
      [] s = "returned" -> "returned"
      [] s = "awaiting" -> "awaiting"
      [] s = "spent" -> "ended"
      [] s = "lost" -> "dropped"

\* The life of every job, read off the history
Life == [j \in Jobs |-> PhaseAt(stage[j])]
LifeFlow == INSTANCE JobFlow WITH
                FirstJobs <- Arrivals \cup Submissions,
                Decisions <- {j \in Jobs : KindOf[j] = "decision"},
                phase <- Life
FlowStep == LifeFlow!Next \/ UNCHANGED Life

(* A move of one job changes one life. *)
LEMMA LifeMoves ==
    ASSUME StageAgrees, NEW j \in Jobs, NEW to, Move(j, to)
    PROVE  /\ \A k \in Jobs : stage'[k] = IF k = j THEN to ELSE stage[k]
           /\ Life[j] = PhaseAt(stage[j])
           /\ Life' = [Life EXCEPT ![j] = PhaseAt(to)]
  <1> stage \in [Jobs -> Stages] BY DEF StageAgrees, TypeOK
  <1>1. \A k \in Jobs : stage'[k] = IF k = j THEN to ELSE stage[k] BY DEF Move
  <1> QED BY <1>1 DEF Life

(* A move between two stages of one phase is no step of the life. *)
LEMMA QuietMove ==
    ASSUME StageAgrees, NEW j \in Jobs, NEW to, Move(j, to),
           PhaseAt(to) = PhaseAt(stage[j])
    PROVE  FlowStep
  <1>1. Life[j] = PhaseAt(stage[j]) /\ Life' = [Life EXCEPT ![j] = PhaseAt(to)]
    BY LifeMoves
  <1>2. \A f : [Life EXCEPT ![j] = Life[j]] = Life BY DEF Life
  <1> QED BY <1>1, <1>2 DEF FlowStep

(* A job is lost only while it is pending. *)
LEMMA DropMove ==
    ASSUME StageAgrees, NEW j \in Jobs, stage[j] \in Pending, Move(j, "lost")
    PROVE  FlowStep
  <1>1. PhaseAt(stage[j]) = "pending" /\ PhaseAt("lost") = "dropped"
    BY DEF PhaseAt, Pending
  <1> QED BY <1>1, LifeMoves DEF FlowStep, LifeFlow!Next, LifeFlow!Drop, LifeFlow!Become

(* A job that ends without a successor. *)
LEMMA EndMove ==
    ASSUME StageAgrees, NEW j \in Jobs, stage[j] \in {"returned", "awaiting"},
           Move(j, "spent")
    PROVE  FlowStep
  <1>1. PhaseAt(stage[j]) \in {"returned", "awaiting"} /\ PhaseAt("spent") = "ended"
    BY DEF PhaseAt, Pending
  <1> QED BY <1>1, LifeMoves DEF FlowStep, LifeFlow!Next, LifeFlow!End

(* A job that ends and hands over to its successor. *)
LEMMA HandOverMove ==
    ASSUME StageAgrees, NEW j \in Jobs, stage[j] \in {"returned", "awaiting"},
           NextOf[j] # NoJob,
           stage' = [stage EXCEPT ![j] = "spent", ![NextOf[j]] = "held"]
    PROVE  /\ NextOf[j] \in Jobs /\ NextOf[j] # j /\ stage[NextOf[j]] = "absent"
           /\ \A k \in Jobs : stage'[k] = IF k = j THEN "spent"
                                          ELSE IF k = NextOf[j] THEN "held" ELSE stage[k]
           /\ FlowStep
  <1> stage \in [Jobs -> Stages] BY DEF StageAgrees, TypeOK
  <1>1. NextOf[j] \in Jobs BY WorkflowAssumption
  <1>2. stage[NextOf[j]] = "absent" BY DEF StageAgrees, ForestAgrees
  <1>3. NextOf[j] # j BY <1>2
  <1>4. \A k \in Jobs : stage'[k] = IF k = j THEN "spent"
                                    ELSE IF k = NextOf[j] THEN "held" ELSE stage[k]
    BY <1>1, <1>3
  <1>5. /\ PhaseAt(stage[j]) \in {"returned", "awaiting"} /\ PhaseAt("spent") = "ended"
        /\ PhaseAt("absent") = "absent" /\ PhaseAt("held") = "pending"
    BY DEF PhaseAt, Pending
  <1>6. Life' = [Life EXCEPT ![j] = "ended", ![NextOf[j]] = "pending"]
    BY <1>1, <1>3, <1>4, <1>5 DEF Life
  <1>7. Life[j] \in {"returned", "awaiting"} /\ Life[NextOf[j]] = "absent"
    BY <1>1, <1>2, <1>5 DEF Life
  <1>8. LifeFlow!End(j) BY <1>6, <1>7 DEF LifeFlow!End
  <1> QED BY <1>1, <1>2, <1>3, <1>4, <1>8 DEF FlowStep, LifeFlow!Next

(* The other threads keep what they hold; the acting one keeps its job, or
   the job is no longer held. *)
LEMMA ThreadsStep ==
    ASSUME StageAgrees, ThreadsHold, NEW t \in Threads, NEW l,
           Goto(t, l), \A u \in Threads \ {t} : job'[u] = job[u],
           \A j \in Jobs : stage'[j] = "held" =>
                \/ l \in Holding /\ job'[t] = j
                \/ stage[j] = "held" /\ ~(pc[t] \in Holding /\ job[t] = j)
    PROVE  ThreadsHold'
  <1> SUFFICES ASSUME NEW j \in Jobs, stage'[j] = "held"
               PROVE  \E u \in Threads : pc'[u] \in Holding /\ job'[u] = j
    BY DEF ThreadsHold
  <1>1. pc'[t] = l /\ \A u \in Threads \ {t} : pc'[u] = pc[u]
    BY DEF Goto, StageAgrees, TypeOK
  <1>2. CASE l \in Holding /\ job'[t] = j BY <1>1, <1>2
  <1>3. CASE stage[j] = "held" /\ ~(pc[t] \in Holding /\ job[t] = j)
    <2>1. PICK u \in Threads : pc[u] \in Holding /\ job[u] = j BY <1>3 DEF ThreadsHold
    <2>2. u # t BY <1>3, <2>1
    <2> QED BY <1>1, <2>1, <2>2
  <1> QED BY <1>2, <1>3

(* A job that was in a sequence is in it with one more element. *)
LEMMA AppendHolds ==
    ASSUME NEW S, NEW s \in Seq(S), NEW x \in S
    PROVE  /\ \A j : In(s, j) => In(Append(s, x), j)
           /\ In(Append(s, x), x)
  <1>1. /\ Len(s) \in Nat /\ Len(Append(s, x)) = Len(s) + 1
        /\ \A i \in 1..Len(s) : Append(s, x)[i] = s[i]
        /\ Append(s, x)[Len(s) + 1] = x
    BY AppendFacts
  <1> QED BY <1>1 DEF In

(* A job other than the head of a sequence is in its tail. *)
LEMMA TailHolds ==
    ASSUME NEW S, NEW s \in Seq(S), s # <<>>, NEW j, In(s, j), j # Head(s)
    PROVE  In(Tail(s), j)
  <1>1. /\ Head(s) = s[1] /\ Len(s) \in Nat \ {0} /\ Len(Tail(s)) = Len(s) - 1
        /\ \A i \in 1..Len(Tail(s)) : Tail(s)[i] = s[i + 1]
    BY TailFacts
  <1>2. PICK i \in 1..Len(s) : s[i] = j BY DEF In
  <1>3. i # 1 BY <1>1, <1>2
  <1>4. i - 1 \in 1..Len(Tail(s)) /\ Tail(s)[i - 1] = s[(i - 1) + 1]
    BY <1>1, <1>2, <1>3
  <1>5. (i - 1) + 1 = i OBVIOUS
  <1> QED BY <1>2, <1>4, <1>5 DEF In

(* A step that moves no job forgets none, if its thread keeps its job. *)
LEMMA QuietLocated ==
    ASSUME StageAgrees, StagesLocated, NEW t \in Threads, NEW l, Goto(t, l),
           pc[t] \in Holding => l \in Holding,
           UNCHANGED <<outside, queues, execQueue, future, job, stage>>
    PROVE  StagesLocated' /\ FlowStep
  <1>1. ThreadsHold' BY ThreadsStep DEF StagesLocated
  <1>2. /\ SetsHold' /\ DeferredHold' /\ JobQueueHolds' /\ ExecQueueHolds'
        /\ DecisionsReturn'
    BY DEF StagesLocated, SetsHold, DeferredHold, JobQueueHolds, ExecQueueHolds,
           DecisionsReturn, outside, queues
  <1> QED BY <1>1, <1>2 DEF StagesLocated, FlowStep, Life

(* The job in the hand of a thread is there, and its history says so. *)
LEMMA InHand ==
    ASSUME StageAgrees, NEW t \in Threads, pc[t] \in Holding
    PROVE  job[t] \in Jobs /\ stage[job[t]] = "held"
  BY DEF StageAgrees, TypeOK, HoldersAgree

(* A call that raises loses the job in hand, which was pending. *)
LEMMA LoseLocated ==
    ASSUME StageAgrees, StagesLocated, NEW t \in Threads, pc[t] \in Holding, Lose(t),
           UNCHANGED <<outside, queues, execQueue, future>>
    PROVE  StagesLocated' /\ FlowStep
  <1>1. job[t] \in Jobs /\ stage[job[t]] = "held" BY InHand
  <1>2. Move(job[t], "lost") /\ Release(t) BY DEF Lose
  <1>3. \A j \in Jobs : stage'[j] = IF j = job[t] THEN "lost" ELSE stage[j]
    BY <1>1, <1>2, LifeMoves
  <1>4. PICK l \in Exits : Goto(t, l) BY LoseExits DEF StageAgrees, Resume
  <1>5. \A u \in Threads \ {t} : job'[u] = job[u]
    BY <1>2 DEF Release, StageAgrees, TypeOK
  <1>6. ThreadsHold' BY <1>3, <1>4, <1>5, ThreadsStep DEF StagesLocated
  <1>7. /\ SetsHold' /\ DeferredHold' /\ JobQueueHolds' /\ ExecQueueHolds'
        /\ DecisionsReturn'
    BY <1>3 DEF StagesLocated, SetsHold, DeferredHold, JobQueueHolds, ExecQueueHolds,
                DecisionsReturn, outside, queues
  <1>8. FlowStep BY <1>1, <1>2, DropMove DEF Pending
  <1> QED BY <1>6, <1>7, <1>8 DEF StagesLocated

(* put and put_nowait: the job goes from the hand to job_queue. *)
LEMMA EnqueueLocated ==
    ASSUME StageAgrees, StagesLocated, NEW t \in Threads, pc[t] \in Holding,
           jobQueue' = Append(jobQueue, job[t]), Move(job[t], "queued"),
           Release(t), Return(t),
           UNCHANGED <<outside, deferred, execQueue, future>>
    PROVE  StagesLocated' /\ FlowStep
  <1>1. job[t] \in Jobs /\ stage[job[t]] = "held" BY InHand
  <1>2. \A j \in Jobs : stage'[j] = IF j = job[t] THEN "queued" ELSE stage[j]
    BY <1>1, LifeMoves
  <1>3. PICK l \in Exits : Goto(t, l) BY ReturnExits DEF StageAgrees, Resume
  <1>4. \A u \in Threads \ {t} : job'[u] = job[u]
    BY DEF Release, StageAgrees, TypeOK
  <1>5. ThreadsHold' BY <1>2, <1>3, <1>4, ThreadsStep DEF StagesLocated
  <1>6. JobQueueHolds'
    <2>1. /\ \A j : In(jobQueue, j) => In(jobQueue', j)
          /\ In(jobQueue', job[t])
      BY <1>1, AppendHolds DEF StageAgrees, TypeOK
    <2>2. ASSUME NEW j \in Jobs, stage'[j] = "queued" PROVE In(jobQueue', j)
      BY <2>1, <2>2, <1>2 DEF StagesLocated, JobQueueHolds
    <2>3. JobQueueHolds' <=> \A j \in Jobs : stage'[j] = "queued" => In(jobQueue', j)
      BY DEF JobQueueHolds, In
    <2> QED BY <2>2, <2>3
  <1>7. SetsHold' /\ DeferredHold' /\ ExecQueueHolds' /\ DecisionsReturn'
    BY <1>2 DEF StagesLocated, SetsHold, DeferredHold, ExecQueueHolds,
                DecisionsReturn, outside, In
  <1>8. FlowStep
    <2>1. PhaseAt("queued") = PhaseAt("held") BY DEF PhaseAt, Pending
    <2> QED BY <2>1, <1>1, QuietMove
  <1> QED BY <1>5, <1>6, <1>7, <1>8 DEF StagesLocated

(* The deferral of a job: it goes from the hand to the queue of its type. *)
LEMMA DeferLocated ==
    ASSUME StageAgrees, StagesLocated, NEW t \in Threads, Defer(t)
    PROVE  StagesLocated' /\ FlowStep
  <1> DEFINE ty == TypeOf[job[t]]
  <1>1. pc[t] \in Holding /\ UNCHANGED <<outside, jobQueue, execQueue, future>>
    BY DEF Defer, Holding, execution
  <1>2. job[t] \in Jobs /\ stage[job[t]] = "held" /\ ty \in Types
    BY <1>1, InHand, WorkflowAssumption
  <1>3. CASE Len(deferred[ty]) >= MaxQueued
    BY <1>1, <1>3, LoseLocated DEF Defer, queues
  <1>4. CASE ~(Len(deferred[ty]) >= MaxQueued)
    <2>1. /\ deferred' = [deferred EXCEPT ![ty] = Append(@, job[t])]
          /\ Move(job[t], "deferred") /\ Release(t)
          /\ Goto(t, "getDIP") \/ Return(t)
      BY <1>4 DEF Defer
    <2>2. \A j \in Jobs : stage'[j] = IF j = job[t] THEN "deferred" ELSE stage[j]
      BY <1>2, <2>1, LifeMoves
    <2>3. PICK l \in Exits : Goto(t, l)
      BY <2>1, ReturnExits DEF StageAgrees, Resume, Exits
    <2>4. \A u \in Threads \ {t} : job'[u] = job[u]
      BY <2>1 DEF Release, StageAgrees, TypeOK
    <2>5. ThreadsHold' BY <2>2, <2>3, <2>4, ThreadsStep DEF StagesLocated
    <2>6. DeferredHold'
      <3>1. /\ deferred \in [Types -> Seq(Jobs)]
            /\ deferred'[ty] = Append(deferred[ty], job[t])
            /\ \A u \in Types \ {ty} : deferred'[u] = deferred[u]
        BY <1>2, <2>1 DEF StageAgrees, TypeOK
      <3>2. /\ \A j : In(deferred[ty], j) => In(deferred'[ty], j)
            /\ In(deferred'[ty], job[t])
        BY <1>2, <3>1, AppendHolds
      <3>3. ASSUME NEW j \in Jobs, stage'[j] = "deferred"
            PROVE  In(deferred'[TypeOf[j]], j)
        <4>1. TypeOf[j] \in Types BY WorkflowAssumption
        <4>2. CASE j = job[t] BY <4>2, <3>2
        <4>3. CASE j # job[t]
          <5>1. In(deferred[TypeOf[j]], j)
            BY <4>3, <3>3, <2>2 DEF StagesLocated, DeferredHold
          <5> QED BY <5>1, <4>1, <3>1, <3>2
        <4> QED BY <4>2, <4>3
      <3>4. DeferredHold' <=> \A j \in Jobs : stage'[j] = "deferred" =>
                                    In(deferred'[TypeOf[j]], j)
        BY DEF DeferredHold, In
      <3> QED BY <3>3, <3>4
    <2>7. SetsHold' /\ JobQueueHolds' /\ ExecQueueHolds' /\ DecisionsReturn'
      BY <1>1, <2>2 DEF StagesLocated, SetsHold, JobQueueHolds, ExecQueueHolds,
                        DecisionsReturn, outside, In
    <2>8. FlowStep
      <3>1. PhaseAt("deferred") = PhaseAt("held") BY DEF PhaseAt, Pending
      <3> QED BY <3>1, <1>2, <2>1, QuietMove
    <2> QED BY <2>5, <2>6, <2>7, <2>8 DEF StagesLocated
  <1> QED BY <1>3, <1>4

(* The release of a deferred job: it goes from its queue to the hand. *)
LEMMA GetDeferredLocated ==
    ASSUME StageAgrees, StagesLocated, NEW t \in Threads, NEW ty \in Types, NEW here,
           NEW Otherwise, here \notin Holding,
           Otherwise => \E m : Goto(t, m),
           GetDeferred(t, ty, here, Otherwise)
    PROVE  StagesLocated' /\ FlowStep
  <1>1. pc[t] \notin Holding /\ UNCHANGED <<outside, jobQueue, execQueue, future>>
    BY DEF GetDeferred, execution
  <1>2. CASE deferred[ty] = <<>>
    <2>1. (\E m : Goto(t, m)) /\ UNCHANGED <<deferred, job, stage>>
      BY <1>2 DEF GetDeferred
    <2> QED BY <1>1, <2>1, QuietLocated DEF queues
  <1>3. CASE deferred[ty] # <<>>
    <2> DEFINE s == deferred[ty]
               j == Head(s)
    <2>1. /\ Take(t, j) /\ Move(j, "held") /\ Goto(t, "activate")
          /\ deferred' = [deferred EXCEPT ![ty] = Tail(@)]
      BY <1>3 DEF GetDeferred
    <2>2. s \in Seq(Jobs) /\ j \in Jobs /\ stage[j] = "deferred"
      <3>1. s \in Seq(Jobs) BY DEF StageAgrees, TypeOK
      <3>2. j \in Jobs /\ j = s[1] /\ 1 \in 1..Len(s) BY <1>3, <3>1, TailFacts
      <3> QED BY <3>1, <3>2 DEF StageAgrees, DeferredAgrees
    <2>3. \A k \in Jobs : stage'[k] = IF k = j THEN "held" ELSE stage[k]
      BY <2>1, <2>2, LifeMoves
    <2>4. job'[t] = j /\ \A u \in Threads \ {t} : job'[u] = job[u]
      BY <2>1 DEF Take, StageAgrees, TypeOK
    <2>5. "activate" \in Holding BY DEF Holding
    <2>6. ThreadsHold'
      BY <1>1, <2>1, <2>3, <2>4, <2>5, ThreadsStep DEF StagesLocated
    <2>7. DeferredHold'
      <3>1. /\ deferred'[ty] = Tail(s)
            /\ \A u \in Types \ {ty} : deferred'[u] = deferred[u]
        BY <2>1 DEF StageAgrees, TypeOK
      <3>2. ASSUME NEW k \in Jobs, stage'[k] = "deferred"
            PROVE  In(deferred'[TypeOf[k]], k)
        <4>1. k # j /\ stage[k] = "deferred" /\ TypeOf[k] \in Types
          BY <2>3, <3>2, WorkflowAssumption
        <4>2. In(deferred[TypeOf[k]], k) BY <4>1 DEF StagesLocated, DeferredHold
        <4>3. CASE TypeOf[k] = ty BY <1>3, <2>2, <3>1, <4>1, <4>2, <4>3, TailHolds
        <4>4. CASE TypeOf[k] # ty BY <3>1, <4>1, <4>2, <4>4
        <4> QED BY <4>3, <4>4
      <3>3. DeferredHold' <=> \A k \in Jobs : stage'[k] = "deferred" =>
                                    In(deferred'[TypeOf[k]], k)
        BY DEF DeferredHold, In
      <3> QED BY <3>2, <3>3
    <2>8. SetsHold' /\ JobQueueHolds' /\ ExecQueueHolds' /\ DecisionsReturn'
      BY <1>1, <2>3 DEF StagesLocated, SetsHold, JobQueueHolds, ExecQueueHolds,
                        DecisionsReturn, outside, In
    <2>9. FlowStep
      <3>1. PhaseAt("deferred") = PhaseAt("held") BY DEF PhaseAt, Pending
      <3> QED BY <3>1, <2>1, <2>2, QuietMove
    <2> QED BY <2>6, <2>7, <2>8, <2>9 DEF StagesLocated
  <1> QED BY <1>2, <1>3

(* Every step inside a call of the queue. *)
LEMMA QueueLocated ==
    ASSUME StageAgrees, StagesLocated, NEW t \in Threads, QueueStep(t)
    PROVE  StagesLocated' /\ FlowStep
  <1>1. CASE Schedule(t)
    <2>1. pc[t] \in Holding /\ UNCHANGED <<outside, queues, execQueue, future>>
      BY <1>1 DEF Schedule, Holding, execution
    <2>2. CASE shutdown BY <1>1, <2>1, <2>2, LoseLocated DEF Schedule
    <2>3. CASE ~shutdown
      <3>1. Goto(t, "acquire") /\ UNCHANGED <<job, stage>> /\ "acquire" \in Holding
        BY <1>1, <2>3 DEF Schedule, Holding
      <3> QED BY <2>1, <3>1, QuietLocated
    <2> QED BY <2>2, <2>3
  <1>2. CASE Acquire(t)
    <2>1. PICK l \in {"put", "defer"} : Goto(t, l) BY <1>2 DEF Acquire
    <2>2. /\ l \in Holding
          /\ UNCHANGED <<outside, queues, execQueue, future, job, stage>>
      BY <1>2, <2>1 DEF Acquire, Holding, execution
    <2> QED BY <2>1, <2>2, QuietLocated
  <1>3. CASE Put(t)
    BY <1>3, EnqueueLocated DEF Put, Holding, execution
  <1>4. CASE Defer(t) BY <1>4, DeferLocated
  <1>5. CASE GetDip(t)
    BY <1>5, GetDeferredLocated DEF GetDip, Types, Holding, Resume
  <1>6. CASE GetSip(t)
    BY <1>6, GetDeferredLocated DEF GetSip, Types, Holding, Resume
  <1>7. CASE GetTransfer(t)
    BY <1>7, GetDeferredLocated DEF GetTransfer, Types, Holding, Return, Resume
  <1>8. CASE Activate(t)
    <2>1. /\ Goto(t, "putNowait") /\ "putNowait" \in Holding
          /\ UNCHANGED <<outside, queues, execQueue, future, job, stage>>
      BY <1>8 DEF Activate, Holding, execution
    <2> QED BY <2>1, QuietLocated
  <1>9. CASE PutNowait(t)
    <2>1. pc[t] \in Holding /\ UNCHANGED <<outside, deferred, execQueue, future>>
      BY <1>9 DEF PutNowait, Holding, execution
    <2>2. CASE Len(jobQueue) < MaxConcurrent
      BY <1>9, <2>1, <2>2, EnqueueLocated DEF PutNowait
    <2>3. CASE ~(Len(jobQueue) < MaxConcurrent)
      BY <1>9, <2>1, <2>3, LoseLocated DEF PutNowait, queues
    <2> QED BY <2>2, <2>3
  <1> QED BY <1>1, <1>2, <1>3, <1>4, <1>5, <1>6, <1>7, <1>8, <1>9 DEF QueueStep

(* A task added to the executor's queue is found there, and so are the others. *)
LEMMA ExecHolds ==
    ASSUME StageAgrees, StagesLocated, NEW j \in Jobs, NEW task \in {"start", "run"},
           execQueue' = Append(execQueue, [task |-> task, job |-> j]),
           \A k \in Jobs : k # j => stage'[k] = stage[k]
    PROVE  ExecQueueHolds'
  <1> DEFINE x == [task |-> task, job |-> j]
  <1>1. x \in Tasks /\ x.job = j BY DEF Tasks
  <1>2. execQueue \in Seq(Tasks) BY DEF StageAgrees, TypeOK
  <1>3. /\ Len(execQueue) \in Nat /\ Len(execQueue') = Len(execQueue) + 1
        /\ \A i \in 1..Len(execQueue) : execQueue'[i] = execQueue[i]
        /\ execQueue'[Len(execQueue) + 1] = x
    BY <1>1, <1>2, AppendFacts
  <1>4. ASSUME NEW k \in Jobs, stage'[k] \in {"executor", "starting"}
        PROVE  \E i \in 1..Len(execQueue') : execQueue'[i].job = k
    <2>1. CASE k = j
      <3>1. Len(execQueue) + 1 \in 1..Len(execQueue') BY <1>3
      <3> QED BY <1>1, <1>3, <2>1, <3>1
    <2>2. CASE k # j
      <3>1. PICK i \in 1..Len(execQueue) : execQueue[i].job = k
        BY <1>4, <2>2 DEF StagesLocated, ExecQueueHolds
      <3>2. i \in 1..Len(execQueue') BY <1>3
      <3> QED BY <1>3, <3>1, <3>2
    <2> QED BY <2>1, <2>2
  <1> QED BY <1>4 DEF ExecQueueHolds

(* The end of a job that has no successor, or raised. *)
LEMMA SpentLocated ==
    ASSUME StageAgrees, StagesLocated, NEW t \in Threads, NEW l, Goto(t, l),
           NEW j \in Jobs, stage[j] \in {"returned", "awaiting"}, Move(j, "spent"),
           pc[t] \notin Holding,
           \A k \in waiting : k # j => k \in waiting',
           UNCHANGED <<watched, submitted, queues, execQueue, future, job>>
    PROVE  StagesLocated' /\ FlowStep
  <1>1. \A k \in Jobs : stage'[k] = IF k = j THEN "spent" ELSE stage[k]
    BY LifeMoves
  <1>2. ThreadsHold' BY <1>1, ThreadsStep DEF StagesLocated
  <1>3. /\ SetsHold' /\ DeferredHold' /\ JobQueueHolds' /\ ExecQueueHolds'
        /\ DecisionsReturn'
    BY <1>1 DEF StagesLocated, SetsHold, DeferredHold, JobQueueHolds, ExecQueueHolds,
                DecisionsReturn, queues
  <1> QED BY <1>2, <1>3, EndMove DEF StagesLocated

(* The end of a job whose thread takes the successor in hand. *)
LEMMA SuccessorLocated ==
    ASSUME StageAgrees, StagesLocated, NEW t \in Threads, Goto(t, "schedule"),
           NEW j \in Jobs, stage[j] \in {"returned", "awaiting"}, NextOf[j] # NoJob,
           Take(t, NextOf[j]),
           stage' = [stage EXCEPT ![j] = "spent", ![NextOf[j]] = "held"],
           pc[t] \notin Holding,
           \A k \in waiting : k # j => k \in waiting',
           UNCHANGED <<watched, submitted, queues, execQueue, future>>
    PROVE  StagesLocated' /\ FlowStep
  <1>1. /\ \A k \in Jobs : stage'[k] = IF k = j THEN "spent"
                                       ELSE IF k = NextOf[j] THEN "held" ELSE stage[k]
        /\ FlowStep
    BY HandOverMove
  <1>2. job'[t] = NextOf[j] /\ \A u \in Threads \ {t} : job'[u] = job[u]
    BY DEF Take, StageAgrees, TypeOK
  <1>3. "schedule" \in Holding BY DEF Holding
  <1>4. \A k \in Jobs : \/ stage'[k] = stage[k] /\ k # j
                        \/ stage'[k] = "spent"
                        \/ stage'[k] = "held" /\ k = NextOf[j]
    BY <1>1
  <1>5. ThreadsHold'
    <2>1. \A k \in Jobs : stage'[k] = "held" =>
            \/ "schedule" \in Holding /\ job'[t] = k
            \/ stage[k] = "held" /\ ~(pc[t] \in Holding /\ job[t] = k)
      BY <1>2, <1>3, <1>4
    <2> QED BY <1>2, <2>1, ThreadsStep DEF StagesLocated
  <1>6. SetsHold' BY <1>4 DEF StagesLocated, SetsHold
  <1>7. DeferredHold' /\ JobQueueHolds' /\ ExecQueueHolds' /\ DecisionsReturn'
    BY <1>4 DEF StagesLocated, DeferredHold, JobQueueHolds, ExecQueueHolds,
                DecisionsReturn, queues
  <1> QED BY <1>1, <1>5, <1>6, <1>7 DEF StagesLocated

(* Every step of the thread that found a future finished. *)
LEMMA CallbackLocated ==
    ASSUME StageAgrees, StagesLocated, NEW t \in Threads, CallbackStep(t)
    PROVE  StagesLocated' /\ FlowStep
  <1>1. CASE JobCallback(t)
    <2> DEFINE j == fin[t]
    <2>1. /\ j \in Jobs /\ stage[j] = "returned" /\ pc[t] \notin Holding
          /\ UNCHANGED <<outside, queues, execQueue, future>>
      BY <1>1, Finished DEF JobCallback, Holding, execution
    <2>2. CASE future[j] = "raised"
      BY <1>1, <2>1, <2>2, SpentLocated DEF JobCallback, outside
    <2>3. CASE future[j] = "none"
      <3>1. Return(t) /\ Move(j, "spent") /\ UNCHANGED job
        BY <1>1, <2>3 DEF JobCallback
      <3>2. PICK l \in Exits : Goto(t, l)
        BY <3>1, ReturnExits DEF StageAgrees, Resume
      <3> QED BY <2>1, <3>1, <3>2, SpentLocated DEF outside
    <2>4. CASE future[j] = "self"
      BY <1>1, <2>1, <2>4, QuietLocated DEF JobCallback
    <2>5. CASE future[j] = "next"
      <3>1. NextOf[j] # NoJob BY <2>1, <2>5 DEF StageAgrees, FutureAgrees
      <3> QED BY <1>1, <2>1, <2>5, <3>1, SuccessorLocated DEF JobCallback, outside
    <2> QED BY <1>1, <2>2, <2>3, <2>4, <2>5 DEF JobCallback
  <1>2. CASE AwaitDecision(t)
    <2> DEFINE j == fin[t]
    <2>1. j \in Jobs /\ stage[j] = "returned" /\ pc[t] \notin Holding
      BY <1>2, Finished DEF AwaitDecision, Holding
    <2>2. /\ waiting' = waiting \cup {j} /\ Move(j, "awaiting") /\ Goto(t, "deactivate")
          /\ UNCHANGED <<watched, submitted, queues, execQueue, future, job>>
      BY <1>2 DEF AwaitDecision, execution
    <2>3. \A k \in Jobs : stage'[k] = IF k = j THEN "awaiting" ELSE stage[k]
      BY <2>1, <2>2, LifeMoves
    <2>4. ThreadsHold' BY <2>1, <2>2, <2>3, ThreadsStep DEF StagesLocated
    <2>5. /\ SetsHold' /\ DeferredHold' /\ JobQueueHolds' /\ ExecQueueHolds'
          /\ DecisionsReturn'
      BY <2>2, <2>3 DEF StagesLocated, SetsHold, DeferredHold, JobQueueHolds,
                        ExecQueueHolds, DecisionsReturn, queues
    <2>6. FlowStep
      <3>1. future[j] = "self"
        BY <1>2 DEF AwaitDecision, StageAgrees, HandlersAgree
      <3>2. KindOf[j] = "decision" BY <2>1, <3>1 DEF StagesLocated, DecisionsReturn
      <3>3. PhaseAt("returned") = "returned" /\ PhaseAt("awaiting") = "awaiting"
        BY DEF PhaseAt, Pending
      <3>4. Life[j] = "returned" /\ Life' = [Life EXCEPT ![j] = "awaiting"]
        BY <2>1, <2>2, <3>3, LifeMoves
      <3>5. LifeFlow!Await(j)
        BY <2>1, <3>2, <3>4 DEF LifeFlow!Await, LifeFlow!Become
      <3> QED BY <2>1, <3>5 DEF FlowStep, LifeFlow!Next
    <2> QED BY <2>4, <2>5, <2>6 DEF StagesLocated
  <1>3. CASE HandleFailure(t) \/ Deactivate(t)
    <2>1. /\ pc[t] \notin Holding /\ \E l : Goto(t, l)
          /\ UNCHANGED <<outside, queues, execQueue, future, job, stage>>
      BY <1>3 DEF HandleFailure, Deactivate, Holding, execution
    <2> QED BY <2>1, QuietLocated
  <1>4. CASE PackageCallback(t)
    <2>1. /\ pc[t] \notin Holding /\ \E l : Goto(t, l)
          /\ UNCHANGED <<outside, queues, execQueue, future, job, stage>>
      BY <1>4 DEF PackageCallback, Resume, Holding, execution
    <2> QED BY <2>1, QuietLocated
  <1> QED BY <1>1, <1>2, <1>3, <1>4 DEF CallbackStep

(* Every step of the main loop. *)
LEMMA MainLocated ==
    ASSUME StageAgrees, StagesLocated, MainStep
    PROVE  StagesLocated' /\ FlowStep
  <1> Main \in Threads BY DEF Threads
  <1>1. CASE Loop \/ AddJobCallback \/ AddPackageCallback
    <2>1. pc[Main] \notin Holding
      BY <1>1 DEF Loop, AddJobCallback, AddPackageCallback, Holding
    <2>2. \E l : Goto(Main, l)
      BY <1>1 DEF Loop, AddJobCallback, AddPackageCallback, Resume
    <2>3. UNCHANGED <<outside, queues, execQueue, future, job, stage>>
      BY <1>1 DEF Loop, AddJobCallback, AddPackageCallback, execution
    <2> QED BY <2>1, <2>2, <2>3, QuietLocated
  <1>2. CASE Get /\ jobQueue = <<>>
    <2>1. /\ pc[Main] \notin Holding /\ Goto(Main, "idle")
          /\ UNCHANGED <<outside, queues, execQueue, future, job, stage>>
      BY <1>2 DEF Get, Holding, queues, execution
    <2> QED BY <2>1, QuietLocated
  <1>3. CASE Get /\ jobQueue # <<>>
    <2> DEFINE j == Head(jobQueue)
    <2>1. /\ Take(Main, j) /\ Move(j, "held") /\ Goto(Main, "submit")
          /\ jobQueue' = Tail(jobQueue) /\ pc[Main] \notin Holding
          /\ UNCHANGED <<outside, deferred, execQueue, future>>
      BY <1>3 DEF Get, Holding, execution
    <2>2. jobQueue \in Seq(Jobs) /\ j \in Jobs /\ stage[j] = "queued"
      <3>1. jobQueue \in Seq(Jobs) BY DEF StageAgrees, TypeOK
      <3>2. j \in Jobs /\ j = jobQueue[1] /\ 1 \in 1..Len(jobQueue)
        BY <1>3, <3>1, TailFacts
      <3> QED BY <3>1, <3>2 DEF StageAgrees, JobQueueAgrees
    <2>3. \A k \in Jobs : stage'[k] = IF k = j THEN "held" ELSE stage[k]
      BY <2>1, <2>2, LifeMoves
    <2>4. job'[Main] = j /\ \A u \in Threads \ {Main} : job'[u] = job[u]
      BY <2>1 DEF Take, StageAgrees, TypeOK
    <2>5. "submit" \in Holding BY DEF Holding
    <2>6. ThreadsHold' BY <2>1, <2>3, <2>4, <2>5, ThreadsStep DEF StagesLocated
    <2>7. JobQueueHolds'
      <3>1. ASSUME NEW k \in Jobs, stage'[k] = "queued" PROVE In(jobQueue', k)
        <4>1. k # j /\ In(jobQueue, k)
          BY <2>3, <3>1 DEF StagesLocated, JobQueueHolds
        <4> QED BY <1>3, <2>1, <2>2, <4>1, TailHolds
      <3>2. JobQueueHolds' <=> \A k \in Jobs : stage'[k] = "queued" => In(jobQueue', k)
        BY DEF JobQueueHolds, In
      <3> QED BY <3>1, <3>2
    <2>8. SetsHold' /\ DeferredHold' /\ ExecQueueHolds' /\ DecisionsReturn'
      BY <2>1, <2>3 DEF StagesLocated, SetsHold, DeferredHold, ExecQueueHolds,
                        DecisionsReturn, outside, In
    <2>9. FlowStep
      <3>1. PhaseAt("queued") = PhaseAt("held") BY DEF PhaseAt, Pending
      <3> QED BY <3>1, <2>1, <2>2, QuietMove
    <2> QED BY <2>6, <2>7, <2>8, <2>9 DEF StagesLocated
  <1>4. CASE Submit
    <2> DEFINE j == job[Main]
    <2>1. /\ pc[Main] \in Holding /\ Release(Main) /\ UNCHANGED <<outside, queues>>
          /\ \E l : Goto(Main, l)
      BY <1>4 DEF Submit, Holding
    <2>2. j \in Jobs /\ stage[j] = "held" BY <2>1, InHand
    <2>3. PICK to \in {"lost", "executor"} : Move(j, to) BY <1>4 DEF Submit
    <2>4. \A k \in Jobs : stage'[k] = IF k = j THEN to ELSE stage[k]
      BY <2>2, <2>3, LifeMoves
    <2>5. \A u \in Threads \ {Main} : job'[u] = job[u]
      BY <2>1 DEF Release, StageAgrees, TypeOK
    <2>6. ThreadsHold' BY <2>1, <2>3, <2>4, <2>5, ThreadsStep DEF StagesLocated
    <2>7. SetsHold' /\ DeferredHold' /\ JobQueueHolds'
      BY <2>1, <2>3, <2>4 DEF StagesLocated, SetsHold, DeferredHold, JobQueueHolds,
                              outside, queues
    <2>8. CASE shutdown
      <3>1. Move(j, "lost") /\ UNCHANGED <<execQueue, future>>
        BY <1>4, <2>8 DEF Submit
      <3>2. \A k \in Jobs : stage'[k] = IF k = j THEN "lost" ELSE stage[k]
        BY <2>2, <3>1, LifeMoves
      <3>3. ExecQueueHolds' /\ DecisionsReturn'
        BY <3>1, <3>2 DEF StagesLocated, ExecQueueHolds, DecisionsReturn
      <3>4. FlowStep BY <2>2, <3>1, DropMove DEF Pending
      <3> QED BY <2>6, <2>7, <3>3, <3>4 DEF StagesLocated
    <2>9. CASE ~shutdown
      <3>1. /\ execQueue' = Append(execQueue, [task |-> "run", job |-> j])
            /\ future' = [future EXCEPT ![j] = "submitted"] /\ Move(j, "executor")
        BY <1>4, <2>9 DEF Submit
      <3>2. \A k \in Jobs : stage'[k] = IF k = j THEN "executor" ELSE stage[k]
        BY <2>2, <3>1, LifeMoves
      <3>3. ExecQueueHolds' BY <2>2, <3>1, <3>2, ExecHolds
      <3>4. DecisionsReturn'
        BY <3>1 DEF StagesLocated, DecisionsReturn, StageAgrees, TypeOK
      <3>5. FlowStep
        <4>1. PhaseAt("executor") = PhaseAt("held") BY DEF PhaseAt, Pending
        <4> QED BY <4>1, <2>2, <3>1, QuietMove
      <3> QED BY <2>6, <2>7, <3>3, <3>4, <3>5 DEF StagesLocated
    <2> QED BY <2>8, <2>9
  <1> QED BY <1>1, <1>2, <1>3, <1>4 DEF MainStep

(* The tasks behind the one a worker takes stay in the executor's queue. *)
LEMMA ExecTail ==
    ASSUME StageAgrees, StagesLocated, execQueue # <<>>,
           execQueue' = Tail(execQueue),
           NEW to \in Stages \ {"executor", "starting"}, Move(Head(execQueue).job, to)
    PROVE  /\ Head(execQueue).job \in Jobs
           /\ stage[Head(execQueue).job] = IF Head(execQueue).task = "run"
                                           THEN "executor" ELSE "starting"
           /\ ExecQueueHolds'
  <1> DEFINE j == Head(execQueue).job
  <1>1. execQueue \in Seq(Tasks) BY DEF StageAgrees, TypeOK
  <1>2. /\ Head(execQueue) = execQueue[1] /\ Len(execQueue) \in Nat \ {0}
        /\ Len(Tail(execQueue)) = Len(execQueue) - 1
        /\ \A i \in 1..Len(Tail(execQueue)) : Tail(execQueue)[i] = execQueue[i + 1]
    BY <1>1, TailFacts
  <1>3. 1 \in 1..Len(execQueue) BY <1>2
  <1>4. j \in Jobs BY <1>2, <1>3, Elements DEF StageAgrees
  <1>5. stage[j] = IF Head(execQueue).task = "run" THEN "executor" ELSE "starting"
    BY <1>2, <1>3 DEF StageAgrees, ExecQueueAgrees
  <1>6. \A k \in Jobs : stage'[k] = IF k = j THEN to ELSE stage[k]
    BY <1>4, LifeMoves
  <1>7. ASSUME NEW k \in Jobs, stage'[k] \in {"executor", "starting"}
        PROVE  \E i \in 1..Len(execQueue') : execQueue'[i].job = k
    <2>1. k # j /\ stage[k] \in {"executor", "starting"} BY <1>6, <1>7
    <2>2. PICK i \in 1..Len(execQueue) : execQueue[i].job = k
      BY <2>1 DEF StagesLocated, ExecQueueHolds
    <2>3. i # 1 BY <1>2, <2>1, <2>2
    <2>4. i - 1 \in 1..Len(Tail(execQueue)) /\ (i - 1) + 1 = i BY <1>2, <2>3
    <2>5. Tail(execQueue)[i - 1] = execQueue[i] BY <1>2, <2>4
    <2> QED BY <2>2, <2>4, <2>5
  <1>8. ExecQueueHolds' BY <1>7 DEF ExecQueueHolds
  <1> QED BY <1>4, <1>5, <1>8

(* A worker that takes a task starts the job, or schedules a first one. *)
LEMMA TakeTaskLocated ==
    ASSUME StageAgrees, StagesLocated, NEW w \in Workers, TakeTask(w)
    PROVE  StagesLocated' /\ FlowStep
  <1> DEFINE j == Head(execQueue).job
  <1>1. w \in Threads BY DEF Threads
  <1>2. /\ pc[w] \notin Holding /\ execQueue # <<>> /\ execQueue' = Tail(execQueue)
        /\ UNCHANGED <<outside, queues>>
    BY DEF TakeTask, Holding
  <1>3. CASE Head(execQueue).task = "run"
    <2>1. /\ future' = [future EXCEPT ![j] = "running"] /\ Move(j, "running")
          /\ Goto(w, "running") /\ UNCHANGED job
      BY <1>3 DEF TakeTask
    <2>2. j \in Jobs /\ stage[j] = "executor" /\ ExecQueueHolds'
      BY <1>2, <1>3, <2>1, ExecTail DEF Stages
    <2>3. \A k \in Jobs : stage'[k] = IF k = j THEN "running" ELSE stage[k]
      BY <2>1, <2>2, LifeMoves
    <2>4. ThreadsHold' BY <1>1, <1>2, <2>1, <2>3, ThreadsStep DEF StagesLocated
    <2>5. SetsHold' /\ DeferredHold' /\ JobQueueHolds'
      BY <1>2, <2>3 DEF StagesLocated, SetsHold, DeferredHold, JobQueueHolds, outside,
                        queues
    <2>6. DecisionsReturn'
      BY <2>1 DEF StagesLocated, DecisionsReturn, StageAgrees, TypeOK
    <2>7. FlowStep
      <3>1. PhaseAt("executor") = "pending" /\ PhaseAt("running") = "running"
        BY DEF PhaseAt, Pending
      <3>2. Life[j] = "pending" /\ Life' = [Life EXCEPT ![j] = "running"]
        BY <2>1, <2>2, <3>1, LifeMoves
      <3> QED BY <2>2, <3>2 DEF FlowStep, LifeFlow!Next, LifeFlow!Start, LifeFlow!Become
    <2> QED BY <2>2, <2>4, <2>5, <2>6, <2>7 DEF StagesLocated
  <1>4. CASE Head(execQueue).task # "run"
    <2>1. /\ Take(w, j) /\ Move(j, "held") /\ Goto(w, "schedule") /\ UNCHANGED future
      BY <1>4 DEF TakeTask
    <2>2. j \in Jobs /\ stage[j] = "starting" /\ ExecQueueHolds'
      BY <1>2, <1>4, <2>1, ExecTail DEF Stages
    <2>3. \A k \in Jobs : stage'[k] = IF k = j THEN "held" ELSE stage[k]
      BY <2>1, <2>2, LifeMoves
    <2>4. job'[w] = j /\ \A u \in Threads \ {w} : job'[u] = job[u]
      BY <1>1, <2>1 DEF Take, StageAgrees, TypeOK
    <2>5. "schedule" \in Holding BY DEF Holding
    <2>6. ThreadsHold'
      BY <1>1, <1>2, <2>1, <2>3, <2>4, <2>5, ThreadsStep DEF StagesLocated
    <2>7. SetsHold' /\ DeferredHold' /\ JobQueueHolds' /\ DecisionsReturn'
      BY <1>2, <2>1, <2>3 DEF StagesLocated, SetsHold, DeferredHold, JobQueueHolds,
                              DecisionsReturn, outside, queues
    <2>8. FlowStep
      <3>1. PhaseAt("held") = PhaseAt("starting") BY DEF PhaseAt, Pending
      <3> QED BY <3>1, <2>1, <2>2, QuietMove
    <2> QED BY <2>2, <2>6, <2>7, <2>8 DEF StagesLocated
  <1> QED BY <1>3, <1>4

(* A script that drops packages brings their first jobs into being. *)
LEMMA RunScriptLocated ==
    ASSUME StageAgrees, StagesLocated, NEW w \in Workers, RunScript(w)
    PROVE  StagesLocated' /\ FlowStep
  <1> DEFINE j == fin[w]
  <1>1. w \in Threads BY DEF Threads
  <1>2. /\ pc[w] = "running" /\ pc[w] \notin Holding /\ watched' = watched \cup DropsOf[j]
        /\ stage' = [k \in Jobs |-> IF k \in DropsOf[j] THEN "watched"
                                    ELSE IF k = j THEN "ran" ELSE stage[k]]
        /\ Goto(w, "returning")
        /\ UNCHANGED <<submitted, waiting, queues, execQueue, future, job>>
    BY DEF RunScript, Holding, execution
  <1>3. j \in Jobs /\ stage[j] = "running"
    BY <1>1, <1>2 DEF StageAgrees, HandlersAgree, Handling
  <1>4. /\ \A d \in DropsOf[j] : stage[d] = "absent"
        /\ DropsOf[j] \subseteq Jobs
    BY <1>3, WorkflowAssumption DEF StageAgrees, ForestAgrees
  <1>5. \A k \in Jobs : \/ stage'[k] = stage[k]
                        \/ stage'[k] = "ran"
                        \/ stage'[k] = "watched" /\ k \in DropsOf[j]
    BY <1>2
  <1>6. ThreadsHold' BY <1>1, <1>2, <1>5, ThreadsStep DEF StagesLocated
  <1>7. SetsHold' BY <1>2, <1>5 DEF StagesLocated, SetsHold
  <1>8. DeferredHold' /\ JobQueueHolds' /\ ExecQueueHolds' /\ DecisionsReturn'
    BY <1>2, <1>5 DEF StagesLocated, DeferredHold, JobQueueHolds, ExecQueueHolds,
                      DecisionsReturn, queues
  <1>9. FlowStep
    <2>1. /\ PhaseAt("absent") = "absent" /\ PhaseAt("watched") = "pending"
          /\ PhaseAt("running") = "running" /\ PhaseAt("ran") = "running"
      BY DEF PhaseAt, Pending
    <2>2. Life[j] = "running" /\ \A d \in DropsOf[j] : Life[d] = "absent"
      BY <1>3, <1>4, <2>1 DEF Life
    <2>3. Life' = [k \in Jobs |-> IF k \in DropsOf[j] THEN "pending" ELSE Life[k]]
      <3>1. ASSUME NEW k \in Jobs
            PROVE  PhaseAt(stage'[k]) = IF k \in DropsOf[j] THEN "pending"
                                                            ELSE PhaseAt(stage[k])
        BY <1>2, <1>3, <2>1
      <3> QED BY <3>1 DEF Life
    <2>4. LifeFlow!DropPackages(j) BY <2>2, <2>3 DEF LifeFlow!DropPackages
    <2> QED BY <1>3, <2>4 DEF FlowStep, LifeFlow!Next
  <1> QED BY <1>6, <1>7, <1>8, <1>9 DEF StagesLocated

(* A job that ends its run has returned; only a decision returns itself. *)
LEMMA FinishLocated ==
    ASSUME StageAgrees, StagesLocated, NEW w \in Workers, Finish(w)
    PROVE  StagesLocated' /\ FlowStep
  <1> DEFINE j == fin[w]
  <1>1. w \in Threads BY DEF Threads
  <1>2. /\ pc[w] \in {"running", "returning"} /\ pc[w] \notin Holding
        /\ Move(j, "returned") /\ UNCHANGED <<outside, queues, execQueue, job>>
        /\ \E l : Goto(w, l)
    BY DEF Finish, Holding, Resume
  <1>3. j \in Jobs /\ stage[j] \in {"running", "ran"}
    BY <1>1, <1>2 DEF StageAgrees, HandlersAgree, Handling
  <1>4. \A k \in Jobs : stage'[k] = IF k = j THEN "returned" ELSE stage[k]
    BY <1>2, <1>3, LifeMoves
  <1>5. ThreadsHold' BY <1>1, <1>2, <1>4, ThreadsStep DEF StagesLocated
  <1>6. SetsHold' /\ DeferredHold' /\ JobQueueHolds' /\ ExecQueueHolds'
    BY <1>2, <1>4 DEF StagesLocated, SetsHold, DeferredHold, JobQueueHolds,
                      ExecQueueHolds, outside, queues
  <1>7. DecisionsReturn'
    <2>1. PICK r \in ResultsOf(j) : future' = [future EXCEPT ![j] = r] BY DEF Finish
    <2>2. r = "self" => KindOf[j] = "decision" BY DEF ResultsOf
    <2> QED BY <1>3, <2>1, <2>2 DEF StagesLocated, DecisionsReturn, StageAgrees, TypeOK
  <1>8. FlowStep
    <2>1. PhaseAt(stage[j]) = "running" /\ PhaseAt("returned") = "returned"
      BY <1>3 DEF PhaseAt, Pending
    <2>2. Life[j] = "running" /\ Life' = [Life EXCEPT ![j] = "returned"]
      BY <1>2, <1>3, <2>1, LifeMoves
    <2> QED BY <1>3, <2>2 DEF FlowStep, LifeFlow!Next, LifeFlow!Return, LifeFlow!Become
  <1> QED BY <1>5, <1>6, <1>7, <1>8 DEF StagesLocated

(* The watched-directory thread takes a job in hand, or dies. *)
LEMMA WatcherLocated ==
    ASSUME StageAgrees, StagesLocated, HandleWatchedDir
    PROVE  StagesLocated' /\ FlowStep
  <1> Watcher \in Threads BY DEF Threads
  <1>a. CASE Goto(Watcher, "stopped") /\ UNCHANGED <<watched, job, stage>>
    <2>1. /\ pc[Watcher] \notin Holding
          /\ UNCHANGED <<outside, queues, execQueue, future, job, stage>>
      BY <1>a DEF HandleWatchedDir, Holding, execution, outside
    <2> QED BY <1>a, <2>1, QuietLocated
  <1> SUFFICES ASSUME ~ (Goto(Watcher, "stopped") /\ UNCHANGED <<watched, job, stage>>)
               PROVE  StagesLocated' /\ FlowStep
    BY <1>a
  <1>1. PICK j \in watched : /\ watched' = watched \ {j} /\ Take(Watcher, j)
                             /\ Move(j, "held") /\ Goto(Watcher, "schedule")
    BY DEF HandleWatchedDir
  <1>2. /\ pc[Watcher] \notin Holding /\ Goto(Watcher, "schedule")
        /\ UNCHANGED <<submitted, waiting, queues, execQueue, future>>
    BY <1>1 DEF HandleWatchedDir, Holding, execution
  <1>3. j \in Jobs /\ stage[j] = "watched" BY DEF StageAgrees, TypeOK, SetsAgree
  <1>4. \A k \in Jobs : stage'[k] = IF k = j THEN "held" ELSE stage[k]
    BY <1>1, <1>3, LifeMoves
  <1>5. job'[Watcher] = j /\ \A u \in Threads \ {Watcher} : job'[u] = job[u]
    BY <1>1 DEF Take, StageAgrees, TypeOK
  <1>6. "schedule" \in Holding BY DEF Holding
  <1>7. ThreadsHold' BY <1>2, <1>4, <1>5, <1>6, ThreadsStep DEF StagesLocated
  <1>8. /\ SetsHold' /\ DeferredHold' /\ JobQueueHolds' /\ ExecQueueHolds'
        /\ DecisionsReturn'
    BY <1>1, <1>2, <1>4 DEF StagesLocated, SetsHold, DeferredHold, JobQueueHolds,
                            ExecQueueHolds, DecisionsReturn, queues
  <1>9. FlowStep
    <2>1. PhaseAt("held") = PhaseAt("watched") BY DEF PhaseAt, Pending
    <2> QED BY <2>1, <1>1, <1>3, QuietMove
  <1> QED BY <1>7, <1>8, <1>9 DEF StagesLocated

(* A submitted package goes to the executor, or is refused after a signal. *)
LEMMA CreateLocated ==
    ASSUME StageAgrees, StagesLocated, NEW t \in RpcThreads, CreatePackage(t)
    PROVE  StagesLocated' /\ FlowStep
  <1>1. PICK j \in submitted :
            /\ submitted' = submitted \ {j}
            /\ \/ Move(j, "lost") /\ UNCHANGED execQueue
               \/ /\ Move(j, "starting")
                  /\ execQueue' = Append(execQueue, [task |-> "start", job |-> j])
    BY DEF CreatePackage
  <1>2. UNCHANGED <<watched, waiting, queues, future, pc, job>> BY DEF CreatePackage
  <1>3. j \in Jobs /\ stage[j] = "submitted" BY DEF StageAgrees, TypeOK, SetsAgree
  <1>4. PICK to \in {"lost", "starting"} : Move(j, to) BY <1>1
  <1>5. \A k \in Jobs : stage'[k] = IF k = j THEN to ELSE stage[k]
    BY <1>3, <1>4, LifeMoves
  <1>6. SetsHold' /\ DeferredHold' /\ JobQueueHolds' /\ ThreadsHold' /\ DecisionsReturn'
    BY <1>1, <1>2, <1>4, <1>5
       DEF StagesLocated, SetsHold, DeferredHold, JobQueueHolds, ThreadsHold,
           DecisionsReturn, queues
  <1>7. CASE Move(j, "lost") /\ UNCHANGED execQueue
    <2>1. \A k \in Jobs : stage'[k] = IF k = j THEN "lost" ELSE stage[k]
      BY <1>3, <1>7, LifeMoves
    <2>2. ExecQueueHolds' BY <1>7, <2>1 DEF StagesLocated, ExecQueueHolds
    <2>3. FlowStep BY <1>3, <1>7, DropMove DEF Pending
    <2> QED BY <1>6, <2>2, <2>3 DEF StagesLocated
  <1>8. CASE /\ Move(j, "starting")
             /\ execQueue' = Append(execQueue, [task |-> "start", job |-> j])
    <2>1. ExecQueueHolds' BY <1>3, <1>5, <1>8, ExecHolds
    <2>2. FlowStep
      <3>1. PhaseAt("starting") = PhaseAt("submitted") BY DEF PhaseAt, Pending
      <3> QED BY <3>1, <1>3, <1>8, QuietMove
    <2> QED BY <1>6, <2>1, <2>2 DEF StagesLocated
  <1> QED BY <1>1, <1>7, <1>8

(* A decision ends the job that awaited it. *)
LEMMA DecideLocated ==
    ASSUME StageAgrees, StagesLocated, NEW t \in RpcThreads, Decide(t)
    PROVE  StagesLocated' /\ FlowStep
  <1>1. t \in Threads /\ pc[t] \notin Holding BY DEF Threads, Decide, Holding
  <1>2. PICK j \in waiting :
            /\ waiting' = waiting \ {j}
            /\ IF NextOf[j] = NoJob
               THEN Move(j, "spent") /\ UNCHANGED <<pc, job>>
               ELSE /\ Take(t, NextOf[j])
                    /\ stage' = [stage EXCEPT ![j] = "spent", ![NextOf[j]] = "held"]
                    /\ Goto(t, "schedule")
    BY DEF Decide
  <1>3. UNCHANGED <<watched, submitted, queues, execQueue, future>>
    BY DEF Decide, execution
  <1>4. j \in Jobs /\ stage[j] = "awaiting" BY DEF StageAgrees, TypeOK, SetsAgree
  <1>5. \A k \in waiting : k # j => k \in waiting' BY <1>2
  <1>6. CASE NextOf[j] = NoJob
    <2>1. Move(j, "spent") /\ UNCHANGED <<pc, job>> BY <1>2, <1>6
    <2>2. Goto(t, pc[t]) BY <2>1 DEF Goto, StageAgrees, TypeOK
    <2> QED BY <1>1, <1>3, <1>4, <1>5, <2>1, <2>2, SpentLocated
  <1>7. CASE NextOf[j] # NoJob
    <2>1. /\ Take(t, NextOf[j]) /\ Goto(t, "schedule")
          /\ stage' = [stage EXCEPT ![j] = "spent", ![NextOf[j]] = "held"]
      BY <1>2, <1>7
    <2> QED BY <1>1, <1>3, <1>4, <1>5, <1>7, <2>1, SuccessorLocated
  <1> QED BY <1>6, <1>7

(* Every step keeps each job where its stage says, and is one of JobFlow. *)
LEMMA StepLocated ==
    ASSUME StageAgrees, StagesLocated, [Next]_vars
    PROVE  StagesLocated' /\ FlowStep
  <1>1. ASSUME NEW t \in Workers \cup {Main}, CallbackStep(t)
        PROVE  StagesLocated' /\ FlowStep
    <2> t \in Threads BY DEF Threads
    <2> QED BY <1>1, CallbackLocated
  <1>2. ASSUME NEW w \in Workers, WorkerStep(w) PROVE StagesLocated' /\ FlowStep
    BY <1>2, TakeTaskLocated, RunScriptLocated, FinishLocated DEF WorkerStep
  <1>3. CASE SignalHandler \/ UNCHANGED vars
    <2>1. UNCHANGED <<watched, submitted, waiting, queues, execQueue, future, pc, job,
                      stage>>
      BY <1>3 DEF SignalHandler, vars, outside, execution
    <2> QED BY <2>1 DEF StagesLocated, SetsHold, DeferredHold, JobQueueHolds,
                        ExecQueueHolds, ThreadsHold, DecisionsReturn, queues,
                        FlowStep, Life
  <1> QED BY <1>1, <1>2, <1>3, QueueLocated, MainLocated, WatcherLocated,
             CreateLocated, DecideLocated
          DEF Next

(* At the start every job is where its stage says. *)
LEMMA InitLocated == ASSUME Init PROVE StagesLocated
  BY DEF Init, StagesLocated, SetsHold, DeferredHold, JobQueueHolds, ExecQueueHolds,
         ThreadsHold, DecisionsReturn

(* No job is forgotten: in every reachable state a job that is still to run is
   in a queue, in a set or in the hands of a thread. *)
THEOREM AlwaysLocated == Spec => [](StageAgrees /\ StagesLocated)
  <1>1. Init => StageAgrees /\ StagesLocated BY InitInv, InitLocated
  <1>2. (StageAgrees /\ StagesLocated) /\ [Next]_vars
            => (StageAgrees /\ StagesLocated)'
    BY StepInv, StepLocated
  <1> QED BY <1>1, <1>2, PTL DEF Spec

(* A job that is pending is in a place. *)
LEMMA PendingPlace ==
    ASSUME StageAgrees, StagesLocated, NEW j \in Jobs, stage[j] \in Pending
    PROVE  Places(j) # {}
  <1> SUFFICES \E p : p \in Places(j) OBVIOUS
  <1> USE Zenon DEF Places
  <1>1. CASE stage[j] = "watched"
    <2>1. <<"watched", j>> \in {"watched"} \X (watched \cap {j})
      BY <1>1, SMT DEF StagesLocated, SetsHold
    <2> QED BY <2>1
  <1>2. CASE stage[j] = "submitted"
    <2>1. <<"submitted", j>> \in {"submitted"} \X (submitted \cap {j})
      BY <1>2, SMT DEF StagesLocated, SetsHold
    <2> QED BY <2>1
  <1>3. CASE stage[j] = "deferred"
    <2>1. PICK i \in 1..Len(deferred[TypeOf[j]]) : deferred[TypeOf[j]][i] = j
      BY <1>3, SMT DEF StagesLocated, DeferredHold, In
    <2>2. TypeOf[j] \in Types BY WorkflowAssumption, SMT
    <2>3. <<TypeOf[j], i>> \in {TypeOf[j]} \X Positions(deferred[TypeOf[j]], j)
      BY <2>1, SMT DEF Positions
    <2>4. <<TypeOf[j], i>> \in UNION {{ty} \X Positions(deferred[ty], j) : ty \in Types}
      BY <2>2, <2>3, SMT
    <2> QED BY <2>4
  <1>4. CASE stage[j] = "queued"
    <2>1. PICK i \in 1..Len(jobQueue) : jobQueue[i] = j
      BY <1>4, SMT DEF StagesLocated, JobQueueHolds, In
    <2>2. <<"job_queue", i>> \in {"job_queue"} \X Positions(jobQueue, j)
      BY <2>1, SMT DEF Positions
    <2> QED BY <2>2
  <1>5. CASE stage[j] \in {"executor", "starting"}
    <2>1. PICK i \in 1..Len(execQueue) : execQueue[i].job = j
      BY <1>5, SMT DEF StagesLocated, ExecQueueHolds
    <2>2. <<"executor", i>> \in
            {"executor"} \X {k \in 1..Len(execQueue) : execQueue[k].job = j}
      BY <2>1, SMT
    <2> QED BY <2>2
  <1>6. CASE stage[j] = "held"
    <2>1. PICK t \in Threads : pc[t] \in Holding /\ job[t] = j
      BY <1>6, SMT DEF StagesLocated, ThreadsHold
    <2>2. <<"thread", t>> \in {"thread"} \X {u \in Threads : Holds(u, j)}
      BY <2>1, SMT DEF Holds
    <2> QED BY <2>2
  <1> QED BY <1>1, <1>2, <1>3, <1>4, <1>5, <1>6, SMT DEF Pending

(* The phase that queues, futures and threads show is that of the stage. *)
LEMMA PhaseOfStage ==
    ASSUME StageAgrees, StagesLocated
    PROVE  [j \in Jobs |-> Phase(j)] = Life
  <1> SUFFICES ASSUME NEW j \in Jobs PROVE Phase(j) = PhaseAt(stage[j])
    BY DEF Life
  <1>1. stage[j] \in Stages /\ future[j] \in Futures BY DEF StageAgrees, TypeOK
  <1>2. j \in waiting <=> stage[j] = "awaiting"
    BY DEF StageAgrees, SetsAgree, StagesLocated, SetsHold
  <1>3. /\ future[j] = "running" <=> stage[j] \in {"running", "ran"}
        /\ future[j] \in Results <=> stage[j] \in {"returned", "awaiting", "spent"}
    BY <1>1 DEF StageAgrees, FutureAgrees, Futures, Results, Stages
  <1>4. CASE stage[j] \in {"absent", "spent", "lost"}
    BY <1>4 DEF Phase, PhaseAt, Pending
  <1>5. CASE stage[j] = "awaiting"
    <2>1. j \in waiting /\ stage[j] \notin {"absent", "spent", "lost"} BY <1>2, <1>5
    <2>2. Phase(j) = "awaiting" BY <2>1 DEF Phase
    <2>3. PhaseAt(stage[j]) = "awaiting" BY <1>5 DEF PhaseAt, Pending
    <2> QED BY <2>2, <2>3
  <1>6. CASE stage[j] \in {"running", "ran"}
    <2>1. /\ j \notin waiting /\ future[j] = "running" /\ future[j] \notin Results
          /\ stage[j] \notin {"absent", "spent", "lost"}
      BY <1>2, <1>3, <1>6
    <2>2. Phase(j) = "running" BY <2>1 DEF Phase
    <2>3. PhaseAt(stage[j]) = "running" BY <1>6 DEF PhaseAt, Pending
    <2> QED BY <2>2, <2>3
  <1>7. CASE stage[j] = "returned"
    <2>1. /\ j \notin waiting /\ future[j] # "running" /\ future[j] \in Results
          /\ stage[j] \notin {"absent", "spent", "lost"}
      BY <1>2, <1>3, <1>7
    <2>2. Phase(j) = "returned" BY <2>1 DEF Phase
    <2>3. PhaseAt(stage[j]) = "returned" BY <1>7 DEF PhaseAt, Pending
    <2> QED BY <2>2, <2>3
  <1>8. CASE stage[j] \in Pending
    <2>1. Places(j) # {} BY <1>8, PendingPlace
    <2>2. /\ j \notin waiting /\ future[j] # "running" /\ future[j] \notin Results
          /\ stage[j] \notin {"absent", "spent", "lost"}
      BY <1>2, <1>3, <1>8 DEF Pending
    <2>3. Phase(j) = "pending" BY <2>1, <2>2 DEF Phase
    <2>4. PhaseAt(stage[j]) = "pending" BY <1>8 DEF PhaseAt, Pending
    <2> QED BY <2>3, <2>4
  <1> QED BY <1>1, <1>4, <1>5, <1>6, <1>7, <1>8 DEF Stages, Pending

(* Whatever threads, queues and locks it uses, the package queue keeps its
   promise to every job: it waits, runs once, may wait for one decision and
   ends; its successor exists only from then on; it is dropped only while it
   waits to run. *)
THEOREM RefinesJobFlow == Spec => ImplementsJobFlow
  <1> DEFINE phase == [j \in Jobs |-> Phase(j)]
  <1>1. Init => Flow!Init
    <2> SUFFICES ASSUME Init PROVE Flow!Init OBVIOUS
    <2>1. phase = Life BY InitInv, InitLocated, PhaseOfStage
    <2>2. /\ PhaseAt("absent") = "absent" /\ PhaseAt("watched") = "pending"
          /\ PhaseAt("submitted") = "pending"
      BY DEF PhaseAt, Pending
    <2>3. Life = [j \in Jobs |-> IF j \in Arrivals \cup Submissions THEN "pending"
                                                                    ELSE "absent"]
      BY <2>2 DEF Life, Init
    <2> QED BY <2>1, <2>3 DEF Flow!Init
  <1>2. /\ StageAgrees /\ StagesLocated /\ (StageAgrees /\ StagesLocated)'
        /\ [Next]_vars
        => [Flow!Next]_phase
    <2>1. StageAgrees /\ StagesLocated => phase = Life BY PhaseOfStage
    <2>2. (StageAgrees /\ StagesLocated)' => (phase = Life)' BY <2>1, PTL
    <2> SUFFICES ASSUME StageAgrees, StagesLocated, (StageAgrees /\ StagesLocated)',
                        [Next]_vars
                 PROVE  [Flow!Next]_phase
      OBVIOUS
    <2>3. phase = Life /\ phase' = Life' BY <2>1, <2>2
    <2>4. FlowStep BY StepLocated
    <2> QED BY <2>3, <2>4
            DEF FlowStep, LifeFlow!Next, LifeFlow!Start, LifeFlow!DropPackages,
                LifeFlow!Return, LifeFlow!Await, LifeFlow!End, LifeFlow!Drop,
                LifeFlow!Become, Flow!Next, Flow!Start, Flow!DropPackages,
                Flow!Return, Flow!Await, Flow!End, Flow!Drop, Flow!Become
  <1> QED BY <1>1, <1>2, AlwaysLocated, PTL DEF Spec, ImplementsJobFlow, Flow!Spec
=============================================================================
