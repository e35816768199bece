--------------------- MODULE PackageQueueThrottleProofs ---------------------
(***************************************************************************)
(* What the package queue does with packages rather than jobs.             *)
(*                                                                         *)
(* Where the jobs of a package are one chain (OneChainEach) a package has  *)
(* come to one job, its Latest one (ChainAgrees): it is not marked done    *)
(* over a failure (AlwaysDoneMeansClean).  A slot is given back once, when *)
(* no job of the package is left, or for a decision that had been taken    *)
(* (ThrottleAgrees): what is queued is active unless there was such a one  *)
(* (AlwaysQueuedIsActive), and the limit is exceeded by less than one slot *)
(* per thread, and one per such decision (AlwaysOvershoot).                *)
(*                                                                         *)
(* Where every chain ends its package or hands it over (ChainsClose) and   *)
(* the status updates do not raise, a slot that is taken has an owner      *)
(* until a call into the queue loses a job (OwnedUnlessLost).              *)
(***************************************************************************)
EXTENDS PackageQueueFlowProofs, FiniteSetTheorems

-----------------------------------------------------------------------------
(* The chain of a package                                                  *)

(* A job that has come into being stays. *)
LEMMA StartedStays ==
    ASSUME StageAgrees, StagesLocated, [Next]_vars, NEW j \in Jobs, stage[j] # "absent"
    PROVE  stage'[j] # "absent"
  <1>1. stage[j] \in Stages /\ stage'[j] \in Stages
    BY StepInv DEF StageAgrees, TypeOK
  <1>2. \A s \in Stages : PhaseAt(s) = "absent" <=> s = "absent"
    BY DEF PhaseAt, Pending, Stages
  <1>3. Life[j] = PhaseAt(stage[j]) /\ Life'[j] = PhaseAt(stage'[j]) BY DEF Life
  <1>4. Life[j] # "absent" BY <1>1, <1>2, <1>3
  <1>5. Life \in [Jobs -> {PhaseAt(s) : s \in Stages}]
    BY DEF Life, StageAgrees, TypeOK
  <1>6. Life'[j] # "absent"
    <2>1. CASE UNCHANGED Life BY <2>1, <1>4
    <2>2. ASSUME LifeFlow!Next PROVE Life'[j] # "absent"
      <3>1. PICK k \in Jobs :
              \/ LifeFlow!Start(k) \/ LifeFlow!DropPackages(k) \/ LifeFlow!Return(k)
              \/ LifeFlow!Await(k) \/ LifeFlow!End(k) \/ LifeFlow!Drop(k)
        BY <2>2 DEF LifeFlow!Next
      <3> QED BY <3>1, <1>4, <1>5
              DEF LifeFlow!Start, LifeFlow!DropPackages, LifeFlow!Return, LifeFlow!Await,
                  LifeFlow!End, LifeFlow!Drop, LifeFlow!Become
    <2> QED BY <2>1, <2>2, StepLocated DEF FlowStep
  <1> QED BY <1>1, <1>2, <1>3, <1>6

(* A job whose future has left unsubmitted has come into being. *)
LEMMA SubmittedStarted ==
    ASSUME StageAgrees, NEW j \in Jobs, future[j] # "unsubmitted"
    PROVE  stage[j] # "absent"
  BY DEF StageAgrees, FutureAgrees

(* A future is only "none" if the job has no successor, and "self" if it is a
   decision. *)
LEMMA ResultsMean ==
    ASSUME StageAgrees, [Next]_vars, NEW j \in Jobs, future'[j] # future[j],
           future'[j] \in Results
    PROVE  future'[j] \in ResultsOf(j)
  <1> future \in [Jobs -> Futures] BY DEF StageAgrees, TypeOK
  <1>1. ASSUME NEW w \in Workers, Finish(w) PROVE future'[j] \in ResultsOf(j)
    <2>1. \E r \in ResultsOf(fin[w]) : future' = [future EXCEPT ![fin[w]] = r]
      BY <1>1 DEF Finish
    <2> QED BY <2>1
  <1>2. \A w \in Workers : TakeTask(w) =>
            future' = future \/ future' = [future EXCEPT ![Head(execQueue).job] = "running"]
    BY DEF TakeTask
  <1>3. Submit => future' = future \/ future' = [future EXCEPT ![job[Main]] = "submitted"]
    BY DEF Submit
  <1>4. \A t \in Threads : QueueStep(t) => UNCHANGED future
    BY DEF QueueStep, Schedule, Acquire, Put, Defer, GetDip, GetSip, GetTransfer,
           GetDeferred, Activate, PutNowait, execution
  <1>5. \A t \in Workers \cup {Main} : CallbackStep(t) => UNCHANGED future
    BY DEF CallbackStep, JobCallback, AwaitDecision, HandleFailure, PackageCallback,
           Deactivate, execution
  <1>6. MainStep => Submit \/ UNCHANGED future
    BY DEF MainStep, Loop, Get, AddJobCallback, AddPackageCallback, execution
  <1>7. \A w \in Workers : WorkerStep(w) => TakeTask(w) \/ Finish(w) \/ UNCHANGED future
    BY DEF WorkerStep, RunScript, execution
  <1>8. SignalHandler \/ HandleWatchedDir => UNCHANGED future
    BY DEF SignalHandler, HandleWatchedDir, execution
  <1>9. \A t \in RpcThreads : CreatePackage(t) \/ Decide(t) => UNCHANGED future
    BY DEF CreatePackage, Decide, execution
  <1>10. UNCHANGED vars => UNCHANGED future BY DEF vars, execution
  <1> QED BY <1>1, <1>2, <1>3, <1>4, <1>5, <1>6, <1>7, <1>8, <1>9, <1>10
          DEF Next, Results

(* ChainAgrees is inductive: a job that comes into being is the first of its
   package, or follows the job the package had come to. *)
LEMMA StepChain ==
    ASSUME OneChainEach, StageAgrees, StagesLocated, ChainAgrees, [Next]_vars
    PROVE  ChainAgrees'
  <1> USE WorkflowAssumption
  <1>1. OrderAgrees' BY StepOrder DEF ChainAgrees
  <1>2. \A j \in Jobs : stage[j] # "absent" => stage'[j] # "absent" BY StartedStays
  <1>3. ASSUME NEW k \in Jobs, stage[k] = "absent", stage'[k] # "absent", ~ IsFirst(k)
        PROVE  \E i \in Jobs : NextOf[i] = k /\ stage[i] # "absent" /\ Latest(i)
                               /\ PackageOf[i] = PackageOf[k]
    <2>1. \A i \in Jobs : k \notin DropsOf[i] BY <1>3 DEF IsFirst
    <2>2. PICK i \in Jobs : NextOf[i] = k /\ future[i] \in {"next", "self"}
      BY <1>3, <2>1, Origins
    <2>3. stage[i] # "absent" BY <2>2, SubmittedStarted
    <2> QED BY <2>2, <2>3, <1>3 DEF Latest, OneChainEach
  <1>4. ASSUME NEW j \in Jobs, NEW k \in Jobs, PackageOf[j] = PackageOf[k],
               IsFirst(j), stage'[k] # "absent"
        PROVE  stage'[j] # "absent"
    <2>1. CASE stage[k] # "absent" BY <2>1, <1>2, <1>4 DEF ChainAgrees
    <2>2. CASE stage[k] = "absent" /\ IsFirst(k) BY <2>2, <1>4 DEF OneChainEach
    <2>3. CASE stage[k] = "absent" /\ ~ IsFirst(k)
      BY <2>3, <1>2, <1>3, <1>4 DEF ChainAgrees
    <2> QED BY <2>1, <2>2, <2>3
  <1>5. \A j \in Jobs : Latest(j)' /\ stage[j] # "absent" => Latest(j)
    BY <1>2 DEF Latest
  <1>6. ASSUME NEW j \in Jobs, NEW k \in Jobs, PackageOf[j] = PackageOf[k],
               Latest(j)', Latest(k)', stage[j] = "absent"
        PROVE  j = k
    <2>1. stage'[j] # "absent" /\ stage'[k] # "absent" BY <1>6 DEF Latest
    <2>2. CASE IsFirst(j)
      <3>1. stage[k] = "absent" BY <2>2, <1>6 DEF ChainAgrees
      <3>2. IsFirst(k) BY <3>1, <2>1, <2>2, <1>3, <1>6 DEF ChainAgrees
      <3> QED BY <3>2, <2>2, <1>6 DEF OneChainEach
    <2>3. CASE ~ IsFirst(j)
      <3>1. PICK i \in Jobs : /\ NextOf[i] = j /\ stage[i] # "absent" /\ Latest(i)
                              /\ PackageOf[i] = PackageOf[j]
        BY <2>1, <2>3, <1>3, <1>6
      <3>2. ~ Latest(i)' BY <3>1, <2>1 DEF Latest
      <3>3. stage[k] = "absent" BY <3>1, <3>2, <1>5, <1>6 DEF ChainAgrees
      <3>4. ~ IsFirst(k) BY <3>1, <3>3, <1>6 DEF ChainAgrees
      <3>5. PICK m \in Jobs : /\ NextOf[m] = k /\ Latest(m)
                              /\ PackageOf[m] = PackageOf[k]
        BY <3>3, <3>4, <2>1, <1>3
      <3> QED BY <3>1, <3>5, <1>6 DEF ChainAgrees
    <2> QED BY <2>2, <2>3
  <1>7. ASSUME NEW j \in Jobs, NEW k \in Jobs, PackageOf[j] = PackageOf[k],
               Latest(j)', Latest(k)'
        PROVE  j = k
    <2>1. CASE stage[j] = "absent" BY <2>1, <1>6, <1>7
    <2>2. CASE stage[k] = "absent" BY <2>2, <1>6, <1>7
    <2>3. CASE stage[j] # "absent" /\ stage[k] # "absent"
      BY <2>3, <1>5, <1>7 DEF ChainAgrees
    <2> QED BY <2>1, <2>2, <2>3
  <1>8. ASSUME NEW j \in Jobs, future'[j] = "none" PROVE NextOf[j] = NoJob
    <2>1. CASE future[j] = "none" BY <2>1 DEF ChainAgrees
    <2>2. CASE future[j] # "none"
      <3>1. "none" \in ResultsOf(j) BY <1>8, <2>2, ResultsMean DEF Results
      <3> QED BY <3>1 DEF ResultsOf
    <2> QED BY <2>1, <2>2
  <1> QED BY <1>1, <1>4, <1>7, <1>8 DEF ChainAgrees

(* At the start only first jobs are there. *)
LEMMA InitChain == ASSUME OneChainEach, Init PROVE ChainAgrees
  <1> USE WorkflowAssumption
  <1>1. \A j \in Jobs : stage[j] # "absent" => IsFirst(j)
    BY DEF Init, IsFirst
  <1>2. OrderAgrees BY DEF Init, OrderAgrees
  <1>3. \A j \in Jobs : future[j] # "none" BY DEF Init
  <1> QED BY <1>1, <1>2, <1>3 DEF ChainAgrees, OneChainEach, Latest

(* A package whose jobs are one chain has come to one job. *)
THEOREM AlwaysChainAgrees ==
    ASSUME OneChainEach
    PROVE  Spec => [](StageAgrees /\ StagesLocated /\ ChainAgrees)
  <1>1. Init => StageAgrees /\ StagesLocated /\ ChainAgrees
    BY InitInv, InitLocated, InitChain
  <1>2. (StageAgrees /\ StagesLocated /\ ChainAgrees) /\ [Next]_vars
            => (StageAgrees /\ StagesLocated /\ ChainAgrees)'
    BY StepInv, StepLocated, StepChain
  <1> QED BY <1>1, <1>2, PTL DEF Spec

(* A package becomes done only through the package callback of a job that
   ended it. *)
LEMMA DoneMoves ==
    ASSUME StageAgrees, [Next]_vars, NEW p \in Packages, status'[p] = "done"
    PROVE  \/ status[p] = "done"
           \/ \E j \in Jobs : PackageOf[j] = p /\ future[j] = "none"
  <1> status \in [Packages -> Statuses] BY DEF StageAgrees, TypeOK
  <1>1. ASSUME NEW t \in Threads, Lose(t) PROVE status[p] = "done" BY <1>1 DEF Lose
  <1>2. \A t \in Threads : QueueStep(t) => status[p] = "done"
    BY <1>1 DEF QueueStep, Schedule, Acquire, Put, Defer, GetDip, GetSip, GetTransfer,
                GetDeferred, Activate, PutNowait
  <1>3. ASSUME NEW t \in Workers \cup {Main}, CallbackStep(t)
        PROVE  \/ status[p] = "done"
               \/ \E j \in Jobs : PackageOf[j] = p /\ future[j] = "none"
    <2>1. CASE PackageCallback(t)
      <3>1. fin[t] \in Jobs
        BY <2>1 DEF PackageCallback, Threads, StageAgrees, CallbacksAgree
      <3> QED BY <2>1, <3>1 DEF PackageCallback
    <2>2. CASE HandleFailure(t) BY <2>2 DEF HandleFailure
    <2>3. CASE JobCallback(t) \/ AwaitDecision(t) \/ Deactivate(t)
      BY <2>3 DEF JobCallback, AwaitDecision, Deactivate
    <2> QED BY <1>3, <2>1, <2>2, <2>3 DEF CallbackStep
  <1>4. MainStep => UNCHANGED status
    BY DEF MainStep, Loop, Get, Submit, AddJobCallback, AddPackageCallback
  <1>5. \A w \in Workers : WorkerStep(w) => status[p] = "done"
    BY DEF WorkerStep, TakeTask, RunScript, Finish
  <1>6. HandleWatchedDir \/ SignalHandler => status[p] = "done"
    BY DEF HandleWatchedDir, SignalHandler
  <1>7. \A t \in RpcThreads : CreatePackage(t) \/ Decide(t) => status[p] = "done"
    BY DEF CreatePackage, Decide
  <1>8. UNCHANGED vars => UNCHANGED status BY DEF vars
  <1> QED BY <1>2, <1>3, <1>4, <1>5, <1>6, <1>7, <1>8 DEF Next

(* A package whose jobs form one chain is never left marked done when a job of
   it raised: the job that raised and the job that ended the package would
   both be the one the package has come to. *)
THEOREM AlwaysDoneMeansClean ==
    ASSUME OneChainEach
    PROVE  Spec => []DoneMeansClean
  <1>1. Init => DoneAgrees BY DEF Init, DoneAgrees
  <1>2. ASSUME StageAgrees, DoneAgrees, [Next]_vars PROVE DoneAgrees'
    <2> SUFFICES ASSUME NEW p \in Packages, status'[p] = "done"
                 PROVE  \E j \in Jobs : PackageOf[j] = p /\ future'[j] = "none"
      BY DEF DoneAgrees
    <2>1. PICK j \in Jobs : PackageOf[j] = p /\ future[j] = "none"
      BY <1>2, DoneMoves DEF DoneAgrees
    <2> QED BY <1>2, <2>1, FuturesMove
  <1>3. ASSUME StageAgrees, ChainAgrees, DoneAgrees PROVE DoneMeansClean
    <2> SUFFICES ASSUME NEW j \in Jobs, future[j] = "raised",
                        status[PackageOf[j]] = "done"
                 PROVE  FALSE
      BY DEF DoneMeansClean
    <2>1. PICK k \in Jobs : PackageOf[k] = PackageOf[j] /\ future[k] = "none"
      BY <1>3, WorkflowAssumption DEF DoneAgrees
    <2>2. Latest(k) BY <1>3, <2>1, SubmittedStarted DEF Latest, ChainAgrees
    <2>3. Latest(j) BY <1>3, SubmittedStarted DEF Latest, ChainAgrees, OrderAgrees
    <2> QED BY <1>3, <2>1, <2>2, <2>3 DEF ChainAgrees
  <1> QED BY <1>1, <1>2, <1>3, AlwaysChainAgrees, PTL DEF Spec
-----------------------------------------------------------------------------
(* One thread moves at a time                                              *)

\* What thread t may do
Acts(t) ==
    \/ QueueStep(t)
    \/ t \in Workers \cup {Main} /\ CallbackStep(t)
    \/ t = Main /\ MainStep
    \/ t \in Workers /\ WorkerStep(t)
    \/ t = Watcher /\ HandleWatchedDir
    \/ t \in RpcThreads /\ (CreatePackage(t) \/ Decide(t))

Unmoved(u) ==
    /\ pc'[u] = pc[u] /\ job'[u] = job[u] /\ fin'[u] = fin[u]
    /\ ret'[u] = ret[u] /\ room'[u] = room[u]

(* A step is one of a thread, or the signal handler's. *)
LEMMA OneActs ==
    ASSUME [Next]_vars
    PROVE  (\E t \in Threads : Acts(t)) \/ SignalHandler \/ UNCHANGED vars
  <1>1. Main \in Threads /\ Watcher \in Threads BY DEF Threads
  <1>2. Workers \subseteq Threads /\ RpcThreads \subseteq Threads BY DEF Threads
  <1> QED BY <1>1, <1>2 DEF Next, Acts

(* A step of one thread leaves the locals of the others. *)
LEMMA OthersUnmoved ==
    ASSUME TypeOK, NEW t \in Threads, Acts(t), NEW u \in Threads, u # t
    PROVE  Unmoved(u)
  <1> /\ pc \in [Threads -> Pcs] /\ job \in [Threads -> Jobs \cup {NoJob}]
      /\ fin \in [Threads -> Jobs \cup {NoJob}]
      /\ ret \in [Threads -> {"idle", "addPkgCb", "pkgCb", "startup"}]
      /\ room \in [Threads -> BOOLEAN]
    BY DEF TypeOK
  <1>1. \A l : Goto(t, l) => pc'[u] = pc[u] BY DEF Goto
  <1>2. \A j : Take(t, j) => job'[u] = job[u] BY DEF Take
  <1>3. Release(t) => job'[u] = job[u] BY DEF Release
  <1>4. ASSUME NEW l, Resume(t, l)
        PROVE  pc'[u] = pc[u] /\ fin'[u] = fin[u] /\ ret'[u] = ret[u]
    BY <1>4, <1>1 DEF Resume
  <1>5. Return(t) => pc'[u] = pc[u] /\ fin'[u] = fin[u] /\ ret'[u] = ret[u]
    BY <1>4 DEF Return
  <1>6. Lose(t) => /\ pc'[u] = pc[u] /\ fin'[u] = fin[u] /\ ret'[u] = ret[u]
                   /\ job'[u] = job[u]
    BY <1>3, <1>4, <1>5 DEF Lose
  <1>7. CASE QueueStep(t)
    <2>1. CASE Schedule(t) BY <2>1, <1>1, <1>6 DEF Schedule, Unmoved
    <2>2. CASE Acquire(t) BY <2>2, <1>1 DEF Acquire, Unmoved
    <2>3. CASE Put(t) BY <2>3, <1>3, <1>5 DEF Put, Unmoved
    <2>4. CASE Defer(t) BY <2>4, <1>1, <1>3, <1>5, <1>6 DEF Defer, Unmoved
    <2>5. CASE GetDip(t) BY <2>5, <1>1, <1>2, <1>4 DEF GetDip, GetDeferred, Unmoved
    <2>6. CASE GetSip(t) BY <2>6, <1>1, <1>2, <1>4 DEF GetSip, GetDeferred, Unmoved
    <2>7. CASE GetTransfer(t)
      BY <2>7, <1>1, <1>2, <1>5 DEF GetTransfer, GetDeferred, Unmoved
    <2>8. CASE Activate(t) BY <2>8, <1>1 DEF Activate, frame, Unmoved
    <2>9. CASE PutNowait(t) BY <2>9, <1>3, <1>5, <1>6 DEF PutNowait, Unmoved
    <2> QED BY <1>7, <2>1, <2>2, <2>3, <2>4, <2>5, <2>6, <2>7, <2>8, <2>9 DEF QueueStep
  <1>8. CASE CallbackStep(t)
    <2>1. CASE JobCallback(t) BY <2>1, <1>1, <1>2, <1>5 DEF JobCallback, Unmoved
    <2>2. CASE AwaitDecision(t) BY <2>2, <1>1 DEF AwaitDecision, frame, Unmoved
    <2>3. CASE HandleFailure(t) BY <2>3, <1>1 DEF HandleFailure, frame, Unmoved
    <2>4. CASE PackageCallback(t) BY <2>4, <1>1, <1>4 DEF PackageCallback, Unmoved
    <2>5. CASE Deactivate(t) BY <2>5, <1>1 DEF Deactivate, frame, Unmoved
    <2> QED BY <1>8, <2>1, <2>2, <2>3, <2>4, <2>5 DEF CallbackStep
  <1>9. CASE t = Main /\ MainStep
    <2>1. CASE Loop BY <2>1, <1>1, <1>9 DEF Loop, frame, Unmoved
    <2>2. CASE Get BY <2>2, <1>1, <1>2, <1>9 DEF Get, frame, Unmoved
    <2>3. CASE Submit BY <2>3, <1>1, <1>3, <1>9 DEF Submit, Unmoved
    <2>4. CASE AddJobCallback BY <2>4, <1>1, <1>9 DEF AddJobCallback, Unmoved
    <2>5. CASE AddPackageCallback BY <2>5, <1>4, <1>9 DEF AddPackageCallback, Unmoved
    <2> QED BY <1>9, <2>1, <2>2, <2>3, <2>4, <2>5 DEF MainStep
  <1>10. CASE WorkerStep(t)
    <2>1. CASE TakeTask(t) BY <2>1, <1>1, <1>2 DEF TakeTask, Unmoved
    <2>2. CASE RunScript(t) BY <2>2, <1>1 DEF RunScript, frame, Unmoved
    <2>3. CASE Finish(t) BY <2>3, <1>1, <1>4 DEF Finish, Unmoved
    <2> QED BY <1>10, <2>1, <2>2, <2>3 DEF WorkerStep
  <1>11. CASE t = Watcher /\ HandleWatchedDir
    BY <1>11, <1>1, <1>2 DEF HandleWatchedDir, frame, Unmoved
  <1>12. CASE CreatePackage(t) BY <1>12 DEF CreatePackage, frame, Unmoved
  <1>13. CASE Decide(t) BY <1>13, <1>1, <1>2 DEF Decide, frame, Unmoved
  <1> QED BY <1>7, <1>8, <1>9, <1>10, <1>11, <1>12, <1>13 DEF Acts
-----------------------------------------------------------------------------
(* The slots of the throttle                                               *)

(* A thread that leaves the queue closes nothing, and completes only what its
   caller had noted. *)
LEMMA LeavesPlain ==
    ASSUME TypeOK, NEW t \in Threads, Return(t) \/ Lose(t)
    PROVE  /\ ~ Closing(t)'
           /\ pc'[t] \notin Admitted
           /\ Completes(t)' => Completes(t) /\ fin'[t] = fin[t]
  <1>1. ret[t] \in {"idle", "addPkgCb", "pkgCb", "startup"} BY DEF TypeOK
  <1>2. PICK l \in {"idle", "addPkgCb", "pkgCb", "stopped"} :
            Resume(t, l) /\ (l \in {"addPkgCb", "pkgCb"} => l = ret[t])
    BY <1>1 DEF Lose, Return
  <1>3. l \in Pcs BY DEF Pcs
  <1>4. /\ pc'[t] = l
        /\ l # "idle" => fin'[t] = fin[t] /\ ret'[t] = ret[t]
        /\ l = "idle" => ret'[t] = "idle"
    BY <1>2, <1>3, ResumeTypes
  <1> QED BY <1>2, <1>4 DEF Closing, Completes, Admitted

(* The same of every step inside the queue. *)
LEMMA QueuePlain ==
    ASSUME TypeOK, NEW t \in Threads, QueueStep(t)
    PROVE  /\ ~ Closing(t)'
           /\ Completes(t)' => Completes(t) /\ fin'[t] = fin[t]
  <1> pc \in [Threads -> Pcs] BY DEF TypeOK
  <1>1. ASSUME NEW l \in {"acquire", "put", "defer", "getDIP", "getSIP", "getTransfer",
                          "activate", "putNowait"},
               Goto(t, l), UNCHANGED <<fin, ret>>
        PROVE  /\ ~ Closing(t)'
               /\ Completes(t)' => Completes(t) /\ fin'[t] = fin[t]
    <2>1. pc'[t] = l BY <1>1 DEF Goto
    <2> QED BY <1>1, <2>1 DEF Closing, Completes
  <1>2. ASSUME NEW l \in {"getSIP", "getTransfer"}, Resume(t, l)
        PROVE  Goto(t, l) /\ UNCHANGED <<fin, ret>>
    BY <1>2 DEF Resume
  <1>3. CASE Schedule(t) BY <1>3, <1>1, LeavesPlain DEF Schedule
  <1>4. CASE Acquire(t) BY <1>4, <1>1 DEF Acquire
  <1>5. CASE Put(t) BY <1>5, LeavesPlain DEF Put
  <1>6. CASE Defer(t) BY <1>6, <1>1, LeavesPlain DEF Defer
  <1>7. CASE GetDip(t) BY <1>7, <1>1, <1>2 DEF GetDip, GetDeferred
  <1>8. CASE GetSip(t) BY <1>8, <1>1, <1>2 DEF GetSip, GetDeferred
  <1>9. CASE GetTransfer(t) BY <1>9, <1>1, LeavesPlain DEF GetTransfer, GetDeferred
  <1>10. CASE Activate(t) BY <1>10, <1>1 DEF Activate, frame
  <1>11. CASE PutNowait(t) BY <1>11, LeavesPlain DEF PutNowait
  <1> QED BY <1>3, <1>4, <1>5, <1>6, <1>7, <1>8, <1>9, <1>10, <1>11 DEF QueueStep

(* How a thread comes to give back a slot. *)
LEMMA ClosingMoves ==
    ASSUME StageAgrees, [Next]_vars, NEW t \in Threads, Closing(t)'
    PROVE  /\ fin'[t] = fin[t]
           /\ \/ /\ Closing(t) /\ ret'[t] = ret[t]
                 /\ pc'[t] = "fail" => pc[t] = "fail"
                 /\ ~ Deactivate(t)
              \/ /\ pc[t] = "jobCb" /\ future[fin[t]] = "raised" /\ pc'[t] = "fail"
                 /\ stage'[fin[t]] = "spent" /\ UNCHANGED <<active, late, future>>
              \/ /\ pc[t] = "pkgCb" /\ future[fin[t]] = "none"
                 /\ pc'[t] = "deactivate" /\ ret'[t] = "idle"
                 /\ UNCHANGED <<active, late, future>>
              \/ /\ pc[t] = "await" /\ future[fin[t]] = "self"
                 /\ pc'[t] = "deactivate" /\ stage'[fin[t]] = "awaiting"
                 /\ UNCHANGED <<active, late, future>>
  <1> TypeOK /\ pc \in [Threads -> Pcs] BY DEF StageAgrees, TypeOK
  <1>a. \A l : Goto(t, l) => pc'[t] = l BY DEF Goto
  <1>b. \A l : Resume(t, l) => pc'[t] = l BY <1>a DEF Resume
  <1>1. CASE Unmoved(t) BY <1>1, <1>a DEF Unmoved, Closing, Deactivate
  <1>2. ASSUME Acts(t), ~ Unmoved(t)
        PROVE  JobCallback(t) \/ AwaitDecision(t) \/ HandleFailure(t) \/ PackageCallback(t)
    <2>1. ~ QueueStep(t) BY QueuePlain
    <2>2. CASE CallbackStep(t)
      <3>1. ~ Deactivate(t) BY <1>a DEF Deactivate, Closing
      <3> QED BY <2>2, <3>1 DEF CallbackStep
    <2>3. CASE t = Main /\ MainStep
      BY <2>3, <1>a, <1>b DEF MainStep, Loop, Get, Submit, AddJobCallback,
         AddPackageCallback, Closing
    <2>4. CASE WorkerStep(t)
      BY <2>4, <1>a, <1>b DEF WorkerStep, TakeTask, RunScript, Finish, Closing
    <2>5. CASE t = Watcher /\ HandleWatchedDir
      BY <2>5, <1>a DEF HandleWatchedDir, Closing
    <2>6. CASE CreatePackage(t) BY <2>6, <1>2 DEF CreatePackage, frame, Unmoved
    <2>7. ~ Decide(t)
      <3>1. Decide(t) => Unmoved(t) \/ Goto(t, "schedule")
        BY DEF Decide, frame, Unmoved
      <3> QED BY <3>1, <1>2, <1>a DEF Closing
    <2> QED BY <1>2, <2>1, <2>2, <2>3, <2>4, <2>5, <2>6, <2>7 DEF Acts
  <1>3. CASE JobCallback(t)
    <2>1. fin[t] \in Jobs BY <1>3, Finished DEF JobCallback
    <2>2. ~ Return(t) BY LeavesPlain
    <2>3. pc'[t] = "fail" /\ future[fin[t]] = "raised"
      BY <1>3, <1>a, <2>2 DEF JobCallback, Closing
    <2>4. Move(fin[t], "spent") /\ UNCHANGED <<fin, active, late, future>>
      BY <1>3, <2>2, <2>3, <1>a DEF JobCallback, slots, execution
    <2>5. stage'[fin[t]] = "spent"
      BY <2>1, <2>4, LifeMoves
    <2> QED BY <1>3, <2>3, <2>4, <2>5 DEF JobCallback
  <1>4. CASE HandleFailure(t)
    BY <1>4, <1>a DEF HandleFailure, Closing, frame, Deactivate
  <1>5. CASE PackageCallback(t)
    <2>1. pc'[t] # "idle" BY DEF Closing
    <2>2. /\ future[fin[t]] = "none" /\ Goto(t, "deactivate") /\ UNCHANGED fin
          /\ ret' = [ret EXCEPT ![t] = "idle"]
      BY <1>5, <1>b, <2>1 DEF PackageCallback
    <2>3. ret'[t] = "idle" BY <2>2 DEF TypeOK
    <2> QED BY <1>5, <1>a, <2>2, <2>3 DEF PackageCallback, slots, execution
  <1>6. CASE AwaitDecision(t)
    <2>1. fin[t] \in Jobs /\ future[fin[t]] = "self"
      BY <1>6 DEF AwaitDecision, StageAgrees, HandlersAgree, Handling
    <2>2. stage'[fin[t]] = "awaiting" BY <1>6, <2>1, LifeMoves DEF AwaitDecision
    <2> QED BY <1>6, <1>a, <2>1, <2>2 DEF AwaitDecision, slots, execution, frame
  <1>7. SignalHandler \/ UNCHANGED vars => Unmoved(t)
    BY DEF SignalHandler, vars, frame, Unmoved
  <1> QED BY <1>1, <1>2, <1>3, <1>4, <1>5, <1>6, <1>7, OneActs, OthersUnmoved

(* How a thread comes to complete a package. *)
LEMMA CompletesMoves ==
    ASSUME StageAgrees, ClosingAgrees, [Next]_vars, NEW t \in Threads, Completes(t)'
    PROVE  \/ Completes(t) /\ fin'[t] = fin[t] /\ (Deactivate(t) => ret[t] # "idle")
           \/ t = Main /\ Submit /\ ~ shutdown
           \/ t \in Workers /\ Finish(t) /\ "package" \in callbacks[fin[t]]
              /\ fin'[t] = fin[t]
  <1> TypeOK /\ pc \in [Threads -> Pcs] /\ fin \in [Threads -> Jobs \cup {NoJob}]
      /\ ret \in [Threads -> {"idle", "addPkgCb", "pkgCb", "startup"}]
    BY DEF StageAgrees, TypeOK
  <1> USE DEF Completes
  <1>a. \A l : Goto(t, l) => pc'[t] = l BY DEF Goto
  <1>b. \A l : Resume(t, l) =>
            /\ pc'[t] = l
            /\ l = "idle" => ret'[t] = "idle"
            /\ l # "idle" => ret'[t] = ret[t] /\ fin'[t] = fin[t]
    BY <1>a DEF Resume
  <1>c. \A l : ret' = [ret EXCEPT ![t] = l] => ret'[t] = l OBVIOUS
  <1>d. pc[t] \in {"idle", "get", "submit"} => ret[t] = "idle"
    BY DEF StageAgrees, CallbacksAgree
  <1>1. CASE Unmoved(t)
    <2>1. ~ Deactivate(t) \/ ret[t] # "idle"
      BY <1>1, <1>a DEF Unmoved, Deactivate
    <2>2. pc[t] = "deactivate" =>
              fin[t] \in Jobs /\ future[fin[t]] \in {"raised", "none", "self"}
      BY DEF ClosingAgrees, Closing
    <2>3. pc[t] = "deactivate" => future'[fin[t]] = future[fin[t]]
      BY <2>2, FuturesMove
    <2> QED BY <1>1, <2>1, <2>3 DEF Unmoved
  <1>2. CASE QueueStep(t)
    BY <1>2, QueuePlain, <1>a DEF QueueStep, Schedule, Acquire, Put, Defer, GetDip,
       GetSip, GetTransfer, GetDeferred, Activate, PutNowait, Deactivate
  <1>3. CASE JobCallback(t)
    BY <1>3, <1>a, LeavesPlain DEF JobCallback, Deactivate
  <1>4. CASE HandleFailure(t)
    <2>1. fin[t] \in Jobs /\ future[fin[t]] = "raised"
      BY <1>4 DEF HandleFailure, ClosingAgrees, Closing
    <2>2. fin' = fin /\ ret' = ret /\ future' = future /\ pc'[t] = "deactivate"
      BY <1>4, <1>a DEF HandleFailure, frame, execution
    <2> QED BY <1>4, <2>1, <2>2 DEF HandleFailure, Deactivate
  <1>5. CASE PackageCallback(t)
    BY <1>5, <1>a, <1>b DEF PackageCallback, Deactivate
  <1>6. CASE Deactivate(t) BY <1>6, <1>a DEF Deactivate, frame
  <1>7. CASE t = Main /\ MainStep
    <2>1. CASE Loop BY <2>1, <1>7, <1>a, <1>d DEF Loop, frame
    <2>2. CASE Get BY <2>2, <1>7, <1>a, <1>d DEF Get, frame
    <2>3. CASE Submit BY <2>3, <1>7, <1>a, <1>d DEF Submit
    <2>4. CASE AddJobCallback
      BY <2>4, <1>7, <1>a DEF AddJobCallback, Deactivate
    <2>5. CASE AddPackageCallback
      BY <2>5, <1>7, <1>b DEF AddPackageCallback, Deactivate
    <2> QED BY <1>7, <2>1, <2>2, <2>3, <2>4, <2>5 DEF MainStep
  <1>8. CASE t \in Workers /\ TakeTask(t)
    BY <1>8, <1>a, <1>c, <1>d DEF TakeTask
  <1>9. CASE RunScript(t) BY <1>9, <1>a DEF RunScript, frame, Deactivate
  <1>10. CASE t \in Workers /\ Finish(t) BY <1>10, <1>a, <1>b, <1>c DEF Finish
  <1>11. CASE t = Watcher /\ HandleWatchedDir
    BY <1>11, <1>a, <1>d DEF HandleWatchedDir, frame
  <1>12. CreatePackage(t) => Unmoved(t) BY DEF CreatePackage, frame, Unmoved
  <1>13. CASE Decide(t)
    <2>1. UNCHANGED <<fin, ret>> /\ (UNCHANGED pc \/ Goto(t, "schedule"))
      BY <1>13 DEF Decide, frame
    <2> QED BY <1>13, <2>1, <1>a, <1>d DEF Decide
  <1>14. CASE AwaitDecision(t)
    <2>1. fin[t] \in Jobs /\ future[fin[t]] = "self"
      BY <1>14 DEF AwaitDecision, StageAgrees, HandlersAgree, Handling
    <2>2. fin' = fin /\ ret' = ret /\ future' = future /\ pc'[t] = "deactivate"
      BY <1>14, <1>a DEF AwaitDecision, frame, execution
    <2> QED BY <1>14, <2>1, <2>2 DEF AwaitDecision, Deactivate
  <1>15. SignalHandler \/ UNCHANGED vars => Unmoved(t)
    BY DEF SignalHandler, vars, frame, Unmoved
  <1>16. Acts(t) \/ Unmoved(t) BY <1>15, OneActs, OthersUnmoved
  <1> QED BY <1>1, <1>2, <1>3, <1>4, <1>5, <1>6, <1>7, <1>8, <1>9, <1>10, <1>11, <1>12,
             <1>13, <1>14, <1>16
          DEF Acts, CallbackStep, WorkerStep

(* Only the main thread registers the package callback, and it is then through
   with the job. *)
LEMMA CallbackMoves ==
    ASSUME StageAgrees, [Next]_vars, NEW j \in Jobs, "package" \in callbacks'[j]
    PROVE  \/ "package" \in callbacks[j]
           \/ pc[Main] = "addPkgCb" /\ fin[Main] = j /\ ~ Completes(Main)'
  <1> TypeOK /\ callbacks \in [Jobs -> SUBSET {"job", "package"}]
      /\ Main \in Threads
    BY DEF StageAgrees, TypeOK, Threads
  <1>1. CASE AddPackageCallback
    <2>1. CASE callbacks' = callbacks BY <2>1
    <2>2. CASE callbacks' # callbacks
      <3>1. /\ pc[Main] = "addPkgCb" /\ Resume(Main, "idle")
            /\ callbacks' = [callbacks EXCEPT ![fin[Main]] = @ \cup {"package"}]
        BY <1>1, <2>2 DEF AddPackageCallback
      <3>2. pc'[Main] = "idle" /\ ret'[Main] = "idle" BY <3>1, ResumeTypes DEF Pcs
      <3> QED BY <3>1, <3>2 DEF Completes
    <2> QED BY <2>1, <2>2
  <1>2. CASE AddJobCallback BY <1>2 DEF AddJobCallback
  <1>3. \A w \in Workers : Finish(w) => "package" \in callbacks[j] BY DEF Finish
  <1>4. \A t \in Threads : QueueStep(t) => UNCHANGED callbacks
    BY DEF QueueStep, Schedule, Acquire, Put, Defer, GetDip, GetSip, GetTransfer,
           GetDeferred, Activate, PutNowait, execution
  <1>5. \A t \in Workers \cup {Main} : CallbackStep(t) => UNCHANGED callbacks
    BY DEF CallbackStep, JobCallback, AwaitDecision, HandleFailure, PackageCallback,
           Deactivate, execution
  <1>6. MainStep => AddJobCallback \/ AddPackageCallback \/ UNCHANGED callbacks
    BY DEF MainStep, Loop, Get, Submit, execution
  <1>7. \A w \in Workers : WorkerStep(w) => Finish(w) \/ UNCHANGED callbacks
    BY DEF WorkerStep, TakeTask, RunScript, execution
  <1>8. SignalHandler \/ HandleWatchedDir => UNCHANGED callbacks
    BY DEF SignalHandler, HandleWatchedDir, execution
  <1>9. \A t \in RpcThreads : CreatePackage(t) \/ Decide(t) => UNCHANGED callbacks
    BY DEF CreatePackage, Decide, execution
  <1>10. UNCHANGED vars => UNCHANGED callbacks BY DEF vars, execution
  <1> QED BY <1>1, <1>2, <1>3, <1>4, <1>5, <1>6, <1>7, <1>8, <1>9, <1>10 DEF Next

(* Only deactivate_package gives a slot back. *)
LEMMA ActiveMoves ==
    ASSUME [Next]_vars, NEW p \in active, p \notin active'
    PROVE  \E t \in Threads : Deactivate(t) /\ p = PackageOf[fin[t]]
  <1>1. \A t \in Threads : QueueStep(t) => p \in active'
    BY DEF QueueStep, Schedule, Acquire, Put, Defer, GetDip, GetSip, GetTransfer,
           GetDeferred, Activate, PutNowait, slots
  <1>2. \A t : CallbackStep(t) => Deactivate(t) \/ UNCHANGED active
    BY DEF CallbackStep, JobCallback, AwaitDecision, HandleFailure, PackageCallback,
           slots
  <1>3. \A t : Deactivate(t) => p = PackageOf[fin[t]] BY DEF Deactivate
  <1>4. MainStep => UNCHANGED active
    BY DEF MainStep, Loop, Get, Submit, AddJobCallback, AddPackageCallback, slots
  <1>5. \A w : WorkerStep(w) => UNCHANGED active
    BY DEF WorkerStep, TakeTask, RunScript, Finish, slots
  <1>6. SignalHandler \/ HandleWatchedDir \/ UNCHANGED vars => UNCHANGED active
    BY DEF SignalHandler, HandleWatchedDir, vars, slots
  <1>7. \A t : CreatePackage(t) \/ Decide(t) => UNCHANGED active
    BY DEF CreatePackage, Decide, slots
  <1>8. Workers \cup {Main} \subseteq Threads BY DEF Threads
  <1> QED BY <1>1, <1>2, <1>3, <1>4, <1>5, <1>6, <1>7, <1>8 DEF Next

(* Only deactivate_package notes a late decision. *)
LEMMA LateMoves ==
    ASSUME [Next]_vars
    PROVE  \/ late' = late
           \/ \E t \in Threads : /\ Deactivate(t) /\ Taken(fin[t])
                                 /\ late' = late \cup {fin[t]}
  <1>1. \A t \in Threads : QueueStep(t) => UNCHANGED late
    BY DEF QueueStep, Schedule, Acquire, Put, Defer, GetDip, GetSip, GetTransfer,
           GetDeferred, Activate, PutNowait, slots
  <1>2. \A t : CallbackStep(t) => Deactivate(t) \/ UNCHANGED late
    BY DEF CallbackStep, JobCallback, AwaitDecision, HandleFailure, PackageCallback,
           slots
  <1>3. \A t : Deactivate(t) => \/ late' = late
                                \/ Taken(fin[t]) /\ late' = late \cup {fin[t]}
    BY DEF Deactivate
  <1>4. MainStep => UNCHANGED late
    BY DEF MainStep, Loop, Get, Submit, AddJobCallback, AddPackageCallback, slots
  <1>5. \A w : WorkerStep(w) => UNCHANGED late
    BY DEF WorkerStep, TakeTask, RunScript, Finish, slots
  <1>6. SignalHandler \/ HandleWatchedDir \/ UNCHANGED vars => UNCHANGED late
    BY DEF SignalHandler, HandleWatchedDir, vars, slots
  <1>7. \A t : CreatePackage(t) \/ Decide(t) => UNCHANGED late
    BY DEF CreatePackage, Decide, slots
  <1>8. Workers \cup {Main} \subseteq Threads BY DEF Threads
  <1> QED BY <1>1, <1>2, <1>3, <1>4, <1>5, <1>6, <1>7, <1>8 DEF Next

(* A package is no longer counted once it is deactivated in time. *)
LEMMA CountedMoves ==
    ASSUME [Next]_vars, NEW p, Counted(p), ~ Counted(p)'
    PROVE  \E t \in Threads : /\ Deactivate(t) /\ ~ Taken(fin[t])
                              /\ p = PackageOf[fin[t]]
  <1>1. late \subseteq late' BY LateMoves
  <1>2. p \in active /\ p \notin active' BY <1>1 DEF Counted, Late
  <1>3. PICK t \in Threads : Deactivate(t) /\ p = PackageOf[fin[t]]
    BY <1>2, ActiveMoves
  <1>4. Taken(fin[t]) => fin[t] \in late' BY <1>3 DEF Deactivate
  <1> QED BY <1>3, <1>4 DEF Counted, Late

(* A job gets to job_queue, the executor and a result only from the hands of a
   thread that its package admitted. *)
LEMMA SlotMoves ==
    ASSUME StageAgrees, [Next]_vars, NEW j \in Jobs, HasSlot(j)'
    PROVE  HasSlot(j) \/ \E t \in Threads : pc[t] \in Admitted /\ job[t] = j
  <1> DEFINE Slotted == {"queued", "executor", "running", "ran", "returned"}
             Wins == \E t \in Threads : pc[t] \in Admitted /\ job[t] = j
  <1> TypeOK /\ stage \in [Jobs -> Stages] BY DEF StageAgrees, TypeOK
  <1>1. stage'[j] \in Slotted BY DEF HasSlot
  <1>2. CASE stage'[j] = stage[j]
    <2>1. future[j] = "none" => future'[j] = "none" BY FuturesMove
    <2> QED BY <1>2, <2>1 DEF HasSlot
  <1>3. ASSUME stage'[j] # stage[j] PROVE Wins \/ HasSlot(j)
    <2>1. \A i, s : Move(i, s) => i = j /\ s \in Slotted
      BY <1>1, <1>3 DEF Move
    <2>2. ASSUME NEW t \in Threads, QueueStep(t) PROVE Wins
      <3>1. ~ Lose(t) BY <2>1 DEF Lose
      <3>2. ~ (GetDip(t) \/ GetSip(t) \/ GetTransfer(t))
        BY <1>3, <2>1 DEF GetDip, GetSip, GetTransfer, GetDeferred
      <3>3. ~ (Schedule(t) \/ Acquire(t) \/ Defer(t) \/ Activate(t))
        BY <1>3, <2>1, <3>1 DEF Schedule, Acquire, Defer, Activate
      <3>4. Put(t) \/ PutNowait(t) BY <2>2, <3>2, <3>3 DEF QueueStep
      <3> QED BY <3>4, <2>1, <3>1 DEF Put, PutNowait, Admitted
    <2>3. ASSUME NEW t \in Workers \cup {Main}, CallbackStep(t) PROVE FALSE
      <3>1. ~ JobCallback(t)
        <4> SUFFICES ASSUME JobCallback(t) PROVE FALSE OBVIOUS
        <4>1. fin[t] \in Jobs /\ stage[fin[t]] = "returned"
          BY Finished DEF JobCallback, Threads
        <4>2. /\ future[fin[t]] = "next"
              /\ stage' = [stage EXCEPT ![fin[t]] = "spent", ![NextOf[fin[t]]] = "held"]
          BY <1>3, <2>1 DEF JobCallback
        <4>3. NextOf[fin[t]] # NoJob BY <4>1, <4>2 DEF StageAgrees, FutureAgrees
        <4> QED BY <4>1, <4>2, <4>3, <1>1, <1>3, HandOverMove
      <3>2. ~ AwaitDecision(t) BY <2>1 DEF AwaitDecision
      <3> QED BY <2>3, <3>1, <3>2, <1>3
              DEF CallbackStep, HandleFailure, PackageCallback, Deactivate
    <2>4. ASSUME MainStep PROVE Wins
      <3>1. Submit BY <2>4, <2>1, <1>3
                   DEF MainStep, Loop, Get, AddJobCallback, AddPackageCallback
      <3>2. pc[Main] = "submit" /\ job[Main] = j BY <3>1, <2>1 DEF Submit
      <3> QED BY <3>2 DEF Admitted, Threads
    <2>5. ASSUME NEW w \in Workers, WorkerStep(w) PROVE HasSlot(j)
      <3>1. CASE TakeTask(w)
        <4>1. /\ Head(execQueue) = execQueue[1] /\ 1 \in 1..Len(execQueue)
          BY <3>1, TailFacts DEF TakeTask, StageAgrees, TypeOK
        <4>2. Head(execQueue).task = "run" /\ Head(execQueue).job = j
          BY <3>1, <2>1 DEF TakeTask
        <4>3. stage[j] = "executor" BY <4>1, <4>2 DEF StageAgrees, ExecQueueAgrees
        <4> QED BY <4>3 DEF HasSlot
      <3>2. CASE RunScript(w)
        <4>1. fin[w] \in Jobs /\ stage[fin[w]] = "running"
          BY <3>2 DEF RunScript, StageAgrees, HandlersAgree, Handling, Threads
        <4>2. j = fin[w] BY <3>2, <1>1, <1>3 DEF RunScript
        <4> QED BY <4>1, <4>2 DEF HasSlot
      <3>3. CASE Finish(w)
        <4>1. fin[w] \in Jobs /\ stage[fin[w]] \in {"running", "ran"}
          BY <3>3 DEF Finish, StageAgrees, HandlersAgree, Handling, Threads
        <4>2. j = fin[w] BY <3>3, <2>1 DEF Finish
        <4> QED BY <4>1, <4>2 DEF HasSlot
      <3> QED BY <2>5, <3>1, <3>2, <3>3 DEF WorkerStep
    <2>6. ~ (SignalHandler \/ HandleWatchedDir)
      BY <2>1, <1>3 DEF SignalHandler, HandleWatchedDir
    <2>7. ASSUME NEW t \in RpcThreads, CreatePackage(t) \/ Decide(t) PROVE FALSE
      <3>1. ~ CreatePackage(t)
        <4>1. ASSUME CreatePackage(t)
              PROVE  \E i \in Jobs : Move(i, "lost") \/ Move(i, "starting")
          BY <4>1 DEF CreatePackage, TypeOK
        <4> QED BY <4>1, <2>1
      <3>2. PICK i \in waiting :
                /\ NextOf[i] # NoJob
                /\ stage' = [stage EXCEPT ![i] = "spent", ![NextOf[i]] = "held"]
        BY <2>7, <2>1, <3>1 DEF Decide
      <3>3. i \in Jobs /\ stage[i] = "awaiting"
        BY DEF StageAgrees, TypeOK, SetsAgree
      <3> QED BY <3>2, <3>3, <1>1, <1>3, HandOverMove
    <2>8. ~ UNCHANGED vars BY <1>3 DEF vars
    <2> QED BY <2>2, <2>3, <2>4, <2>5, <2>6, <2>7, <2>8 DEF Next
  <1> QED BY <1>2, <1>3

(* A thread is admitted by an active package, or with a job that has a slot. *)
LEMMA AdmittedMoves ==
    ASSUME StageAgrees, [Next]_vars, NEW t \in Threads, pc'[t] \in Admitted
    PROVE  \/ pc[t] \in Admitted /\ job'[t] = job[t]
           \/ job'[t] \in Jobs /\ HasSlot(job'[t])
           \/ PackageOf[job'[t]] \in active'
  <1> /\ TypeOK /\ pc \in [Threads -> Pcs] /\ job \in [Threads -> Jobs \cup {NoJob}]
      /\ ret \in [Threads -> {"idle", "addPkgCb", "pkgCb", "startup"}]
    BY DEF StageAgrees, TypeOK
  <1>a. \A l : Goto(t, l) => pc'[t] = l BY DEF Goto
  <1>b. \A l : Resume(t, l) => pc'[t] = l BY <1>a DEF Resume
  <1>1. CASE Unmoved(t) BY <1>1 DEF Unmoved
  <1>2. CASE QueueStep(t)
    <2>1. ~ (Return(t) \/ Lose(t)) BY LeavesPlain
    <2>2. Acquire(t) \/ Activate(t)
      BY <1>2, <2>1, <1>a, <1>b
         DEF QueueStep, Schedule, Put, Defer, GetDip, GetSip, GetTransfer, GetDeferred,
             PutNowait, Admitted
    <2> QED BY <2>2, <1>a DEF Acquire, Activate, Admitted
  <1>3. CASE CallbackStep(t)
    BY <1>3, <1>a, <1>b, LeavesPlain
       DEF CallbackStep, JobCallback, AwaitDecision, HandleFailure, PackageCallback,
           Deactivate, Admitted
  <1>4. CASE t = Main /\ MainStep
    <2>1. Get
      BY <1>4, <1>a, <1>b DEF MainStep, Loop, Submit, AddJobCallback,
         AddPackageCallback, Admitted
    <2>2. jobQueue # <<>> /\ job'[t] = Head(jobQueue)
      BY <2>1, <1>4, <1>a DEF Get, Admitted, Take
    <2>3. /\ Head(jobQueue) \in Jobs /\ Head(jobQueue) = jobQueue[1]
          /\ 1 \in 1..Len(jobQueue)
      BY <2>2, TailFacts DEF TypeOK
    <2> QED BY <2>2, <2>3 DEF StageAgrees, JobQueueAgrees, HasSlot
  <1>5. CASE WorkerStep(t)
    BY <1>5, <1>a, <1>b DEF WorkerStep, TakeTask, RunScript, Finish, Admitted
  <1>6. CASE t = Watcher /\ HandleWatchedDir
    BY <1>6, <1>a DEF HandleWatchedDir, Admitted
  <1>7. CreatePackage(t) => Unmoved(t) BY DEF CreatePackage, frame, Unmoved
  <1>8. Decide(t) => Unmoved(t) \/ Goto(t, "schedule")
    BY DEF Decide, frame, Unmoved
  <1>9. SignalHandler \/ UNCHANGED vars => Unmoved(t)
    BY DEF SignalHandler, vars, frame, Unmoved
  <1>10. Acts(t) \/ Unmoved(t) BY <1>9, OneActs, OthersUnmoved
  <1> QED BY <1>1, <1>2, <1>3, <1>4, <1>5, <1>6, <1>7, <1>8, <1>10, <1>a DEF Acts, Admitted

(* A job that has ended stays so, and one that awaits a decision can only end. *)
LEMMA SpentStays ==
    ASSUME StageAgrees, StagesLocated, [Next]_vars, NEW j \in Jobs,
           stage[j] \in {"awaiting", "spent"}
    PROVE  stage'[j] \in {"awaiting", "spent"} /\ (stage[j] = "spent" => stage'[j] = "spent")
  <1>1. stage[j] \in Stages /\ stage'[j] \in Stages
    BY StepInv DEF StageAgrees, TypeOK
  <1>2. \A s \in Stages : /\ PhaseAt(s) = "ended" <=> s = "spent"
                          /\ PhaseAt(s) = "awaiting" <=> s = "awaiting"
    BY DEF PhaseAt, Pending, Stages
  <1>3. Life[j] = PhaseAt(stage[j]) /\ Life'[j] = PhaseAt(stage'[j]) BY DEF Life
  <1>4. Life[j] \in {"awaiting", "ended"} BY <1>1, <1>2, <1>3
  <1>5. \A d \in Jobs : DropsOf[d] \subseteq Jobs BY WorkflowAssumption
  <1>6. Life \in [Jobs -> {PhaseAt(s) : s \in Stages}]
    BY DEF Life, StageAgrees, TypeOK
  <1>7. Life'[j] \in {"awaiting", "ended"} /\ (Life[j] = "ended" => Life'[j] = "ended")
    <2>1. CASE UNCHANGED Life BY <2>1, <1>4
    <2>2. ASSUME LifeFlow!Next
          PROVE  Life'[j] \in {"awaiting", "ended"} /\ (Life[j] = "ended" => Life'[j] = "ended")
      <3>1. PICK k \in Jobs :
              \/ LifeFlow!Start(k) \/ LifeFlow!DropPackages(k) \/ LifeFlow!Return(k)
              \/ LifeFlow!Await(k) \/ LifeFlow!End(k) \/ LifeFlow!Drop(k)
        BY <2>2 DEF LifeFlow!Next
      <3> QED BY <3>1, <1>4, <1>6
              DEF LifeFlow!Start, LifeFlow!DropPackages, LifeFlow!Return, LifeFlow!Await,
                  LifeFlow!End, LifeFlow!Drop, LifeFlow!Become
    <2> QED BY <2>1, <2>2, StepLocated DEF FlowStep
  <1> QED BY <1>1, <1>2, <1>3, <1>7

(* A decision that was taken has ended, and does not wait again. *)
LEMMA TakenStays ==
    ASSUME StageAgrees, StagesLocated, [Next]_vars, NEW j \in Jobs,
           stage[j] \in {"awaiting", "spent"}, Taken(j)
    PROVE  stage[j] = "spent" /\ Taken(j)'
  <1>1. stage[j] = "spent" BY DEF Taken, StagesLocated, SetsHold
  <1>2. stage'[j] = "spent" BY <1>1, SpentStays
  <1>3. j \notin waiting' BY <1>2, StepInv DEF StageAgrees, SetsAgree
  <1>4. future'[j] = "self" BY FuturesMove DEF Taken
  <1> QED BY <1>1, <1>3, <1>4 DEF Taken

(* What the chain of a package has come to: a job that is there and has not
   ended, or whose end is final. *)
LEMMA LiveLatest ==
    ASSUME StageAgrees, ChainAgrees, NEW j \in Jobs,
           stage[j] \notin {"absent", "spent"} \/ future[j] \in {"raised", "none"}
    PROVE  Latest(j)
  <1>1. CASE stage[j] \notin {"absent", "spent"}
    BY <1>1 DEF Latest, StageAgrees, ForestAgrees
  <1>2. CASE future[j] \in {"raised", "none"}
    BY <1>2, SubmittedStarted DEF Latest, ChainAgrees, OrderAgrees
  <1> QED BY <1>1, <1>2

(* When a package loses its slot, and not for a decision that was taken, no job
   of it is left that needs one, and no other thread is about to give it back. *)
LEMMA DeactivateAlone ==
    ASSUME OneChainEach, StageAgrees, ChainAgrees, ThrottleAgrees,
           NEW u \in Threads, Deactivate(u), ~ Taken(fin[u]), NEW j \in Jobs,
           PackageOf[j] = PackageOf[fin[u]]
    PROVE  /\ ~ HasSlot(j) /\ stage[j] # "held"
           /\ \A t \in Threads : fin[t] = j =>
                /\ Closing(t) /\ ~ Taken(j) => t = u
                /\ Completes(t) /\ future[j] = "none" => t = u /\ ret[t] = "idle"
  <1> DEFINE Ends(i) == future[i] \in {"raised", "none"} \/ i \in waiting
  <1>1. Closing(u) /\ pc[u] = "deactivate" BY DEF Deactivate, Closing
  <1>2. fin[u] \in Jobs /\ Ends(fin[u])
    BY <1>1 DEF ThrottleAgrees, ClosingAgrees, Taken
  <1>3. \A i \in Jobs : Ends(i) => Latest(i)
    BY LiveLatest DEF StageAgrees, SetsAgree
  <1>4. \A i \in Jobs : Latest(i) /\ PackageOf[i] = PackageOf[fin[u]] => i = fin[u]
    BY <1>2, <1>3 DEF ChainAgrees
  <1>5. /\ future[fin[u]] = "raised" => stage[fin[u]] = "spent"
        /\ fin[u] \in waiting => stage[fin[u]] = "awaiting"
    BY <1>1 DEF ThrottleAgrees, ClosingAgrees, StageAgrees, SetsAgree
  <1>6. future[fin[u]] = "none" => Completes(u) /\ ret[u] = "idle"
    BY <1>1 DEF Completes, ThrottleAgrees, ClosingAgrees
  <1>7. stage[fin[u]] \in {"returned", "awaiting", "spent"}
    <2>1. stage[fin[u]] \in Stages BY <1>2 DEF StageAgrees, TypeOK
    <2> QED BY <1>2, <1>5, <2>1 DEF StageAgrees, FutureAgrees, Stages
  <1>8. ~ HasSlot(j) /\ stage[j] # "held"
    <2>1. HasSlot(j) \/ stage[j] = "held" => Latest(j) BY LiveLatest DEF HasSlot
    <2> QED BY <2>1, <1>2, <1>4, <1>5, <1>7 DEF HasSlot
  <1>9. ASSUME NEW t \in Threads, fin[t] = j, Closing(t), ~ Taken(j) PROVE t = u
    <2>1. Ends(j) BY <1>9 DEF ThrottleAgrees, ClosingAgrees, Taken
    <2>2. j = fin[u] BY <2>1, <1>3, <1>4
    <2>3. CASE future[j] \in {"raised", "self"}
      BY <2>2, <2>3, <1>1, <1>9 DEF ThrottleAgrees, ClosingAgrees
    <2>4. CASE future[j] = "none"
      <3>1. Completes(t)
        BY <2>4, <1>9 DEF Completes, Closing, ThrottleAgrees, ClosingAgrees
      <3> QED BY <3>1, <2>2, <2>4, <1>6, <1>9 DEF ThrottleAgrees, CompletesAgrees
    <2> QED BY <1>9, <2>3, <2>4 DEF ThrottleAgrees, ClosingAgrees
  <1>10. ASSUME NEW t \in Threads, fin[t] = j, Completes(t), future[j] = "none"
         PROVE  t = u /\ ret[t] = "idle"
    <2>1. j = fin[u] BY <1>3, <1>4, <1>10
    <2> QED BY <2>1, <1>6, <1>10 DEF ThrottleAgrees, CompletesAgrees
  <1> QED BY <1>8, <1>9, <1>10

(* Every job that waits for execution, or runs, keeps its package counted. *)
LEMMA StepSlots ==
    ASSUME OneChainEach, StageAgrees, ChainAgrees, ThrottleAgrees, [Next]_vars
    PROVE  SlotsAgree'
  <1>1. ASSUME NEW j \in Jobs, Counted(PackageOf[j]), HasSlot(j) \/ stage[j] = "held"
        PROVE  Counted(PackageOf[j])'
    <2>1. Counted(PackageOf[j]) => \/ Counted(PackageOf[j])'
                                   \/ \E t \in Threads : /\ Deactivate(t) /\ ~ Taken(fin[t])
                                                         /\ PackageOf[j] = PackageOf[fin[t]]
      BY CountedMoves
    <2> QED BY <1>1, <2>1, DeactivateAlone
  <1>2. \A t \in Threads : pc[t] \in Admitted =>
            /\ job[t] \in Jobs /\ stage[job[t]] = "held"
            /\ Counted(PackageOf[job[t]])
    BY InHand DEF Admitted, Holding, ThrottleAgrees, SlotsAgree
  <1>3. \A j \in Jobs : HasSlot(j) => Counted(PackageOf[j])
    BY DEF ThrottleAgrees, SlotsAgree
  <1>4. ASSUME NEW j \in Jobs, HasSlot(j)' PROVE Counted(PackageOf[j])'
    <2>1. CASE HasSlot(j) BY <2>1, <1>1, <1>3
    <2>2. CASE \E t \in Threads : pc[t] \in Admitted /\ job[t] = j
      BY <2>2, <1>1, <1>2
    <2> QED BY <2>1, <2>2, <1>4, SlotMoves
  <1>5. ASSUME NEW t \in Threads, pc'[t] \in Admitted
        PROVE  Counted(PackageOf[job[t]])'
    <2>1. CASE pc[t] \in Admitted /\ job'[t] = job[t]
      <3>1. job[t] \in Jobs /\ Counted(PackageOf[job[t]])' BY <2>1, <1>1, <1>2
      <3> QED BY <2>1, <3>1 DEF Counted, Late
    <2>2. CASE job'[t] \in Jobs /\ HasSlot(job'[t])
      <3> DEFINE j == job'[t]
      <3>1. \A i \in Jobs : HasSlot(i) => Counted(PackageOf[i])' BY <1>1, <1>3
      <3> QED BY <2>2, <3>1 DEF Counted, Late
    <2>3. CASE PackageOf[job'[t]] \in active' BY <2>3 DEF Counted
    <2> QED BY <2>1, <2>2, <2>3, <1>5, AdmittedMoves
  <1> QED BY <1>4, <1>5 DEF SlotsAgree

(* A thread that is about to give a slot back is the only one, and the slot is
   still counted, unless it is about to give back that of a decision taken. *)
LEMMA StepClosing ==
    ASSUME OneChainEach, StageAgrees, StagesLocated, ChainAgrees, ThrottleAgrees,
           [Next]_vars
    PROVE  ClosingAgrees'
  <1> DEFINE Stayed(t) == /\ Closing(t) /\ ret'[t] = ret[t]
                          /\ pc'[t] = "fail" => pc[t] = "fail"
                          /\ ~ Deactivate(t)
             Failed(t) == /\ pc[t] = "jobCb" /\ future[fin[t]] = "raised"
                          /\ pc'[t] = "fail" /\ stage'[fin[t]] = "spent"
                          /\ UNCHANGED <<active, late, future>>
             Ended(t) == /\ pc[t] = "pkgCb" /\ future[fin[t]] = "none"
                         /\ pc'[t] = "deactivate" /\ ret'[t] = "idle"
                         /\ UNCHANGED <<active, late, future>>
             Awaits(t) == /\ pc[t] = "await" /\ future[fin[t]] = "self"
                          /\ pc'[t] = "deactivate" /\ stage'[fin[t]] = "awaiting"
                          /\ UNCHANGED <<active, late, future>>
  <1>1. ASSUME NEW t \in Threads, Closing(t)'
        PROVE  fin'[t] = fin[t] /\ (Stayed(t) \/ Failed(t) \/ Ended(t) \/ Awaits(t))
    BY <1>1, ClosingMoves
  <1>2. ASSUME NEW t \in Threads, Closing(t)'
        PROVE  /\ fin[t] \in Jobs /\ future[fin[t]] \in {"raised", "none", "self"}
               /\ Taken(fin[t]) \/ Counted(PackageOf[fin[t]])
               /\ Failed(t) \/ Awaits(t) =>
                      stage[fin[t]] = "returned" /\ Counted(PackageOf[fin[t]])
               /\ Ended(t) => Counted(PackageOf[fin[t]])
    <2>1. CASE Stayed(t)
      BY <2>1, Finished DEF ThrottleAgrees, ClosingAgrees, Closing
    <2>2. CASE Failed(t) \/ Awaits(t)
      <3>1. fin[t] \in Jobs /\ stage[fin[t]] = "returned" BY <2>2, Finished
      <3> QED BY <3>1, <2>2 DEF ThrottleAgrees, SlotsAgree, HasSlot
    <2>3. CASE Ended(t)
      BY <2>3 DEF ThrottleAgrees, CompletesAgrees, Completes
    <2> QED BY <1>1, <1>2, <2>1, <2>2, <2>3
  <1>3. \A t \in Threads : Closing(t)' => future'[fin[t]] = future[fin[t]]
    BY <1>2, FuturesMove
  <1>4. ASSUME NEW t \in Threads, Closing(t)', Stayed(t), NEW j \in Jobs, j = fin[t]
        PROVE  /\ Taken(j)' \/ Counted(PackageOf[j])'
               /\ future[j] = "raised" => stage'[j] = "spent"
               /\ future[j] = "self" => stage'[j] \in {"awaiting", "spent"} /\ j \notin late'
    <2>1. /\ Closing(t) /\ (Taken(j) \/ Counted(PackageOf[j]))
          /\ future[j] = "raised" => stage[j] = "spent"
          /\ future[j] = "self" => stage[j] \in {"awaiting", "spent"} /\ j \notin late
      BY <1>4 DEF ThrottleAgrees, ClosingAgrees
    <2>2. /\ future[j] = "raised" => stage'[j] = "spent"
          /\ future[j] = "self" => stage'[j] \in {"awaiting", "spent"}
      BY <2>1, SpentStays
    <2>3. ASSUME Taken(j) PROVE Taken(j)'
      <3>1. stage[j] \in {"awaiting", "spent"} BY <2>1, <2>3 DEF Taken
      <3>2. Taken(j)' BY <2>3, <3>1, TakenStays
      <3> QED BY <3>2
    <2>4. ASSUME ~ Taken(j), NEW p, p = PackageOf[j] PROVE Counted(p)'
      <3>1. Counted(p) BY <2>1, <2>4
      <3>2. ASSUME NEW u \in Threads, Deactivate(u), ~ Taken(fin[u]), p = PackageOf[fin[u]]
            PROVE  FALSE
        <4>1. PackageOf[j] = PackageOf[fin[u]] BY <3>2, <2>4
        <4>2. \A v \in Threads : fin[v] = j /\ Closing(v) /\ ~ Taken(j) => v = u
          BY <4>1, <3>2, DeactivateAlone
        <4>3. t = u BY <4>2, <2>1, <2>4, <1>4
        <4> QED BY <4>3, <3>2, <1>4
      <3> QED BY <3>1, <3>2, CountedMoves
    <2>5. future[j] = "self" => j \notin late'
      <3>1. ASSUME NEW u \in Threads, Deactivate(u), fin[u] = j, future[j] = "self"
            PROVE  FALSE
        <4>1. Closing(u) BY <3>1 DEF Deactivate, Closing
        <4>2. t = u BY <4>1, <3>1, <2>1, <1>4 DEF ThrottleAgrees, ClosingAgrees
        <4> QED BY <4>2, <3>1, <1>4
      <3> QED BY <3>1, <2>1, LateMoves
    <2> QED BY <2>2, <2>3, <2>4, <2>5
  <1>5. ASSUME NEW t \in Threads, Closing(t)'
        PROVE  /\ Taken(fin[t])' \/ Counted(PackageOf[fin[t]])'
               /\ pc'[t] = "fail" => future[fin[t]] = "raised"
               /\ future[fin[t]] = "raised" => stage'[fin[t]] = "spent"
               /\ future[fin[t]] = "none" => ret'[t] = "idle"
               /\ future[fin[t]] = "self" => /\ stage'[fin[t]] \in {"awaiting", "spent"}
                                             /\ fin[t] \notin late'
    <2>1. CASE Stayed(t)
      <3>1. /\ pc'[t] = "fail" => future[fin[t]] = "raised"
            /\ future[fin[t]] = "none" => ret'[t] = "idle"
        BY <2>1 DEF ThrottleAgrees, ClosingAgrees
      <3>2. fin[t] \in Jobs /\ fin'[t] = fin[t] BY <1>1, <1>2, <1>5
      <3>3. \A j \in Jobs : j = fin[t] =>
                /\ Taken(j)' \/ Counted(PackageOf[j])'
                /\ future[j] = "raised" => stage'[j] = "spent"
                /\ future[j] = "self" =>
                       stage'[j] \in {"awaiting", "spent"} /\ j \notin late'
        BY <2>1, <1>4, <1>5
      <3> QED BY <3>1, <3>2, <3>3 DEF Taken, Counted, Late
    <2>2. ASSUME Failed(t) \/ Ended(t) \/ Awaits(t)
          PROVE  Counted(PackageOf[fin[t]])'
      <3>1. fin'[t] = fin[t] BY <1>1, <1>5
      <3>2. Counted(PackageOf[fin[t]]) BY <2>2, <1>2, <1>5
      <3>3. active' = active /\ late' = late BY <2>2
      <3> QED BY <3>1, <3>2, <3>3 DEF Counted, Late
    <2>3. CASE Failed(t) BY <2>2, <2>3
    <2>4. CASE Ended(t) BY <2>2, <2>4
    <2>5. CASE Awaits(t)
      <3>1. stage[fin[t]] = "returned" BY <2>5, <1>2, <1>5
      <3>2. fin[t] \notin late BY <3>1 DEF ThrottleAgrees, LateAgrees
      <3> QED BY <3>2, <2>2, <2>5
    <2> QED BY <1>1, <1>5, <2>1, <2>3, <2>4, <2>5
  <1>6. ASSUME NEW t \in Threads, NEW u \in Threads, Closing(t)', Closing(u)',
               fin[t] = fin[u], future[fin[t]] \in {"raised", "self"}
        PROVE  t = u
    <2> DEFINE Came(v) == Failed(v) \/ Awaits(v)
    <2>1. \A v \in {t, u} : Stayed(v) \/ Came(v) BY <1>1, <1>6
    <2>2. \A v \in {t, u} : Stayed(v) => stage[fin[v]] \in {"awaiting", "spent"}
      BY <1>6 DEF ThrottleAgrees, ClosingAgrees
    <2>3. \A v \in {t, u} : Came(v) => stage[fin[v]] = "returned" BY <1>2, <1>6
    <2>4. CASE Stayed(t) /\ Stayed(u) BY <2>4, <1>6 DEF ThrottleAgrees, ClosingAgrees
    <2>5. CASE Came(t) /\ Came(u)
      BY <2>5, <1>6 DEF StageAgrees, HandlersAgree, Handling
    <2> HIDE DEF Stayed, Came
    <2> QED BY <2>1, <2>2, <2>3, <2>4, <2>5, <1>6
  <1>7. \A t \in Threads : Closing(t)' =>
            /\ fin'[t] = fin[t] /\ future'[fin[t]] = future[fin[t]]
            /\ fin[t] \in Jobs /\ future[fin[t]] \in {"raised", "none", "self"}
            /\ (Taken(fin[t])' \/ Counted(PackageOf[fin[t]])')
    BY <1>1, <1>2, <1>3, <1>5
  <1> HIDE DEF Stayed, Failed, Ended, Awaits
  <1> QED BY <1>5, <1>6, <1>7 DEF ClosingAgrees

(* The same of a thread that will complete a package. *)
LEMMA StepCompletes ==
    ASSUME OneChainEach, StageAgrees, StagesLocated, ChainAgrees, ThrottleAgrees,
           [Next]_vars
    PROVE  CompletesAgrees'
  <1> DEFINE Stayed(t) == /\ Completes(t) /\ fin'[t] = fin[t]
                          /\ Deactivate(t) => ret[t] # "idle"
             Submitted(t) == t = Main /\ Submit /\ ~ shutdown
             Returned(t) == /\ t \in Workers /\ Finish(t) /\ fin'[t] = fin[t]
                            /\ "package" \in callbacks[fin[t]]
  <1>1. ASSUME NEW t \in Threads, Completes(t)'
        PROVE  Stayed(t) \/ Submitted(t) \/ Returned(t)
    BY <1>1, CompletesMoves DEF ThrottleAgrees
  <1>2. ASSUME NEW t \in Threads, Submitted(t)
        PROVE  /\ fin'[t] \in Jobs /\ stage[fin'[t]] = "held"
               /\ future'[fin'[t]] = "submitted"
               /\ callbacks'[fin'[t]] = {}
    <2>1. job[Main] \in Jobs /\ stage[job[Main]] = "held"
      BY <1>2, InHand DEF Submit, Holding
    <2>2. callbacks[job[Main]] = {} BY <2>1 DEF StageAgrees, CallbacksAgree
    <2> QED BY <1>2, <2>1, <2>2 DEF Submit, StageAgrees, TypeOK
  <1>3. ASSUME NEW t \in Threads, Returned(t)
        PROVE  /\ fin'[t] \in Jobs /\ fin[t] \in Jobs /\ HasSlot(fin[t])
               /\ future'[fin'[t]] \in Results
               /\ callbacks'[fin'[t]] = {} /\ UNCHANGED <<active, late>>
    <2>1. fin[t] \in Jobs /\ stage[fin[t]] \in {"running", "ran"}
      BY <1>3 DEF Finish, StageAgrees, HandlersAgree, Handling
    <2>2. \E r \in Results : future' = [future EXCEPT ![fin[t]] = r]
      BY <1>3 DEF Finish, ResultsOf, Results
    <2> QED BY <1>3, <2>1, <2>2 DEF Finish, StageAgrees, TypeOK, slots, HasSlot
  <1>4. ASSUME NEW t \in Threads, Completes(t), NEW u \in Threads, Completes(u)',
               fin'[u] = fin[t]
        PROVE  Stayed(u)
    <2>1. /\ fin[t] \in Jobs /\ future[fin[t]] # "unsubmitted"
          /\ "package" \notin callbacks[fin[t]]
      BY <1>4 DEF ThrottleAgrees, CompletesAgrees
    <2>2. ~ Submitted(u)
      BY <2>1, <1>2, <1>4 DEF StageAgrees, FutureAgrees
    <2>3. ~ Returned(u) BY <2>1, <1>4
    <2> QED BY <1>1, <1>4, <2>2, <2>3
  <1>5. ASSUME NEW t \in Threads, Stayed(t), future'[fin[t]] = "none"
        PROVE  Counted(PackageOf[fin[t]])'
    <2> DEFINE j == fin[t]
    <2>1. /\ j \in Jobs /\ future[j] # "unsubmitted"
          /\ future[j] = "none" => Counted(PackageOf[j])
      BY <1>5 DEF ThrottleAgrees, CompletesAgrees
    <2>2. future[j] \in {"none", "running"} BY <2>1, <1>5, FuturesMove
    <2>3. future[j] = "running" => HasSlot(j)
      BY <2>1 DEF HasSlot, StageAgrees, FutureAgrees
    <2>4. Counted(PackageOf[j]) BY <2>1, <2>2, <2>3 DEF ThrottleAgrees, SlotsAgree
    <2>5. ASSUME NEW u \in Threads, Deactivate(u), ~ Taken(fin[u]),
                 PackageOf[j] = PackageOf[fin[u]]
          PROVE  FALSE
      <3>1. future[j] = "none" BY <2>5, <2>1, <2>2, <2>3, DeactivateAlone
      <3>2. t = u /\ ret[t] = "idle" BY <3>1, <2>5, <2>1, <1>5, DeactivateAlone
      <3> QED BY <3>2, <2>5, <1>5
    <2>6. Counted(PackageOf[fin[t]]) /\ ~ Counted(PackageOf[fin[t]])' =>
              \E u \in Threads : /\ Deactivate(u) /\ ~ Taken(fin[u])
                                 /\ PackageOf[j] = PackageOf[fin[u]]
      <3> DEFINE p == PackageOf[j]
      <3>1. Counted(p) /\ p \notin active' /\ ~ (\E d \in late' : PackageOf[d] = p) =>
              \E u \in Threads : /\ Deactivate(u) /\ ~ Taken(fin[u])
                                 /\ p = PackageOf[fin[u]]
        <4> HIDE DEF p
        <4> QED BY CountedMoves DEF Counted, Late
      <3>2. fin'[t] = fin[t] BY <1>5
      <3> QED BY <3>1, <3>2 DEF Counted, Late
    <2> QED BY <2>4, <2>5, <2>6
  <1>6. ASSUME NEW t \in Threads, Completes(t)'
        PROVE  /\ fin'[t] \in Jobs /\ future'[fin'[t]] # "unsubmitted"
               /\ future'[fin'[t]] = "none" => Counted(PackageOf[fin[t]])'
               /\ "package" \notin callbacks'[fin'[t]]
    <2>1. CASE Stayed(t)
      <3>1. /\ fin[t] \in Jobs /\ future[fin[t]] # "unsubmitted"
            /\ "package" \notin callbacks[fin[t]]
        BY <2>1 DEF ThrottleAgrees, CompletesAgrees
      <3>2. future'[fin[t]] # "unsubmitted" BY <3>1, FuturesMove DEF Results
      <3>3. ASSUME "package" \in callbacks'[fin[t]] PROVE FALSE
        <4>1. pc[Main] = "addPkgCb" /\ fin[Main] = fin[t] /\ ~ Completes(Main)'
          BY <3>3, <3>1, CallbackMoves
        <4>2. Completes(Main) BY <4>1 DEF Completes
        <4> QED BY <4>1, <4>2, <2>1, <1>6 DEF Threads, ThrottleAgrees, CompletesAgrees
      <3>4. fin'[t] = fin[t] BY <2>1
      <3> QED BY <3>1, <3>2, <3>3, <3>4, <1>5, <2>1
    <2>2. CASE Submitted(t) BY <2>2, <1>2
    <2>3. CASE Returned(t)
      <3>1. fin'[t] = fin[t] BY <2>3
      <3>2. Counted(PackageOf[fin[t]])
        BY <2>3, <1>3 DEF ThrottleAgrees, SlotsAgree
      <3>3. Counted(PackageOf[fin[t]])' BY <3>1, <3>2, <2>3, <1>3 DEF Counted, Late
      <3> QED BY <3>3, <2>3, <1>3 DEF Results
    <2> QED BY <1>1, <1>6, <2>1, <2>2, <2>3
  <1>7. ASSUME NEW t \in Threads, NEW u \in Threads, Completes(t)', Completes(u)',
               fin'[t] = fin'[u]
        PROVE  t = u
    <2>1. Stayed(t) => Stayed(u) BY <1>4, <1>7
    <2>2. Stayed(u) => Stayed(t) BY <1>4, <1>7
    <2>3. CASE Stayed(t) /\ Stayed(u)
      BY <2>3, <1>7 DEF ThrottleAgrees, CompletesAgrees
    <2>4. CASE Submitted(t) /\ Submitted(u) BY <2>4
    <2>5. CASE Returned(t) /\ Returned(u)
      <3>1. /\ pc[t] \in Handling /\ pc[u] \in Handling
            /\ fin'[t] = fin[t] /\ fin'[u] = fin[u]
        BY <2>5 DEF Finish, Handling
      <3> QED BY <3>1, <1>7 DEF StageAgrees, HandlersAgree
    <2>6. CASE (Submitted(t) /\ Returned(u)) \/ (Returned(t) /\ Submitted(u))
      BY <2>6, <1>2, <1>3, <1>7 DEF Results
    <2>7. /\ Stayed(t) \/ Submitted(t) \/ Returned(t)
          /\ Stayed(u) \/ Submitted(u) \/ Returned(u)
      BY <1>1, <1>7
    <2> HIDE DEF Stayed, Submitted, Returned
    <2> QED BY <2>1, <2>2, <2>3, <2>4, <2>5, <2>6, <2>7
  <1> HIDE DEF Stayed, Submitted, Returned
  <1> QED BY <1>6, <1>7 DEF CompletesAgrees, Counted, Late

(* A late decision has been taken, and stays so. *)
LEMMA StepLate ==
    ASSUME StageAgrees, StagesLocated, ThrottleAgrees, [Next]_vars
    PROVE  LateAgrees'
  <1> SUFFICES ASSUME NEW d \in late'
               PROVE  d \in Jobs /\ stage'[d] = "spent" /\ future'[d] = "self"
    BY DEF LateAgrees
  <1>1. d \in Jobs /\ stage[d] = "spent" /\ future[d] = "self"
    <2>1. CASE d \in late BY <2>1 DEF ThrottleAgrees, LateAgrees
    <2>2. CASE d \notin late
      <3>1. PICK t \in Threads : Deactivate(t) /\ Taken(d) /\ d = fin[t]
        BY <2>2, LateMoves
      <3>2. d \in Jobs /\ stage[d] \in {"awaiting", "spent"}
        BY <3>1 DEF Deactivate, Closing, Taken, ThrottleAgrees, ClosingAgrees
      <3> QED BY <3>1, <3>2, TakenStays DEF Taken
    <2> QED BY <2>1, <2>2
  <1>2. stage'[d] = "spent" BY <1>1, SpentStays
  <1>3. future'[d] = "self" BY <1>1, FuturesMove
  <1> QED BY <1>1, <1>2, <1>3

(* No package has a slot yet, and no callback is running. *)
LEMMA InitThrottle == ASSUME Init PROVE ThrottleAgrees
  BY DEF Init, ThrottleAgrees, SlotsAgree, ClosingAgrees, CompletesAgrees, LateAgrees,
         HasSlot, Closing, Completes, Admitted

(* A slot is given back once, by one thread, when no job of its package is left
   that needs it; once more for each decision that was taken too early. *)
THEOREM AlwaysThrottleAgrees ==
    ASSUME OneChainEach
    PROVE  Spec => [](StageAgrees /\ StagesLocated /\ ChainAgrees /\ ThrottleAgrees)
  <1>1. Init => ThrottleAgrees BY InitThrottle
  <1>2. (StageAgrees /\ StagesLocated /\ ChainAgrees) /\ ThrottleAgrees /\ [Next]_vars
            => ThrottleAgrees'
    BY StepSlots, StepClosing, StepCompletes, StepLate DEF ThrottleAgrees
  <1> QED BY <1>1, <1>2, AlwaysChainAgrees, PTL DEF Spec

(* A job waits for execution only while its package is active, unless a decision
   of the package had been taken before await_decision deactivated it. *)
THEOREM AlwaysQueuedIsActive ==
    ASSUME OneChainEach
    PROVE  Spec => []QueuedIsActive
  <1>1. StageAgrees /\ ThrottleAgrees => QueuedIsActive
    <2> SUFFICES ASSUME StageAgrees, ThrottleAgrees, NEW i \in DOMAIN jobQueue
                 PROVE  Counted(PackageOf[jobQueue[i]])
      BY DEF QueuedIsActive, Counted
    <2>1. jobQueue \in Seq(Jobs) BY DEF StageAgrees, TypeOK
    <2>2. i \in 1..Len(jobQueue) BY <2>1
    <2>3. jobQueue[i] \in Jobs BY <2>2, Elements DEF StageAgrees
    <2>4. stage[jobQueue[i]] = "queued" BY <2>2 DEF StageAgrees, JobQueueAgrees
    <2> QED BY <2>3, <2>4 DEF ThrottleAgrees, SlotsAgree, HasSlot
  <1> QED BY <1>1, AlwaysThrottleAgrees, PTL
-----------------------------------------------------------------------------
(* How far the throttle can be exceeded                                    *)

(* A thread gets to activate a package by reading a count that left room, or
   by having given a slot back. *)
LEMMA ActivatingMoves ==
    ASSUME StageAgrees, [Next]_vars, NEW t \in Threads, t \in Activating', Acts(t)
    PROVE  \/ t \in Activating /\ UNCHANGED active
           \/ Cardinality(active) < MaxConcurrent /\ UNCHANGED active
           \/ Deactivate(t)
  <1> /\ TypeOK /\ pc \in [Threads -> Pcs] /\ room \in [Threads -> BOOLEAN]
      /\ ret \in [Threads -> {"idle", "addPkgCb", "pkgCb", "startup"}]
    BY DEF StageAgrees, TypeOK
  <1>a. \A l : Goto(t, l) => pc'[t] = l BY DEF Goto
  <1>b. \A l : Resume(t, l) => pc'[t] = l BY <1>a DEF Resume
  <1>c. /\ pc'[t] \in {"getDIP", "getSIP", "getTransfer", "activate", "defer"}
        /\ pc'[t] = "defer" => room'[t]
    BY DEF Activating
  <1>d. ASSUME Return(t) \/ Lose(t) PROVE FALSE
    <2>1. ret[t] \in {"idle", "addPkgCb", "pkgCb", "startup"} OBVIOUS
    <2>2. PICK l \in {"idle", "addPkgCb", "pkgCb", "stopped"} : Resume(t, l)
      BY <1>d, <2>1 DEF Lose, Return
    <2> QED BY <2>2, <1>b, <1>c
  <1>1. CASE Acquire(t)
    <2>1. CASE PackageOf[job[t]] \in active BY <2>1, <1>1, <1>a, <1>c DEF Acquire
    <2>2. CASE PackageOf[job[t]] \notin active
      <3>1. room' = [room EXCEPT ![t] = Cardinality(active) < MaxConcurrent]
        BY <2>2, <1>1 DEF Acquire
      <3>2. room'[t] = (Cardinality(active) < MaxConcurrent) BY <3>1
      <3>3. pc'[t] = "defer" BY <2>2, <1>1, <1>a DEF Acquire
      <3> QED BY <3>2, <3>3, <1>1, <1>c DEF Acquire
    <2> QED BY <2>1, <2>2
  <1>2. CASE Defer(t)
    BY <1>2, <1>c, <1>d DEF Defer, Activating, slots
  <1>3. CASE GetDip(t) \/ GetSip(t) \/ GetTransfer(t)
    BY <1>3 DEF GetDip, GetSip, GetTransfer, GetDeferred, Activating, slots
  <1>4. CASE Schedule(t) \/ Put(t) \/ Activate(t) \/ PutNowait(t)
    BY <1>4, <1>a, <1>c, <1>d DEF Schedule, Put, Activate, PutNowait
  <1>5. CASE CallbackStep(t)
    BY <1>5, <1>a, <1>b, <1>c, <1>d
       DEF CallbackStep, JobCallback, AwaitDecision, HandleFailure, PackageCallback
  <1>6. CASE t = Main /\ MainStep
    BY <1>6, <1>a, <1>b, <1>c
       DEF MainStep, Loop, Get, Submit, AddJobCallback, AddPackageCallback
  <1>7. CASE WorkerStep(t)
    BY <1>7, <1>a, <1>b, <1>c DEF WorkerStep, TakeTask, RunScript, Finish
  <1>8. CASE t = Watcher /\ HandleWatchedDir
    BY <1>8, <1>a, <1>c DEF HandleWatchedDir
  <1>9. CASE CreatePackage(t) \/ Decide(t)
    BY <1>9, <1>a, <1>c DEF CreatePackage, Decide, frame, slots
  <1> QED BY <1>1, <1>2, <1>3, <1>4, <1>5, <1>6, <1>7, <1>8, <1>9 DEF Acts, QueueStep

(* Only activate_package and deactivate_package write active_packages, and only
   the latter notes a late decision. *)
LEMMA ActiveKept ==
    ASSUME NEW t \in Threads, Acts(t), ~ Activate(t), ~ Deactivate(t)
    PROVE  UNCHANGED <<active, late>>
  <1>1. CASE QueueStep(t)
    BY <1>1 DEF QueueStep, Schedule, Acquire, Put, Defer, GetDip, GetSip, GetTransfer,
                GetDeferred, PutNowait, slots
  <1>2. CASE CallbackStep(t)
    BY <1>2 DEF CallbackStep, JobCallback, AwaitDecision, HandleFailure,
                PackageCallback, slots
  <1>3. CASE MainStep
    BY <1>3 DEF MainStep, Loop, Get, Submit, AddJobCallback, AddPackageCallback, slots
  <1>4. CASE WorkerStep(t) BY <1>4 DEF WorkerStep, TakeTask, RunScript, Finish, slots
  <1>5. CASE HandleWatchedDir \/ CreatePackage(t) \/ Decide(t)
    BY <1>5 DEF HandleWatchedDir, CreatePackage, Decide, slots
  <1> QED BY <1>1, <1>2, <1>3, <1>4, <1>5 DEF Acts

(* The threads of the server are finitely many. *)
LEMMA ThreadsFinite == IsFiniteSet(Threads)
  <1>1. /\ IsFiniteSet({}) /\ IsFiniteSet({} \cup {Main})
        /\ IsFiniteSet(({} \cup {Main}) \cup {Watcher})
    BY FS_EmptySet, FS_AddElement
  <1>2. {Main, Watcher} = ({} \cup {Main}) \cup {Watcher} OBVIOUS
  <1>3. IsFiniteSet({Main, Watcher} \cup Workers)
    BY <1>1, <1>2, PoolAssumption, FS_Union
  <1>4. IsFiniteSet(({Main, Watcher} \cup Workers) \cup RpcThreads)
    BY <1>3, PoolAssumption, FS_Union
  <1> QED BY <1>4 DEF Threads

\* Busy(p), and not for a thread that gives the slot back in this step
Kept(p) ==
    \/ \E j \in Jobs : PackageOf[j] = p /\ HasSlot(j)
    \/ \E t \in Threads : pc[t] \in Admitted /\ PackageOf[job[t]] = p
    \/ \E t \in Threads :
           /\ PackageOf[fin[t]] = p /\ ~ Taken(fin[t])
           /\ \/ Closing(t) /\ ~ Deactivate(t)
              \/ /\ Completes(t) /\ future[fin[t]] = "none"
                 /\ Deactivate(t) => ret[t] # "idle"

(* What is at work for a package was at work before, or is let in by a package
   that is active. *)
LEMMA BusyMoves ==
    ASSUME StageAgrees, StagesLocated, ThrottleAgrees, [Next]_vars, NEW p, Busy(p)'
    PROVE  Kept(p) \/ p \in active'
  <1>1. ASSUME NEW j \in Jobs, PackageOf[j] = p, HasSlot(j)' PROVE Kept(p)
    BY <1>1, SlotMoves DEF Kept
  <1>2. ASSUME NEW t \in Threads, pc'[t] \in Admitted, PackageOf[job'[t]] = p
        PROVE  Kept(p) \/ p \in active'
    BY <1>2, AdmittedMoves DEF Kept
  <1>3. ASSUME NEW t \in Threads, Closing(t)', ~ Taken(fin[t])', PackageOf[fin'[t]] = p
        PROVE  Kept(p)
    <2>1. fin'[t] = fin[t] BY <1>3, ClosingMoves
    <2>2. CASE Closing(t) /\ ~ Deactivate(t)
      <3>1. /\ fin[t] \in Jobs
            /\ future[fin[t]] = "self" => stage[fin[t]] \in {"awaiting", "spent"}
        BY <2>2 DEF ThrottleAgrees, ClosingAgrees
      <3>2. Taken(fin[t]) => Taken(fin[t])'
        <4> SUFFICES ASSUME Taken(fin[t]) PROVE Taken(fin[t])' OBVIOUS
        <4>1. stage[fin[t]] \in {"awaiting", "spent"} BY <3>1 DEF Taken
        <4>2. future'[fin[t]] = "self" /\ fin[t] \notin waiting'
          BY <4>1, <3>1, TakenStays DEF Taken
        <4> QED BY <4>2, <2>1 DEF Taken
      <3> QED BY <3>2, <2>1, <2>2, <1>3 DEF Kept
    <2>3. CASE pc[t] \in {"jobCb", "await"} /\ future[fin[t]] \in {"raised", "self"}
      <3>1. fin[t] \in Jobs /\ HasSlot(fin[t]) BY <2>3, Finished DEF HasSlot
      <3> QED BY <3>1, <2>1, <1>3 DEF Kept
    <2>4. CASE pc[t] = "pkgCb" /\ future[fin[t]] = "none"
      <3>1. Completes(t) /\ ~ Taken(fin[t]) /\ ~ Deactivate(t)
        BY <2>4 DEF Completes, Taken, Deactivate
      <3> QED BY <3>1, <2>1, <2>4, <1>3 DEF Kept
    <2> QED BY <1>3, <2>2, <2>3, <2>4, ClosingMoves
  <1>4. ASSUME NEW t \in Threads, Completes(t)', future'[fin'[t]] = "none",
               PackageOf[fin'[t]] = p
        PROVE  Kept(p)
    <2>1. CASE Completes(t) /\ fin'[t] = fin[t] /\ (Deactivate(t) => ret[t] # "idle")
      <3>1. fin[t] \in Jobs /\ future[fin[t]] # "unsubmitted"
        BY <2>1 DEF ThrottleAgrees, CompletesAgrees
      <3>2. future[fin[t]] \in {"none", "running"} BY <3>1, <2>1, <1>4, FuturesMove
      <3>3. CASE future[fin[t]] = "none" BY <3>3, <2>1, <1>4 DEF Kept, Taken
      <3>4. CASE future[fin[t]] = "running"
        <4>1. HasSlot(fin[t]) BY <3>1, <3>4 DEF HasSlot, StageAgrees, FutureAgrees
        <4> QED BY <4>1, <3>1, <2>1, <1>4 DEF Kept
      <3> QED BY <3>2, <3>3, <3>4
    <2>2. CASE t = Main /\ Submit /\ ~ shutdown
      <3>1. job[Main] \in Jobs BY <2>2, InHand DEF Submit, Holding
      <3> QED BY <3>1, <2>2, <1>4 DEF Submit, StageAgrees, TypeOK
    <2>3. CASE t \in Workers /\ Finish(t) /\ fin'[t] = fin[t]
      <3>1. fin[t] \in Jobs /\ stage[fin[t]] \in {"running", "ran"}
        BY <2>3 DEF Finish, StageAgrees, HandlersAgree, Handling
      <3> QED BY <3>1, <2>3, <1>4 DEF HasSlot, Kept
    <2> QED BY <1>4, <2>1, <2>2, <2>3, CompletesMoves DEF ThrottleAgrees
  <1> QED BY <1>1, <1>2, <1>3, <1>4 DEF Busy

(* A slot that is given back in time leaves nothing at work for its package. *)
LEMMA GivenBackInTime ==
    ASSUME OneChainEach, StageAgrees, StagesLocated, ChainAgrees, ThrottleAgrees,
           [Next]_vars, NEW u \in Threads, Deactivate(u), ~ Taken(fin[u]),
           NEW p, p = PackageOf[fin[u]]
    PROVE  p \in AtWork /\ p \notin AtWork'
  <1>1. Closing(u) BY DEF Deactivate, Closing
  <1>2. fin[u] \in Jobs BY <1>1 DEF ThrottleAgrees, ClosingAgrees
  <1>3. p \in AtWork BY <1>1, <1>2, WorkflowAssumption DEF AtWork, Busy
  <1>4. ASSUME Kept(p) PROVE FALSE
    <2>1. \A t \in Threads : pc[t] \in Admitted => job[t] \in Jobs /\ stage[job[t]] = "held"
      BY InHand DEF Admitted, Holding
    <2>2. ~ \E t \in Threads : pc[t] \in Admitted /\ PackageOf[job[t]] = p
      BY <2>1, DeactivateAlone
    <2>3. ~ \E j \in Jobs : PackageOf[j] = p /\ HasSlot(j) BY DeactivateAlone
    <2>4. ASSUME NEW t \in Threads, PackageOf[fin[t]] = p, ~ Taken(fin[t]),
                 Closing(t), ~ Deactivate(t)
          PROVE  FALSE
      <3>1. fin[t] \in Jobs BY <2>4 DEF ThrottleAgrees, ClosingAgrees
      <3>2. t = u BY <3>1, <2>4, DeactivateAlone
      <3> QED BY <3>2, <2>4
    <2>5. ASSUME NEW t \in Threads, PackageOf[fin[t]] = p, Completes(t),
                 future[fin[t]] = "none", Deactivate(t) => ret[t] # "idle"
          PROVE  FALSE
      <3>1. fin[t] \in Jobs BY <2>5 DEF ThrottleAgrees, CompletesAgrees
      <3>2. t = u /\ ret[t] = "idle" BY <3>1, <2>5, DeactivateAlone
      <3> QED BY <3>2, <2>5
    <2> QED BY <1>4, <2>2, <2>3, <2>4, <2>5 DEF Kept
  <1>5. p \notin active' BY DEF Deactivate
  <1>6. ~ Busy(p)' BY <1>4, <1>5, BusyMoves
  <1> QED BY <1>3, <1>5, <1>6 DEF AtWork

(* What is at work is active, or goes on after a late decision. *)
LEMMA BusyCounted ==
    ASSUME ThrottleAgrees, NEW p, Busy(p)
    PROVE  Counted(p)
  BY DEF Busy, ThrottleAgrees, SlotsAgree, ClosingAgrees, CompletesAgrees

(* What a step does to the packages at work and to the threads about to let one
   in. *)
LEMMA OvershootMoves ==
    ASSUME OneChainEach, StageAgrees, StagesLocated, ChainAgrees, ThrottleAgrees,
           [Next]_vars
    PROVE  \/ /\ AtWork' \subseteq AtWork /\ late' = late
              /\ Activating' \subseteq Activating
           \/ /\ AtWork' \subseteq AtWork /\ late' = late
              /\ Cardinality(active) < MaxConcurrent
           \/ \E p, t : /\ AtWork' \subseteq AtWork \cup {p} /\ late' = late
                        /\ t \in Activating /\ Activating' \subseteq Activating \ {t}
           \/ \E p, t : /\ p \in AtWork /\ AtWork' \subseteq AtWork \ {p} /\ late' = late
                        /\ Activating' \subseteq Activating \cup {t}
           \/ \E d, t : /\ AtWork' \subseteq AtWork
                        /\ d \notin late /\ late' = late \cup {d}
                        /\ Activating' \subseteq Activating \cup {t}
  <1> TypeOK /\ pc \in [Threads -> Pcs] BY DEF StageAgrees, TypeOK
  <1>0. \A p : Busy(p)' => Busy(p) \/ p \in active'
    BY BusyMoves DEF Kept, Busy
  <1>1. CASE SignalHandler \/ UNCHANGED vars
    BY <1>0, <1>1 DEF SignalHandler, vars, slots, frame, Activating, AtWork
  <1>2. ASSUME NEW t \in Threads, Acts(t)
        PROVE  Activating' \ {t} \subseteq Activating
    BY <1>2, OthersUnmoved DEF Activating, Unmoved
  <1>3. ASSUME NEW t \in Threads, Activate(t), Acts(t)
        PROVE  \E p : /\ AtWork' \subseteq AtWork \cup {p} /\ late' = late
                      /\ t \in Activating /\ Activating' \subseteq Activating \ {t}
    <2>1. pc'[t] = "putNowait" BY <1>3 DEF Activate, Goto
    <2>2. t \notin Activating' BY <2>1 DEF Activating
    <2>3. t \in Activating BY <1>3 DEF Activate, Activating
    <2>4. active' = active \cup {PackageOf[job[t]]} /\ late' = late
      BY <1>3 DEF Activate
    <2>5. AtWork' \subseteq AtWork \cup {PackageOf[job[t]]} BY <2>4, <1>0 DEF AtWork
    <2> QED BY <2>2, <2>3, <2>4, <2>5, <1>2, <1>3
  <1>4. ASSUME NEW t \in Threads, Deactivate(t), Acts(t)
        PROVE  /\ AtWork' \subseteq AtWork /\ Activating' \subseteq Activating \cup {t}
               /\ \/ fin[t] \notin late /\ late' = late \cup {fin[t]}
                  \/ /\ late' = late /\ PackageOf[fin[t]] \in AtWork
                     /\ AtWork' \subseteq AtWork \ {PackageOf[fin[t]]}
    <2>1. AtWork' \subseteq AtWork BY <1>4, <1>0 DEF AtWork, Deactivate
    <2>2. CASE Taken(fin[t])
      <3>1. fin[t] \notin late
        BY <2>2, <1>4 DEF Deactivate, Closing, Taken, ThrottleAgrees, ClosingAgrees
      <3> QED BY <3>1, <2>1, <2>2, <1>2, <1>4 DEF Deactivate
    <2>3. CASE ~ Taken(fin[t])
      <3>1. \A p : p = PackageOf[fin[t]] => p \in AtWork /\ p \notin AtWork'
        BY <2>3, <1>4, GivenBackInTime
      <3> QED BY <3>1, <2>1, <2>3, <1>2, <1>4 DEF Deactivate
    <2> QED BY <2>2, <2>3
  <1>5. ASSUME NEW t \in Threads, Acts(t), ~ Activate(t), ~ Deactivate(t)
        PROVE  /\ AtWork' \subseteq AtWork /\ late' = late
               /\ \/ Activating' \subseteq Activating
                  \/ Cardinality(active) < MaxConcurrent
    <2>1. active' = active /\ late' = late BY <1>5, ActiveKept
    <2>2. t \in Activating' => t \in Activating \/ Cardinality(active) < MaxConcurrent
      BY <1>5, ActivatingMoves
    <2>3. AtWork' \subseteq AtWork BY <2>1, <1>0 DEF AtWork
    <2> QED BY <2>1, <2>2, <2>3, <1>2, <1>5
  <1> QED BY <1>1, <1>3, <1>4, <1>5, OneActs

(* The packages at work are no more than those in active_packages and those of
   the late decisions. *)
LEMMA WorkCounted ==
    ASSUME StageAgrees, ThrottleAgrees, IsFiniteSet(AtWork), IsFiniteSet(late)
    PROVE  /\ IsFiniteSet(active) /\ Cardinality(active) <= Cardinality(AtWork)
           /\ Cardinality(AtWork) <= Cardinality(active) + Cardinality(late)
  <1> DEFINE f == [d \in late |-> PackageOf[d]]
             Kin == {PackageOf[d] : d \in late}
  <1>1. active \subseteq AtWork BY DEF AtWork, StageAgrees, TypeOK
  <1>2. IsFiniteSet(active) /\ Cardinality(active) <= Cardinality(AtWork)
    BY <1>1, FS_Subset
  <1>3. f \in Surjection(late, Kin) BY DEF Surjection
  <1>4. IsFiniteSet(Kin) /\ Cardinality(Kin) <= Cardinality(late)
    BY <1>3, FS_Surjection
  <1>5. AtWork \subseteq active \cup Kin
    BY BusyCounted DEF AtWork, Counted, Late
  <1>6. /\ IsFiniteSet(active \cup Kin)
        /\ Cardinality(active \cup Kin)
               = Cardinality(active) + Cardinality(Kin) - Cardinality(active \cap Kin)
    BY <1>2, <1>4, FS_Union
  <1>7. Cardinality(AtWork) <= Cardinality(active \cup Kin) BY <1>5, <1>6, FS_Subset
  <1>8. IsFiniteSet(active \cap Kin) BY <1>2, FS_Subset
  <1>9. /\ Cardinality(AtWork) \in Nat /\ Cardinality(active) \in Nat
        /\ Cardinality(Kin) \in Nat /\ Cardinality(late) \in Nat
        /\ Cardinality(active \cup Kin) \in Nat
        /\ Cardinality(active \cap Kin) \in Nat
    BY <1>2, <1>4, <1>6, <1>8, FS_CardinalityType
  <1> HIDE DEF Kin, f
  <1> QED BY <1>2, <1>4, <1>6, <1>7, <1>9

(* The throttle of CONCURRENT_PACKAGES is exceeded by less than one package per
   thread that looked at the count, or gave a slot back, and by one for each
   decision that was taken before await_decision gave its slot back. *)
THEOREM AlwaysOvershoot ==
    ASSUME OneChainEach
    PROVE  Spec => []Overshoot
  <1> DEFINE N == Cardinality(Threads)
             Agrees == StageAgrees /\ StagesLocated /\ ChainAgrees /\ ThrottleAgrees
  <1>0. MaxConcurrent \in Nat \ {0} BY CapacityAssumption
  <1>1. IsFiniteSet(Threads) /\ N \in Nat /\ N >= 1
    <2>1. IsFiniteSet(Threads) /\ N \in Nat BY ThreadsFinite, FS_CardinalityType
    <2>2. Main \in Threads BY DEF Threads
    <2>3. N # 0 BY <2>1, <2>2, FS_EmptySet
    <2> QED BY <2>1, <2>3
  <1>2. Init => WorkBounded
    <2> SUFFICES ASSUME Init PROVE WorkBounded OBVIOUS
    <2>1. \A p : ~ Busy(p)
      BY DEF Init, Busy, HasSlot, Closing, Completes, Admitted
    <2>2. AtWork = {} /\ Activating = {} /\ late = {}
      BY <2>1 DEF Init, Activating, AtWork
    <2> QED BY <2>2, <1>0, <1>1, FS_EmptySet DEF WorkBounded
  <1>3. ASSUME Agrees, WorkBounded, [Next]_vars PROVE WorkBounded'
    <2> DEFINE A == Cardinality(AtWork)
               C == Cardinality(Activating)
               L == Cardinality(late)
    <2>1. /\ IsFiniteSet(Activating) /\ C \in Nat /\ A \in Nat /\ L \in Nat
          /\ IsFiniteSet(Activating') /\ C' \in Nat /\ C' <= N
      <3>1. Activating \subseteq Threads /\ Activating' \subseteq Threads
        BY DEF Activating
      <3>2. IsFiniteSet(Activating) /\ IsFiniteSet(Activating') /\ C' <= N
        BY <3>1, <1>1, FS_Subset
      <3> QED BY <3>2, <1>3, FS_CardinalityType DEF WorkBounded
    <2>2. A + C <= MaxConcurrent + N - 1 + L BY <1>3 DEF WorkBounded
    <2>3. IsFiniteSet(AtWork) /\ IsFiniteSet(late) BY <1>3 DEF WorkBounded
    <2>4. ASSUME AtWork' \subseteq AtWork
          PROVE  IsFiniteSet(AtWork') /\ A' <= A /\ A' \in Nat
      <3>1. IsFiniteSet(AtWork') /\ A' <= A BY <2>3, <2>4, FS_Subset
      <3> QED BY <3>1, FS_CardinalityType
    <2>5. ASSUME NEW t, Activating' \subseteq Activating \cup {t} PROVE C' <= C + 1
      <3>1. /\ IsFiniteSet(Activating \cup {t})
            /\ Cardinality(Activating \cup {t}) = IF t \in Activating THEN C ELSE C + 1
        BY <2>1, FS_AddElement
      <3>2. C' <= Cardinality(Activating \cup {t}) BY <3>1, <2>5, FS_Subset
      <3> QED BY <3>1, <3>2, <2>1
    <2>6. ASSUME IsFiniteSet(AtWork'), late' = late, A' + C' <= MaxConcurrent + N - 1 + L
          PROVE  WorkBounded'
      BY <2>3, <2>6 DEF WorkBounded
    <2>7. CASE /\ AtWork' \subseteq AtWork /\ late' = late
               /\ Activating' \subseteq Activating
      <3>1. C' <= C BY <2>1, <2>7, FS_Subset
      <3>2. A' + C' <= MaxConcurrent + N - 1 + L
        BY <3>1, <2>1, <2>2, <2>4, <2>7, <1>0, <1>1
      <3> QED BY <3>2, <2>4, <2>6, <2>7
    <2>8. CASE /\ AtWork' \subseteq AtWork /\ late' = late
               /\ Cardinality(active) < MaxConcurrent
      <3>1. /\ IsFiniteSet(active) /\ A <= Cardinality(active) + L
        BY <2>3, <1>3, WorkCounted
      <3>2. Cardinality(active) \in Nat BY <3>1, FS_CardinalityType
      <3>3. A' + C' <= MaxConcurrent + N - 1 + L
        BY <3>1, <3>2, <2>1, <2>4, <2>8, <1>0, <1>1
      <3> QED BY <3>3, <2>4, <2>6, <2>8
    <2>9. ASSUME NEW p, NEW t \in Activating, AtWork' \subseteq AtWork \cup {p},
                 late' = late, Activating' \subseteq Activating \ {t}
          PROVE  WorkBounded'
      <3>1. /\ IsFiniteSet(AtWork \cup {p})
            /\ Cardinality(AtWork \cup {p}) = IF p \in AtWork THEN A ELSE A + 1
        BY <2>3, FS_AddElement
      <3>2. IsFiniteSet(AtWork') /\ A' <= Cardinality(AtWork \cup {p})
        BY <3>1, <2>9, FS_Subset
      <3>3. A' \in Nat BY <3>2, FS_CardinalityType
      <3>4. IsFiniteSet(Activating \ {t}) /\ Cardinality(Activating \ {t}) = C - 1
        BY <2>1, FS_RemoveElement
      <3>5. C' <= C - 1 BY <3>4, <2>9, FS_Subset
      <3>6. A' + C' <= MaxConcurrent + N - 1 + L
        BY <3>1, <3>2, <3>3, <3>5, <2>1, <2>2, <1>0, <1>1
      <3> QED BY <3>2, <3>6, <2>6, <2>9
    <2>10. ASSUME NEW p \in AtWork, NEW t, AtWork' \subseteq AtWork \ {p}, late' = late,
                  Activating' \subseteq Activating \cup {t}
           PROVE  WorkBounded'
      <3>1. IsFiniteSet(AtWork \ {p}) /\ Cardinality(AtWork \ {p}) = A - 1
        BY <2>3, FS_RemoveElement
      <3>2. IsFiniteSet(AtWork') /\ A' <= A - 1 BY <3>1, <2>10, FS_Subset
      <3>3. A' \in Nat BY <3>2, FS_CardinalityType
      <3>4. C' <= C + 1 BY <2>5, <2>10
      <3>5. A' + C' <= MaxConcurrent + N - 1 + L
        BY <3>2, <3>3, <3>4, <2>1, <2>2, <1>0, <1>1
      <3> QED BY <3>2, <3>5, <2>6, <2>10
    <2>11. ASSUME NEW d, NEW t, AtWork' \subseteq AtWork, d \notin late,
                  late' = late \cup {d}, Activating' \subseteq Activating \cup {t}
           PROVE  WorkBounded'
      <3>1. /\ IsFiniteSet(late \cup {d}) /\ Cardinality(late \cup {d}) = L + 1
        BY <2>3, <2>11, FS_AddElement
      <3>2. IsFiniteSet(late') /\ L' = L + 1 BY <3>1, <2>11
      <3>3. C' <= C + 1 BY <2>5, <2>11
      <3>4. IsFiniteSet(AtWork') /\ A' <= A /\ A' \in Nat BY <2>4, <2>11
      <3>5. A' + C' <= MaxConcurrent + N - 1 + L'
        BY <3>2, <3>3, <3>4, <2>1, <2>2, <1>0, <1>1
      <3> QED BY <3>2, <3>4, <3>5 DEF WorkBounded
    <2> QED BY <2>7, <2>8, <2>9, <2>10, <2>11, <1>3, OvershootMoves
  <1>4. ASSUME Agrees, WorkBounded PROVE Overshoot
    <2>1. /\ IsFiniteSet(active) /\ Cardinality(active) <= Cardinality(AtWork)
      BY <1>4, WorkCounted DEF WorkBounded
    <2>2. IsFiniteSet(Activating)
      <3>1. Activating \subseteq Threads BY DEF Activating
      <3> QED BY <3>1, <1>1, FS_Subset
    <2>3. /\ Cardinality(active) \in Nat /\ Cardinality(AtWork) \in Nat
          /\ Cardinality(Activating) \in Nat /\ Cardinality(late) \in Nat
      BY <1>4, <2>1, <2>2, FS_CardinalityType DEF WorkBounded
    <2> QED BY <2>1, <2>3, <1>0, <1>1, <1>4 DEF Overshoot, WorkBounded
  <1> QED BY <1>2, <1>3, <1>4, AlwaysThrottleAgrees, PTL DEF Spec
-----------------------------------------------------------------------------
(* Who gives a slot back                                                   *)

\* The stages before a job is handed to the executor to run
Before == {"watched", "submitted", "starting", "held", "deferred", "queued"}

(* What a thread does next, by where it stands. *)
LEMMA ActsAt ==
    ASSUME NEW t \in Threads, Acts(t)
    PROVE  /\ pc[t] = "running" => t \in Workers /\ (RunScript(t) \/ Finish(t))
           /\ pc[t] = "returning" => t \in Workers /\ Finish(t)
           /\ pc[t] = "jobCb" => JobCallback(t)
           /\ pc[t] = "await" => AwaitDecision(t)
           /\ pc[t] = "fail" => HandleFailure(t)
           /\ pc[t] = "pkgCb" => PackageCallback(t)
           /\ pc[t] = "deactivate" => Deactivate(t)
           /\ pc[t] = "addJobCb" => t = Main /\ AddJobCallback
           /\ pc[t] = "addPkgCb" => t = Main /\ AddPackageCallback
           /\ pc[t] \in {"get", "submit"} => t = Main /\ MainStep
           /\ pc[t] \in {"schedule", "acquire", "put", "defer", "getDIP", "getSIP",
                         "getTransfer", "activate", "putNowait"} => QueueStep(t)
           /\ pc[t] # "stopped"
  <1>1. CASE QueueStep(t)
    BY <1>1 DEF QueueStep, Schedule, Acquire, Put, Defer, GetDip, GetSip, GetTransfer,
                GetDeferred, Activate, PutNowait
  <1>2. CASE CallbackStep(t)
    BY <1>2 DEF CallbackStep, JobCallback, AwaitDecision, HandleFailure,
                PackageCallback, Deactivate
  <1>3. CASE t = Main /\ MainStep
    BY <1>3 DEF MainStep, Loop, Get, Submit, AddJobCallback, AddPackageCallback
  <1>4. CASE t \in Workers /\ WorkerStep(t)
    BY <1>4 DEF WorkerStep, TakeTask, RunScript, Finish
  <1>5. CASE t = Watcher /\ HandleWatchedDir BY <1>5 DEF HandleWatchedDir
  <1>6. CASE CreatePackage(t) \/ Decide(t) BY <1>6 DEF CreatePackage, Decide
  <1> QED BY <1>1, <1>2, <1>3, <1>4, <1>5, <1>6 DEF Acts

(* The life of a job, step by step, with the action that makes each step. *)
LEMMA StageMoves ==
    ASSUME StageAgrees, [Next]_vars, NEW j \in Jobs, stage'[j] # stage[j]
    PROVE  \/ stage'[j] = "lost"
           \/ stage[j] \in Before \cup {"absent"} /\ stage'[j] \in Before
           \/ /\ stage[j] = "held" /\ stage'[j] = "executor"
              /\ Submit /\ ~ shutdown /\ job[Main] = j
           \/ /\ stage[j] = "executor" /\ stage'[j] = "running"
              /\ \E w \in Workers : pc'[w] = "running" /\ fin'[w] = j
           \/ /\ stage[j] = "running" /\ stage'[j] = "ran"
              /\ \E w \in Workers : RunScript(w) /\ fin[w] = j
           \/ /\ stage[j] \in {"running", "ran"} /\ stage'[j] = "returned"
              /\ \E w \in Workers : Finish(w) /\ fin[w] = j
           \/ /\ stage[j] = "returned" /\ stage'[j] \in {"spent", "awaiting"}
              /\ \E t \in Threads :
                    (JobCallback(t) \/ AwaitDecision(t)) /\ fin[t] = j
           \/ /\ stage[j] = "awaiting" /\ stage'[j] = "spent"
              /\ \/ NextOf[j] = NoJob
                 \/ stage' = [stage EXCEPT ![j] = "spent", ![NextOf[j]] = "held"]
  <1> TypeOK /\ stage \in [Jobs -> Stages] BY DEF StageAgrees, TypeOK
  <1>1. \A i, s : Move(i, s) => i = j /\ s = stage'[j] BY DEF Move
  <1>2. ASSUME NEW t \in Threads, QueueStep(t)
        PROVE  stage'[j] = "lost" \/ (stage[j] \in Before /\ stage'[j] \in Before)
    <2>1. pc[t] \in Holding => stage[job[t]] = "held" BY InHand
    <2>2. Lose(t) => stage'[j] = "lost" BY <1>1 DEF Lose
    <2>3. ASSUME NEW ty \in Types, NEW here, NEW Otherwise,
                 GetDeferred(t, ty, here, Otherwise)
          PROVE  stage[j] \in Before /\ stage'[j] \in Before
      <3>1. deferred[ty] # <<>> /\ Move(Head(deferred[ty]), "held")
        BY <2>3 DEF GetDeferred
      <3>2. /\ Head(deferred[ty]) = deferred[ty][1]
            /\ 1 \in 1..Len(deferred[ty])
        BY <3>1, Elements, TailFacts DEF StageAgrees
      <3> QED BY <3>1, <3>2, <1>1 DEF StageAgrees, DeferredAgrees, Before
    <2>4. CASE GetDip(t) BY <2>4, <2>3 DEF GetDip, Types
    <2>5. CASE GetSip(t) BY <2>5, <2>3 DEF GetSip, Types
    <2>6. CASE GetTransfer(t) BY <2>6, <2>3 DEF GetTransfer, Types
    <2>7. CASE Put(t) \/ PutNowait(t)
      BY <2>7, <2>1, <2>2, <1>1 DEF Put, PutNowait, Holding, Before
    <2>8. CASE Schedule(t) \/ Defer(t)
      BY <2>8, <2>1, <2>2, <1>1 DEF Schedule, Defer, Holding, Before
    <2>9. ~ (Acquire(t) \/ Activate(t)) BY DEF Acquire, Activate
    <2> QED BY <1>2, <2>4, <2>5, <2>6, <2>7, <2>8, <2>9 DEF QueueStep
  <1>3. ASSUME NEW t \in Workers \cup {Main}, CallbackStep(t)
        PROVE  \/ stage[j] = "absent" /\ stage'[j] \in Before
               \/ /\ stage[j] = "returned" /\ stage'[j] \in {"spent", "awaiting"}
                  /\ (JobCallback(t) \/ AwaitDecision(t)) /\ fin[t] = j
    <2> t \in Threads BY DEF Threads
    <2>1. JobCallback(t) \/ AwaitDecision(t)
      BY <1>3 DEF CallbackStep, HandleFailure, PackageCallback, Deactivate
    <2>2. fin[t] \in Jobs /\ stage[fin[t]] = "returned"
      BY <2>1, Finished DEF JobCallback, AwaitDecision
    <2>3. CASE \E s \in {"spent", "awaiting"} : Move(fin[t], s)
      BY <2>1, <2>2, <2>3, <1>1
    <2>4. CASE /\ future[fin[t]] = "next"
               /\ stage' = [stage EXCEPT ![fin[t]] = "spent", ![NextOf[fin[t]]] = "held"]
               /\ JobCallback(t)
      <3>1. NextOf[fin[t]] # NoJob BY <2>2, <2>4 DEF StageAgrees, FutureAgrees
      <3> QED BY <2>2, <2>4, <3>1, HandOverMove DEF Before
    <2> QED BY <2>1, <2>3, <2>4 DEF JobCallback, AwaitDecision
  <1>4. ASSUME MainStep
        PROVE  \/ stage'[j] = "lost" \/ (stage[j] \in Before /\ stage'[j] \in Before)
               \/ /\ stage[j] = "held" /\ stage'[j] = "executor"
                  /\ Submit /\ ~ shutdown /\ job[Main] = j
    <2>1. CASE Get
      <3>1. jobQueue # <<>> /\ Move(Head(jobQueue), "held") BY <2>1 DEF Get
      <3>2. Head(jobQueue) = jobQueue[1] /\ 1 \in 1..Len(jobQueue)
        BY <3>1, TailFacts DEF TypeOK
      <3> QED BY <3>1, <3>2, <1>1 DEF StageAgrees, JobQueueAgrees, Before
    <2>2. CASE Submit
      <3>1. stage[job[Main]] = "held" BY <2>2, InHand DEF Submit, Holding, Threads
      <3> QED BY <2>2, <3>1, <1>1 DEF Submit
    <2> QED BY <1>4, <2>1, <2>2 DEF MainStep, Loop, AddJobCallback, AddPackageCallback
  <1>5. ASSUME NEW w \in Workers, WorkerStep(w)
        PROVE  \/ stage[j] \in Before \cup {"absent"} /\ stage'[j] \in Before
               \/ /\ stage[j] = "executor" /\ stage'[j] = "running"
                  /\ pc'[w] = "running" /\ fin'[w] = j
               \/ /\ stage[j] = "running" /\ stage'[j] = "ran"
                  /\ RunScript(w) /\ fin[w] = j
               \/ /\ stage[j] \in {"running", "ran"} /\ stage'[j] = "returned"
                  /\ Finish(w) /\ fin[w] = j
    <2> w \in Threads BY DEF Threads
    <2>1. CASE TakeTask(w)
      <3>1. Head(execQueue) = execQueue[1] /\ 1 \in 1..Len(execQueue)
        BY <2>1, TailFacts DEF TakeTask, TypeOK
      <3>2. CASE Head(execQueue).task = "run"
        <4>1. /\ Head(execQueue).job = j /\ stage'[j] = "running"
              /\ fin' = [fin EXCEPT ![w] = j] /\ Goto(w, "running")
          BY <2>1, <3>2, <1>1 DEF TakeTask
        <4>2. pc'[w] = "running" /\ fin'[w] = j BY <4>1 DEF Goto, TypeOK
        <4> QED BY <3>1, <3>2, <4>1, <4>2 DEF StageAgrees, ExecQueueAgrees
      <3>3. CASE Head(execQueue).task # "run"
        <4>1. Head(execQueue).job = j /\ stage'[j] = "held"
          BY <2>1, <3>3, <1>1 DEF TakeTask
        <4> QED BY <3>1, <3>3, <4>1 DEF StageAgrees, ExecQueueAgrees, Before
      <3> QED BY <3>2, <3>3
    <2>2. CASE RunScript(w)
      <3>1. fin[w] \in Jobs /\ stage[fin[w]] = "running"
        BY <2>2 DEF RunScript, StageAgrees, HandlersAgree, Handling
      <3>2. j \in DropsOf[fin[w]] => stage[j] = "absent"
        BY <3>1 DEF StageAgrees, ForestAgrees
      <3> QED BY <2>2, <3>1, <3>2 DEF RunScript, Before
    <2>3. CASE Finish(w)
      <3>1. fin[w] \in Jobs /\ stage[fin[w]] \in {"running", "ran"}
        BY <2>3 DEF Finish, StageAgrees, HandlersAgree, Handling
      <3> QED BY <2>3, <3>1, <1>1 DEF Finish
    <2> QED BY <1>5, <2>1, <2>2, <2>3 DEF WorkerStep
  <1>6. ASSUME HandleWatchedDir PROVE stage[j] \in Before /\ stage'[j] \in Before
    BY <1>6, <1>1 DEF HandleWatchedDir, StageAgrees, SetsAgree, Before
  <1>7. ASSUME NEW t \in RpcThreads, CreatePackage(t)
        PROVE  \/ stage'[j] = "lost"
               \/ stage[j] \in Before /\ stage'[j] \in Before
    <2>1. PICK i \in submitted : Move(i, "lost") \/ Move(i, "starting")
      BY <1>7 DEF CreatePackage
    <2> QED BY <2>1, <1>1 DEF StageAgrees, SetsAgree, Before
  <1>8. ASSUME NEW t \in RpcThreads, Decide(t)
        PROVE  \/ stage[j] = "absent" /\ stage'[j] \in Before
               \/ /\ stage[j] = "awaiting" /\ stage'[j] = "spent"
                  /\ \/ NextOf[j] = NoJob
                     \/ stage' = [stage EXCEPT ![j] = "spent", ![NextOf[j]] = "held"]
    <2>1. PICK i \in waiting :
            \/ NextOf[i] = NoJob /\ Move(i, "spent")
            \/ /\ NextOf[i] # NoJob
               /\ stage' = [stage EXCEPT ![i] = "spent", ![NextOf[i]] = "held"]
      BY <1>8 DEF Decide
    <2>2. i \in Jobs /\ stage[i] = "awaiting"
      BY DEF StageAgrees, TypeOK, SetsAgree
    <2>3. CASE NextOf[i] = NoJob BY <2>1, <2>2, <2>3, <1>1
    <2>4. CASE NextOf[i] # NoJob BY <2>1, <2>2, <2>4, HandOverMove DEF Before
    <2> QED BY <2>3, <2>4
  <1>9. ~ (SignalHandler \/ UNCHANGED vars) BY DEF SignalHandler, vars
  <1>10. Workers \cup {Main} \subseteq Threads BY DEF Threads
  <1> QED BY <1>2, <1>3, <1>4, <1>5, <1>6, <1>7, <1>8, <1>9, <1>10 DEF Next

(* A thread moves by a step of its own, or not at all. *)
LEMMA MovesOrNot ==
    ASSUME StageAgrees, [Next]_vars, NEW t \in Threads
    PROVE  Acts(t) \/ Unmoved(t)
  <1>1. SignalHandler \/ UNCHANGED vars => Unmoved(t)
    BY DEF SignalHandler, vars, frame, Unmoved
  <1> QED BY <1>1, OneActs, OthersUnmoved DEF StageAgrees

(* A job that runs or returned is in the hands of a thread. *)
LEMMA StepRunning ==
    ASSUME StageAgrees, RunningHeld, CallbacksHold, [Next]_vars
    PROVE  RunningHeld'
  <1> TypeOK /\ pc \in [Threads -> Pcs] /\ fin \in [Threads -> Jobs \cup {NoJob}]
      /\ stage \in [Jobs -> Stages] /\ Workers \subseteq Threads /\ Main \in Threads
    BY DEF StageAgrees, TypeOK, Threads
  <1>a. \A t \in Threads : \A l : Goto(t, l) => pc'[t] = l BY DEF Goto
  <1>b. ASSUME NEW w \in Workers, Finish(w)
        PROVE  /\ fin[w] \in Jobs /\ stage'[fin[w]] = "returned"
               /\ stage[fin[w]] \in {"running", "ran"}
    <2>1. fin[w] \in Jobs /\ stage[fin[w]] \in {"running", "ran"}
      BY <1>b DEF Finish, StageAgrees, HandlersAgree, Handling
    <2> QED BY <1>b, <2>1, LifeMoves DEF Finish
  <1>c. ASSUME NEW w \in Workers, RunScript(w)
        PROVE  /\ fin[w] \in Jobs /\ stage'[fin[w]] = "ran"
               /\ pc'[w] = "returning" /\ fin'[w] = fin[w]
    <2>1. fin[w] \in Jobs /\ stage[fin[w]] = "running"
      BY <1>c DEF RunScript, StageAgrees, HandlersAgree, Handling
    <2>2. fin[w] \notin DropsOf[fin[w]] BY <2>1 DEF StageAgrees, ForestAgrees
    <2> QED BY <1>a, <1>c, <2>1, <2>2 DEF RunScript, frame
  <1>1. ASSUME NEW j \in Jobs, stage'[j] = "running"
        PROVE  \E t \in Threads : pc'[t] = "running" /\ fin'[t] = j
    <2>1. CASE stage[j] = "running"
      <3>1. PICK t \in Threads : pc[t] = "running" /\ fin[t] = j
        BY <2>1 DEF RunningHeld
      <3>2. ~ Acts(t) BY <3>1, <1>1, <1>b, <1>c, ActsAt
      <3> QED BY <3>1, <3>2, MovesOrNot DEF Unmoved
    <2>2. CASE stage[j] # "running" BY <2>2, <1>1, StageMoves DEF Before
    <2> QED BY <2>1, <2>2
  <1>2. ASSUME NEW j \in Jobs, stage'[j] = "ran"
        PROVE  \E t \in Threads : pc'[t] = "returning" /\ fin'[t] = j
    <2>1. CASE stage[j] = "ran"
      <3>1. PICK t \in Threads : pc[t] = "returning" /\ fin[t] = j
        BY <2>1 DEF RunningHeld
      <3>2. ~ Acts(t) BY <3>1, <1>2, <1>b, ActsAt
      <3> QED BY <3>1, <3>2, MovesOrNot DEF Unmoved
    <2>2. CASE stage[j] # "ran" BY <2>2, <1>2, <1>c, StageMoves DEF Before
    <2> QED BY <2>1, <2>2
  <1>3. ASSUME NEW j \in Jobs, stage'[j] = "returned", stage[j] # "returned"
        PROVE  \E t \in Threads : pc'[t] \in {"jobCb", "await", "addJobCb"} /\ fin'[t] = j
    <2>1. PICK w \in Workers : /\ Finish(w) /\ fin[w] = j
                               /\ stage[j] \in {"running", "ran"}
      BY <1>3, StageMoves DEF Before
    <2>2. CASE "job" \in callbacks[j] BY <1>a, <2>1, <2>2 DEF Finish
    <2>3. CASE "job" \notin callbacks[j]
      <3>1. pc[Main] = "addJobCb" /\ fin[Main] = j BY <2>1, <2>3 DEF CallbacksHold
      <3>2. ~ Acts(Main) \/ AddJobCallback BY <3>1, ActsAt
      <3>3. ~ AddJobCallback BY <2>1, <1>3 DEF AddJobCallback
      <3> QED BY <3>1, <3>2, <3>3, MovesOrNot DEF Unmoved
    <2> QED BY <2>2, <2>3
  <1>4. ASSUME NEW j \in Jobs, stage'[j] = "returned", stage[j] = "returned"
        PROVE  \E t \in Threads : pc'[t] \in {"jobCb", "await", "addJobCb"} /\ fin'[t] = j
    <2>1. PICK t \in Threads : pc[t] \in {"jobCb", "await", "addJobCb"} /\ fin[t] = j
      BY <1>4 DEF RunningHeld
    <2>2. CASE Unmoved(t) BY <2>1, <2>2 DEF Unmoved
    <2>3. CASE Acts(t) /\ pc[t] = "jobCb"
      <3>1. JobCallback(t) BY <2>3, ActsAt
      <3>2. ~ Move(j, "spent") BY <1>4 DEF Move
      <3>3. future[j] # "next" \/ stage'[j] = "spent"
        <4>1. CASE future[j] = "next"
          <5>1. NextOf[j] # NoJob BY <4>1 DEF StageAgrees, FutureAgrees
          <5>2. stage' = [stage EXCEPT ![j] = "spent", ![NextOf[j]] = "held"]
            BY <4>1, <3>1, <2>1 DEF JobCallback
          <5> QED BY <5>1, <5>2, <1>4, HandOverMove
        <4> QED BY <4>1
      <3>4. Goto(t, "await") /\ UNCHANGED fin
        BY <2>1, <3>1, <3>2, <3>3, <1>4 DEF JobCallback
      <3> QED BY <3>4, <2>1, <1>a
    <2>4. CASE Acts(t) /\ pc[t] = "await"
      <3>1. Move(j, "awaiting") BY <2>1, <2>4, ActsAt DEF AwaitDecision
      <3> QED BY <3>1, <1>4 DEF Move
    <2>5. CASE Acts(t) /\ pc[t] = "addJobCb"
      <3>1. t = Main /\ AddJobCallback BY <2>5, ActsAt
      <3>2. future[j] \in Futures BY DEF TypeOK
      <3>3. future[j] \in Results
        BY <3>2, <1>4 DEF StageAgrees, FutureAgrees, Futures
      <3>4. Goto(t, "jobCb") /\ UNCHANGED fin
        BY <2>1, <3>1, <3>3 DEF AddJobCallback
      <3> QED BY <3>4, <2>1, <1>a
    <2> QED BY <2>1, <2>2, <2>3, <2>4, <2>5, MovesOrNot
  <1> QED BY <1>1, <1>2, <1>3, <1>4 DEF RunningHeld

(* The callbacks of a job that is not finished are registered, or the main
   thread is about to. *)
LEMMA StepCallbacks ==
    ASSUME StageAgrees, CallbacksHold, [Next]_vars
    PROVE  CallbacksHold'
  <1> DEFINE Open == {"executor", "running", "ran"}
  <1> TypeOK /\ pc \in [Threads -> Pcs] /\ fin \in [Threads -> Jobs \cup {NoJob}]
      /\ callbacks \in [Jobs -> SUBSET {"job", "package"}] /\ Main \in Threads
      /\ future \in [Jobs -> Futures] /\ future' \in [Jobs -> Futures]
      /\ Workers \subseteq Threads
    BY StepInv DEF StageAgrees, TypeOK, Threads
  <1>a. \A t \in Threads : \A l : Goto(t, l) => pc'[t] = l BY DEF Goto
  <1> SUFFICES ASSUME NEW j \in Jobs, stage'[j] \in Open
               PROVE  /\ \/ "job" \in callbacks'[j]
                         \/ pc'[Main] = "addJobCb" /\ fin'[Main] = j
                      /\ Terminal(j) =>
                         \/ "package" \in callbacks'[j]
                         \/ pc'[Main] \in {"addJobCb", "addPkgCb"} /\ fin'[Main] = j
    BY DEF CallbacksHold
  <1>1. CASE stage[j] \notin Open
    <2>1. Submit /\ ~ shutdown /\ job[Main] = j BY <1>1, StageMoves DEF Before
    <2>2. Goto(Main, "addJobCb") /\ fin' = [fin EXCEPT ![Main] = j]
      BY <2>1 DEF Submit
    <2> QED BY <1>a, <2>2
  <1>2. CASE stage[j] \in Open
    <2>1. /\ "job" \in callbacks[j] \/ (pc[Main] = "addJobCb" /\ fin[Main] = j)
          /\ Terminal(j) => \/ "package" \in callbacks[j]
                            \/ pc[Main] \in {"addJobCb", "addPkgCb"} /\ fin[Main] = j
      BY <1>2 DEF CallbacksHold
    <2>2. callbacks[j] \subseteq callbacks'[j]
      <3>1. ASSUME NEW w \in Workers, Finish(w) PROVE fin[w] # j
        <4>1. Move(fin[w], "returned") BY <3>1 DEF Finish
        <4>2. fin[w] \in Jobs
          BY <3>1 DEF Finish, StageAgrees, HandlersAgree, Handling
        <4>3. stage'[fin[w]] = "returned" BY <4>1, <4>2, LifeMoves
        <4> QED BY <4>3
      <3>2. \A w \in Workers : Finish(w) => callbacks'[j] = callbacks[j]
        BY <3>1 DEF Finish
      <3>3. \A t \in Threads : QueueStep(t) => UNCHANGED callbacks
        BY DEF QueueStep, Schedule, Acquire, Put, Defer, GetDip, GetSip, GetTransfer,
               GetDeferred, Activate, PutNowait, execution
      <3>4. \A t \in Workers \cup {Main} : CallbackStep(t) => UNCHANGED callbacks
        BY DEF CallbackStep, JobCallback, AwaitDecision, HandleFailure,
               PackageCallback, Deactivate, execution
      <3>5. MainStep => callbacks[j] \subseteq callbacks'[j]
        BY DEF MainStep, Loop, Get, Submit, AddJobCallback, AddPackageCallback,
               execution
      <3>6. \A w \in Workers : WorkerStep(w) => Finish(w) \/ UNCHANGED callbacks
        BY DEF WorkerStep, TakeTask, RunScript, execution
      <3>7. SignalHandler \/ HandleWatchedDir \/ UNCHANGED vars => UNCHANGED callbacks
        BY DEF SignalHandler, HandleWatchedDir, vars, execution
      <3>8. \A t \in RpcThreads : CreatePackage(t) \/ Decide(t) => UNCHANGED callbacks
        BY DEF CreatePackage, Decide, execution
      <3> QED BY <3>2, <3>3, <3>4, <3>5, <3>6, <3>7, <3>8 DEF Next
    <2>3. future[j] \notin Results
      BY <1>2 DEF StageAgrees, FutureAgrees, Results
    <2>4. CASE pc[Main] = "addJobCb" /\ fin[Main] = j /\ Acts(Main)
      <3>1. AddJobCallback BY <2>4, ActsAt
      <3> QED BY <3>1, <2>3, <2>4, <1>a DEF AddJobCallback
    <2>5. CASE pc[Main] = "addPkgCb" /\ fin[Main] = j /\ Acts(Main)
      <3>1. AddPackageCallback BY <2>5, ActsAt
      <3>2. Terminal(j) => "package" \in callbacks'[j]
        BY <3>1, <2>3, <2>5 DEF AddPackageCallback
      <3> QED BY <3>2, <2>1, <2>2, <2>5
    <2>6. CASE Unmoved(Main) BY <2>1, <2>2, <2>6 DEF Unmoved
    <2>7. CASE ~(pc[Main] \in {"addJobCb", "addPkgCb"} /\ fin[Main] = j)
      BY <2>1, <2>2, <2>7
    <2> QED BY <2>4, <2>5, <2>6, <2>7, MovesOrNot
  <1> QED BY <1>1, <1>2

\* A job of package p that owns its slot after the step
Owned(p) == \E k \in Jobs : PackageOf[k] = p /\ Owns(k)'

(* A job whose chain has an end ahead of it: its next step leaves it or the
   job that takes over in charge. *)
LEMMA OwnsAhead ==
    ASSUME ChainsClose, StageAgrees, StagesLocated, [Next]_vars,
           NEW j \in Jobs, stage'[j] # "lost",
           stage[j] \in Before \cup {"executor", "running", "awaiting"}
    PROVE  Owned(PackageOf[j])
  <1> TypeOK /\ stage \in [Jobs -> Stages] BY DEF StageAgrees, TypeOK
  <1>1. CASE stage'[j] \in Before \cup {"executor", "running", "awaiting"}
    BY <1>1 DEF Owned, Owns, Before
  <1>2. CASE stage[j] = "running" /\ stage'[j] = "ran"
    <2>1. PICK w \in Workers : RunScript(w) /\ fin[w] = j
      BY <1>2, StageMoves DEF Before
    <2>2. CASE HandsOver(j)
      <3>1. PICK d \in DropsOf[j] : PackageOf[d] = PackageOf[j]
        BY <2>2 DEF ChainsClose
      <3>2. d \in Jobs BY WorkflowAssumption
      <3>3. stage'[d] = "watched" BY <2>1, <3>2 DEF RunScript
      <3> QED BY <3>1, <3>2, <3>3 DEF Owned, Owns
    <2>3. CASE ~ HandsOver(j) BY <1>2, <2>3 DEF Owned, Owns
    <2> QED BY <2>2, <2>3
  <1>3. CASE stage[j] = "running" /\ stage'[j] = "returned"
    <2>1. PICK w \in Workers : Finish(w) /\ fin[w] = j
      BY <1>3, StageMoves DEF Before
    <2>2. pc[w] = "running" /\ w \in Threads
      BY <2>1, <1>3 DEF Finish, StageAgrees, HandlersAgree, Handling, Threads
    <2>3. future'[j] = "raised"
      BY <2>1, <2>2 DEF Finish, TypeOK
    <2> QED BY <2>3, <1>3 DEF Owned, Owns
  <1>4. CASE stage[j] = "awaiting" /\ stage'[j] = "spent"
    <2>1. KindOf[j] = "decision"
      BY <1>4 DEF StageAgrees, FutureAgrees, StagesLocated, DecisionsReturn
    <2>2. NextOf[j] # NoJob BY <2>1 DEF ChainsClose, HandsOver, Terminal
    <2>3. stage' = [stage EXCEPT ![j] = "spent", ![NextOf[j]] = "held"]
      BY <2>2, <1>4, StageMoves DEF Before
    <2>4. NextOf[j] \in Jobs /\ stage'[NextOf[j]] = "held"
      BY <2>2, <2>3, <1>4, HandOverMove
    <2> QED BY <2>2, <2>4 DEF Owned, Owns, ChainsClose
  <1> QED BY <1>1, <1>2, <1>3, <1>4, StageMoves DEF Before

(* A job whose script has moved its packages. *)
LEMMA OwnsRan ==
    ASSUME StageAgrees, CallbacksHold, [Next]_vars, NEW j \in Jobs,
           stage[j] = "ran", stage'[j] # "lost", ~ HandsOver(j)
    PROVE  Owned(PackageOf[j])
  <1> TypeOK /\ Main \in Threads /\ Workers \subseteq Threads
      /\ pc \in [Threads -> Pcs]
      /\ ret \in [Threads -> {"idle", "addPkgCb", "pkgCb", "startup"}]
    BY DEF StageAgrees, TypeOK, Threads
  <1>1. CASE stage'[j] = "ran" BY <1>1 DEF Owned, Owns
  <1>2. CASE stage'[j] # "ran"
    <2>1. stage'[j] = "returned" /\ \E w \in Workers : Finish(w) /\ fin[w] = j
      BY <1>2, StageMoves DEF Before
    <2>2. PICK w \in Workers : Finish(w) /\ fin[w] = j BY <2>1
    <2>3. CASE future'[j] # "none" BY <2>1, <2>3 DEF Owned, Owns
    <2>4. CASE future'[j] = "none"
      <3>1. future[j] = "running" BY DEF StageAgrees, FutureAgrees
      <3>2. NextOf[j] = NoJob
        <4>1. future'[j] \in ResultsOf(j) BY <2>4, <3>1, ResultsMean DEF Results
        <4> QED BY <4>1, <2>4 DEF ResultsOf
      <3>3. Terminal(j) BY <3>2 DEF HandsOver
      <3>4. \/ "package" \in callbacks[j]
            \/ pc[Main] \in {"addJobCb", "addPkgCb"} /\ fin[Main] = j
        BY <3>3 DEF CallbacksHold
      <3>5. CASE pc[Main] \in {"addJobCb", "addPkgCb"} /\ fin[Main] = j
        <4>1. w # Main BY ThreadAssumption
        <4>2. Acts(w) BY <2>2 DEF Acts, WorkerStep
        <4>3. Unmoved(Main) BY <4>1, <4>2, OthersUnmoved
        <4>4. Completes(Main)' /\ fin'[Main] = j
          BY <4>3, <3>5 DEF Unmoved, Completes
        <4> QED BY <4>4, <3>3, <2>4 DEF Owned, Owns
      <3>6. CASE "package" \in callbacks[j]
                 /\ ~(pc[Main] \in {"addJobCb", "addPkgCb"} /\ fin[Main] = j)
        <4>1. "job" \in callbacks[j] BY <3>6 DEF CallbacksHold
        <4>2. ret' = [ret EXCEPT ![w] = "pkgCb"] /\ fin' = fin
          BY <4>1, <3>6, <2>2 DEF Finish
        <4>3. Completes(w)' /\ fin'[w] = j BY <4>2, <2>2 DEF Completes
        <4> QED BY <4>3, <3>3, <2>4 DEF Owned, Owns
      <3> QED BY <3>4, <3>5, <3>6
    <2> QED BY <2>3, <2>4
  <1> QED BY <1>1, <1>2

(* A job that returned and is not the end of its package. *)
LEMMA OwnsReturned ==
    ASSUME ChainsClose, StageAgrees, [Next]_vars, NEW j \in Jobs,
           stage[j] = "returned", stage'[j] # "lost", future[j] # "none"
    PROVE  Owned(PackageOf[j])
  <1> TypeOK /\ pc \in [Threads -> Pcs] /\ future \in [Jobs -> Futures]
    BY DEF StageAgrees, TypeOK
  <1>1. future'[j] = future[j] /\ future[j] \in Results
    BY FuturesMove DEF StageAgrees, FutureAgrees, Results, Futures
  <1>2. CASE stage'[j] \in {"returned", "awaiting"} BY <1>1, <1>2 DEF Owned, Owns
  <1>3. CASE stage'[j] = "spent"
    <2>1. PICK t \in Threads : (JobCallback(t) \/ AwaitDecision(t)) /\ fin[t] = j
      BY <1>3, StageMoves DEF Before
    <2>2. JobCallback(t)
      <3>1. AwaitDecision(t) => Move(j, "awaiting") BY <2>1 DEF AwaitDecision
      <3> QED BY <2>1, <3>1, <1>3 DEF Move, StageAgrees, TypeOK
    <2>3. future[j] # "self"
      BY <2>1, <2>2, <1>3 DEF JobCallback
    <2>4. CASE future[j] = "raised"
      <3>1. Goto(t, "fail") /\ UNCHANGED fin BY <2>1, <2>2, <2>4 DEF JobCallback
      <3>2. Closing(t)' /\ fin'[t] = j BY <3>1, <2>1 DEF Closing, Goto
      <3> QED BY <3>2 DEF Owned, Owns
    <2>5. CASE future[j] = "next"
      <3>1. NextOf[j] # NoJob BY <2>5 DEF StageAgrees, FutureAgrees
      <3>2. stage' = [stage EXCEPT ![j] = "spent", ![NextOf[j]] = "held"]
        BY <2>1, <2>2, <2>5 DEF JobCallback
      <3>3. NextOf[j] \in Jobs /\ stage'[NextOf[j]] = "held"
        <4>1. /\ NextOf[j] \in Jobs /\ NextOf[j] # j
              /\ \A k \in Jobs : stage'[k] = IF k = j THEN "spent"
                                  ELSE IF k = NextOf[j] THEN "held" ELSE stage[k]
          BY <3>1, <3>2, HandOverMove
        <4> QED BY <4>1
      <3> QED BY <3>1, <3>3 DEF Owned, Owns, ChainsClose
    <2> QED BY <1>1, <2>3, <2>4, <2>5 DEF Results
  <1> QED BY <1>2, <1>3, StageMoves DEF Before

(* A call of the queue keeps what its caller noted. *)
LEMMA QueueNoted ==
    ASSUME TypeOK, NEW t \in Threads, QueueStep(t), ret[t] \in {"pkgCb", "addPkgCb"}
    PROVE  fin'[t] = fin[t] /\ ret'[t] = ret[t]
  <1>1. \A l : Resume(t, l) /\ l # "idle" => fin'[t] = fin[t] /\ ret'[t] = ret[t]
    BY DEF Resume
  <1>2. Return(t) => fin'[t] = fin[t] /\ ret'[t] = ret[t] BY <1>1 DEF Return
  <1>3. Lose(t) => fin'[t] = fin[t] /\ ret'[t] = ret[t] BY <1>1, <1>2 DEF Lose
  <1> QED BY <1>1, <1>2, <1>3
          DEF QueueStep, Schedule, Acquire, Put, Defer, GetDip, GetSip, GetTransfer,
              GetDeferred, Activate, PutNowait, frame

(* A job that ended its package, whose thread is to complete it. *)
LEMMA OwnsCompleting ==
    ASSUME ~ DbErrors, StageAgrees, [Next]_vars, NEW j \in Jobs, NEW t \in Threads,
           future[j] = "none", Terminal(j), Completes(t), fin[t] = j,
           PackageOf[j] \in active'
    PROVE  Owned(PackageOf[j])
  <1> TypeOK /\ pc \in [Threads -> Pcs] /\ pc[t] \in Pcs
      /\ ret \in [Threads -> {"idle", "addPkgCb", "pkgCb", "startup"}]
    BY DEF StageAgrees, TypeOK
  <1>a. \A l : Goto(t, l) => pc'[t] = l BY DEF Goto
  <1>b. \A l : Resume(t, l) =>
            pc'[t] = l /\ (l # "idle" => ret'[t] = ret[t] /\ fin'[t] = fin[t])
    BY <1>a DEF Resume
  <1>1. future'[j] = "none" BY FuturesMove
  <1> SUFFICES Completes(t)' /\ fin'[t] = j BY <1>1 DEF Owned, Owns
  <1>2. CASE Unmoved(t) BY <1>1, <1>2 DEF Unmoved, Completes
  <1>3. ASSUME Acts(t) PROVE Completes(t)' /\ fin'[t] = j
    <2>1. CASE pc[t] = "addJobCb"
      <3>1. t = Main /\ AddJobCallback BY <1>3, <2>1, ActsAt
      <3>2. /\ Goto(t, "jobCb") /\ ret' = [ret EXCEPT ![t] = "addPkgCb"]
            /\ UNCHANGED fin
        BY <3>1 DEF AddJobCallback, Results
      <3> QED BY <3>2 DEF Completes
    <2>2. CASE pc[t] = "addPkgCb"
      <3>1. t = Main /\ AddPackageCallback BY <1>3, <2>2, ActsAt
      <3>2. Resume(t, "pkgCb") BY <3>1 DEF AddPackageCallback, Results
      <3> QED BY <3>2, <1>b DEF Completes
    <2>3. CASE pc[t] = "pkgCb"
      <3>1. PackageCallback(t) BY <1>3, <2>3, ActsAt
      <3>2. Goto(t, "deactivate") /\ UNCHANGED fin BY <3>1 DEF PackageCallback
      <3> QED BY <3>2, <1>1, <1>a DEF Completes
    <2>4. pc[t] # "deactivate"
      <3>1. Deactivate(t) => PackageOf[j] \notin active' BY DEF Deactivate
      <3> QED BY <3>1, <1>3, ActsAt
    <2>5. CASE pc[t] \notin {"addJobCb", "addPkgCb", "pkgCb"}
      <3>1. ret[t] \in {"pkgCb", "addPkgCb"} BY <2>4, <2>5 DEF Completes
      <3>2. pc[t] \notin {"idle", "get", "submit"}
        BY <3>1 DEF StageAgrees, CallbacksAgree
      <3>3. pc[t] \notin {"running", "returning", "await"}
        BY DEF StageAgrees, HandlersAgree, FutureAgrees, Handling
      <3>4. CASE pc[t] = "jobCb"
        <4>1. JobCallback(t) BY <3>4, <1>3, ActsAt
        <4>2. Return(t) BY <4>1 DEF JobCallback
        <4>3. Resume(t, ret[t]) BY <3>1, <4>2 DEF Return
        <4> QED BY <4>3, <3>1, <1>b DEF Completes
      <3>5. CASE pc[t] = "fail"
        <4>1. HandleFailure(t) BY <3>5, <1>3, ActsAt
        <4> QED BY <4>1, <3>1 DEF HandleFailure, frame, Completes
      <3>6. CASE pc[t] \in {"schedule", "acquire", "put", "defer", "getDIP", "getSIP",
                           "getTransfer", "activate", "putNowait"}
        <4>1. QueueStep(t) BY <3>6, <1>3, ActsAt
        <4> QED BY <4>1, <3>1, QueueNoted DEF Completes
      <3>7. pc[t] # "stopped" BY <1>3, ActsAt
      <3> QED BY <2>4, <2>5, <3>2, <3>3, <3>4, <3>5, <3>6, <3>7 DEF Pcs
    <2> QED BY <2>1, <2>2, <2>3, <2>5
  <1> QED BY <1>2, <1>3, MovesOrNot

(* A job whose thread is about to give the slot back. *)
LEMMA OwnsClosing ==
    ASSUME StageAgrees, [Next]_vars, NEW j \in Jobs, NEW t \in Threads,
           Closing(t), fin[t] = j, PackageOf[j] \in active'
    PROVE  Owned(PackageOf[j])
  <1> pc \in [Threads -> Pcs] BY DEF StageAgrees, TypeOK
  <1> SUFFICES Closing(t)' /\ fin'[t] = j BY DEF Owned, Owns
  <1>1. CASE Unmoved(t) BY <1>1 DEF Unmoved, Closing
  <1>2. CASE Acts(t)
    <2>1. ~ Deactivate(t) BY DEF Deactivate
    <2>2. HandleFailure(t) BY <2>1, <1>2, ActsAt DEF Closing
    <2> QED BY <2>2 DEF HandleFailure, frame, Goto, Closing
  <1> QED BY <1>1, <1>2, MovesOrNot

(* A package gets a slot with a job in hand, and keeps an owner of it. *)
LEMMA StepOwners ==
    ASSUME ChainsClose, ~ DbErrors, StageAgrees, StagesLocated, OwnersAgree, [Next]_vars
    PROVE  OwnersAgree'
  <1>1. RunningHeld' /\ CallbacksHold' BY StepRunning, StepCallbacks DEF OwnersAgree
  <1>2. ASSUME NoJobLost', NEW p \in active' PROVE Owned(p)
    <2>1. \A j \in Jobs : stage'[j] # "lost" BY <1>2 DEF NoJobLost
    <2>2. NoJobLost
      <3>1. \A j \in Jobs : stage[j] = "lost" => stage'[j] = "lost"
        BY StageMoves DEF Before
      <3> QED BY <2>1, <3>1 DEF NoJobLost
    <2>3. CASE p \notin active
      <3>1. PICK t \in Threads : Activate(t)
        <4>1. ~ (SignalHandler \/ UNCHANGED vars)
          BY <2>3 DEF SignalHandler, vars, slots
        <4>2. PICK t \in Threads : Acts(t) BY <4>1, OneActs
        <4>3. ~ Deactivate(t) BY <2>3 DEF Deactivate
        <4> QED BY <2>3, <4>2, <4>3, ActiveKept
      <3>2. job[t] \in Jobs /\ stage[job[t]] = "held"
        BY <3>1, InHand DEF Activate, Holding
      <3>3. p = PackageOf[job[t]] /\ stage' = stage BY <2>3, <3>1 DEF Activate
      <3> QED BY <3>2, <3>3 DEF Owned, Owns
    <2>4. CASE p \in active
      <3>1. PICK j \in Jobs : PackageOf[j] = p /\ Owns(j)
        BY <2>2, <2>4 DEF OwnersAgree
      <3>2. CASE stage[j] \in Before \cup {"executor", "running", "awaiting"}
        BY <3>1, <3>2, <2>1, OwnsAhead
      <3>3. CASE stage[j] = "ran" /\ ~ HandsOver(j)
        BY <3>1, <3>3, <2>1, OwnsRan DEF OwnersAgree
      <3>4. CASE stage[j] = "returned" /\ future[j] # "none"
        BY <3>1, <3>4, <2>1, OwnsReturned
      <3>5. CASE /\ future[j] = "none" /\ Terminal(j)
                 /\ \E t \in Threads : Completes(t) /\ fin[t] = j
        BY <3>1, <3>5, OwnsCompleting
      <3>6. CASE \E t \in Threads : Closing(t) /\ fin[t] = j
        BY <3>1, <3>6, OwnsClosing
      <3> QED BY <3>1, <3>2, <3>3, <3>4, <3>5, <3>6 DEF Owns, Before
    <2> QED BY <2>3, <2>4
  <1> QED BY <1>1, <1>2 DEF OwnersAgree, Owned

(* What still owns a slot is a job in some place, or a thread on its way. *)
LEMMA OwnerFound ==
    ASSUME StageAgrees, StagesLocated, RunningHeld, NEW j \in Jobs, Owns(j)
    PROVE  Places(j) # {} \/ \E t \in Threads : fin[t] = j /\ Completing(t)
  <1>1. ASSUME NEW t \in Threads, Holds(t, j) PROVE Places(j) # {}
    <2>1. <<"thread", t>> \in {"thread"} \X {u \in Threads : Holds(u, j)} BY <1>1
    <2>2. <<"thread", t>> \in Places(j) BY <2>1, Zenon DEF Places
    <2> QED BY <2>2
  <1>2. CASE stage[j] \in Before \cup {"executor"}
    BY <1>2, PendingPlace DEF Before, Pending
  <1>3. CASE stage[j] \in {"running", "ran"}
    <2>1. PICK t \in Threads : pc[t] \in {"running", "returning"} /\ fin[t] = j
      BY <1>3 DEF RunningHeld
    <2> QED BY <2>1, <1>1 DEF Holds, Handling
  <1>4. CASE stage[j] = "awaiting"
    <2>1. <<"waiting", j>> \in {"waiting"} \X (waiting \cap {j})
      BY <1>4 DEF StagesLocated, SetsHold
    <2>2. <<"waiting", j>> \in Places(j) BY <2>1, Zenon DEF Places
    <2> QED BY <2>2
  <1>5. CASE stage[j] = "returned"
    <2>1. PICK t \in Threads : pc[t] \in {"jobCb", "await", "addJobCb"} /\ fin[t] = j
      BY <1>5 DEF RunningHeld
    <2> QED BY <2>1, <1>1 DEF Holds, Handling, Completing
  <1>6. CASE \E t \in Threads : (Completes(t) \/ Closing(t)) /\ fin[t] = j
    BY <1>6 DEF Completes, Closing, Completing
  <1> QED BY <1>2, <1>3, <1>4, <1>5, <1>6 DEF Owns, Before

(* Unless a job was lost, a package that occupies a slot has a job alive or a
   thread about to give the slot back: no way a chain can end keeps the slot. *)
THEOREM OwnedUnlessLost ==
    ASSUME ChainsClose, ~ DbErrors
    PROVE  Spec => [](NoJobLost => ActiveHasOwner)
  <1>1. Init => OwnersAgree
    BY DEF Init, OwnersAgree, RunningHeld, CallbacksHold
  <1>2. (StageAgrees /\ StagesLocated) /\ OwnersAgree /\ [Next]_vars => OwnersAgree'
    BY StepOwners
  <1>3. StageAgrees /\ StagesLocated /\ OwnersAgree => (NoJobLost => ActiveHasOwner)
    BY OwnerFound DEF OwnersAgree, ActiveHasOwner
  <1> QED BY <1>1, <1>2, <1>3, AlwaysLocated, PTL DEF Spec
=============================================================================
