-------------------------- MODULE TaskExecutionProofs --------------------------
(***************************************************************************)
(* Proofs about TaskExecution for every number of threads, jobs, tasks and *)
(* workers, every batch size and every set of scripts.                     *)
(*                                                                         *)
(* RunAgrees (TaskExecutionInv) is inductive: InitRun, and StepRun, with   *)
(* one lemma per part of it (StepTypes ... StepStatus), each of which goes *)
(* through the actions.  The lemmas before them say what a step may do to  *)
(* one variable: RowMoves, CodeMoves, GoneMoves, ThreadMoves.  AnswerStays *)
(* is the fact the results rest on: nothing touches an answered batch.     *)
(***************************************************************************)
EXTENDS TaskExecutionInv, FiniteSetTheorems, TLAPS

(* The tasks of a job are its number and an index; jobs share no task. *)
LEMMA TaskFacts ==
    /\ \A j \in Jobs : Size[j] \in Nat /\ TasksOf(j) \subseteq Tasks
    /\ \A j \in Jobs : \A t \in TasksOf(j) :
           t[1] = j /\ t[2] \in Nat /\ t[2] > 0 /\ t[2] <= Size[j]
    /\ \A j \in Jobs : \A t, u \in TasksOf(j) : t[2] = u[2] => t = u
    /\ \A j \in Jobs : \A n \in Nat :
           n < Size[j] => <<j, n + 1>> \in TasksOf(j) /\ <<j, n + 1>>[2] = n + 1
    /\ \A t \in Tasks : t[1] \in Jobs /\ t \in TasksOf(t[1])
  <1>1. Size \in [Jobs -> Nat] BY TaskAssumption
  <1> QED BY <1>1 DEF TasksOf, Tasks

(* An answered batch gives each of its tasks an exit code, and its rows were
   created. *)
LEMMA AnsweredCodes ==
    ASSUME TypeOK, RowsAgree, FreshAgrees
    PROVE  \A b \in completed \cup failed : \A t \in b :
               t \in Tasks /\ CodeIn(b, t) \in Int /\ row[t] \in Int \cup {Null}
  <1> SUFFICES ASSUME NEW b \in completed \cup failed, NEW t \in b
               PROVE  t \in Tasks /\ CodeIn(b, t) \in Int /\ row[t] \in Int \cup {Null}
    OBVIOUS
  <1>1. t \in Tasks BY DEF TypeOK, Batches
  <1>2. CodeIn(b, t) \in Int BY DEF RowsAgree, CodeIn
  <1>3. row[t] # NoRow BY DEF FreshAgrees, Gone, Elsewhere
  <1> QED BY <1>1, <1>2, <1>3 DEF TypeOK, Codes

PoolStep ==
    \/ \E w \in Workers : Take(w) \/ Work(w) \/ FailBatch(w) \/ Die(w)
    \/ AcceptAny \/ StopPool \/ StartPool \/ RestartExited
ServerStep ==
    \/ \E th \in Threads : ThreadStep(th) \/ Raise(th)
    \/ \E th \in Threads, j \in Jobs : StartJob(th, j)
    \/ Crash \/ CleanUp

(* The pool and the Gearman server leave the memory of MCPServer and the rows
   of the jobs alone; MCPServer leaves the workers alone. *)
LEMMA NextSides == Next <=> PoolStep \/ ServerStep
  BY DEF Next, PoolStep, ServerStep

(* A step of MCPClient changes nothing of MCPServer. *)
LEMMA PoolFrame ==
    ASSUME PoolStep
    PROVE  UNCHANGED <<jobRow, up, got, pc, job, made, exit, open, sent, arrived,
                       collected, count, pendingGauge, activeGauge>>
  <1> USE DEF database, server, batches, gauges, thread
  <1>1. ASSUME NEW w \in Workers, Take(w) \/ Work(w) \/ FailBatch(w) \/ Die(w)
        PROVE  UNCHANGED <<jobRow, server>>
    <2>1. CASE Take(w) BY <2>1 DEF Take, Grab
    <2>2. CASE Work(w)
      BY <2>2 DEF Work, RunScript, SaveTask, AnswerBatch, LeaveIdle, Terminate, Kill
    <2>3. CASE FailBatch(w) BY <2>3 DEF FailBatch
    <2>4. CASE Die(w) BY <2>4 DEF Die, Kill
    <2> QED BY <1>1, <2>1, <2>2, <2>3, <2>4
  <1>2. CASE AcceptAny BY <1>2 DEF AcceptAny, Accept
  <1>3. CASE StopPool \/ StartPool \/ RestartExited
    BY <1>3 DEF StopPool, StartPool, RestartExited
  <1> QED BY <1>1, <1>2, <1>3 DEF PoolStep

(* A step of MCPServer changes nothing of MCPClient. *)
LEMMA ServerFrame ==
    ASSUME ServerStep
    PROVE  UNCHANGED <<completed, failed, wpc, at, code, unsaved, processed, shutdown>>
  <1> USE DEF client, gearmand
  <1>1. ASSUME NEW th \in Threads, RunStep(th)
        PROVE  UNCHANGED <<completed, failed, client>>
    BY <1>1 DEF RunStep, SubmitTask, WaitForResults, LogBatch, SendBatch, Accepted,
                Poll, Collect, UpdateStatus, ReturnNext
  <1>2. ASSUME NEW th \in Threads, FailureStep(th) \/ Raise(th)
        PROVE  UNCHANGED <<completed, failed, client>>
    BY <1>2 DEF FailureStep, ResetBackend, Disconnect, MarkJobFailed, MarkTasksFailed,
                Raise
  <1>3. ASSUME NEW th \in Threads, NEW j \in Jobs, StartJob(th, j)
        PROVE  UNCHANGED <<completed, failed, client>>
    BY <1>3 DEF StartJob
  <1>4. CASE Crash \/ CleanUp BY <1>4 DEF Crash, Disconnect, CleanUp
  <1> QED BY <1>1, <1>2, <1>3, <1>4 DEF ServerStep, ThreadStep

(* An answer stays. *)
LEMMA AnsweredStays ==
    ASSUME [Next]_vars
    PROVE  completed \subseteq completed' /\ failed \subseteq failed'
  <1> USE DEF gearmand
  <1>1. ASSUME NEW w \in Workers, Take(w) \/ Work(w) \/ FailBatch(w) \/ Die(w)
        PROVE  completed \subseteq completed' /\ failed \subseteq failed'
    BY <1>1 DEF Take, Grab, Work, RunScript, SaveTask, AnswerBatch, LeaveIdle,
                Terminate, Kill, FailBatch, Die
  <1>2. CASE AcceptAny \/ StopPool \/ StartPool \/ RestartExited
    BY <1>2 DEF AcceptAny, Accept, StopPool, StartPool, RestartExited
  <1>3. CASE ServerStep BY <1>3, ServerFrame
  <1>4. CASE UNCHANGED vars BY <1>4 DEF vars
  <1> QED BY <1>1, <1>2, <1>3, <1>4, NextSides DEF PoolStep

(* Every step keeps the types: an exit code collected is a number. *)
LEMMA StepTypes == RunAgrees /\ [Next]_vars => TypeOK'
  <1> SUFFICES ASSUME RunAgrees, [Next]_vars PROVE TypeOK' OBVIOUS
  <1> USE DEF database, server, batches, gauges, thread, gearmand, client, Goto, Fault
  <1>a. TypeOK BY DEF RunAgrees
  <1>b. ThreadsAgree BY DEF RunAgrees
  <1>1. ASSUME NEW th \in Threads, NEW j \in Jobs, StartJob(th, j) PROVE TypeOK'
    BY <1>a, <1>1 DEF TypeOK, StartJob, JobStatuses, Pcs
  <1>2. ASSUME NEW th \in Threads, SubmitTask(th) PROVE TypeOK'
    <2>1. job[th] \in Jobs /\ made[th] \in Nat /\ made[th] < Size[job[th]]
      BY <1>a, <1>b, <1>2 DEF TypeOK, SubmitTask, ThreadsAgree
    <2>2. <<job[th], made[th] + 1>> \in Tasks BY <2>1, TaskFacts
    <2>3. open[th] \cup {<<job[th], made[th] + 1>>} \in Batches
      BY <1>a, <2>2 DEF TypeOK, Batches
    <2> QED BY <1>a, <1>2, <2>3 DEF TypeOK, SubmitTask, Pcs
  <1>3. ASSUME NEW th \in Threads, WaitForResults(th) \/ Accepted(th) \/ ReturnNext(th)
               \/ Raise(th)
        PROVE  TypeOK'
    BY <1>a, <1>3 DEF TypeOK, WaitForResults, Accepted, ReturnNext, Raise, Pcs
  <1>4. ASSUME NEW th \in Threads, LogBatch(th) PROVE TypeOK'
    BY <1>a, <1>4 DEF TypeOK, LogBatch, Pcs, Codes
  <1>5. ASSUME NEW th \in Threads, SendBatch(th) PROVE TypeOK'
    <2>1. open[th] \in Batches /\ {} \in Batches BY <1>a DEF TypeOK, Batches
    <2>2. unacked' \subseteq Batches /\ sent' \in [Threads -> SUBSET Batches]
      BY <1>a, <1>5, <2>1 DEF TypeOK, SendBatch
    <2>3. open' \in [Threads -> Batches] /\ pc' \in [Threads -> Pcs]
      BY <1>a, <1>5, <2>1 DEF TypeOK, SendBatch, Pcs
    <2> QED BY <1>a, <1>5, <2>2, <2>3 DEF TypeOK, SendBatch
  <1>6. ASSUME NEW th \in Threads, Poll(th) PROVE TypeOK'
    <2>1. \A new \in SUBSET ((sent[th] \ collected[th]) \cap (completed \cup failed)) :
              new \in SUBSET Batches
      BY <1>a DEF TypeOK
    <2> QED BY <1>a, <1>6, <2>1 DEF TypeOK, Poll, Pcs
  <1>7. ASSUME NEW th \in Threads, Collect(th) PROVE TypeOK'
    <2>1. PICK b \in arrived[th] : Collect(th)!2!(b) BY <1>7 DEF Collect
    <2>2. b \in completed \cup failed BY DEF RunAgrees, BackendAgrees, BackendOf
    <2>3. \A t \in b : t \in Tasks /\ CodeIn(b, t) \in Int
      BY <2>2, AnsweredCodes DEF RunAgrees
    <2>4. PICK c \in {0, exit[th]} \cup {CodeIn(b, t) : t \in b} :
              c >= exit[th] /\ exit' = [exit EXCEPT ![th] = c]
      BY <2>1 DEF RaisesTo
    <2>5. exit' \in [Threads -> Nat] BY <1>a, <2>3, <2>4 DEF TypeOK
    <2>6. got' \in [Tasks -> Codes] BY <1>a, <2>1, <2>3 DEF TypeOK, Codes
    <2>7. row' \in [Tasks -> Codes] BY <1>a, <2>1 DEF TypeOK, Codes, Marked
    <2>8. /\ sent' \in [Threads -> SUBSET Batches]
          /\ arrived' \in [Threads -> SUBSET Batches]
          /\ collected' \in [Threads -> SUBSET Batches]
      <3>1. b \in Batches BY <1>a DEF TypeOK
      <3> QED BY <1>a, <2>1, <3>1 DEF TypeOK
    <2>9. pc' \in [Threads -> Pcs] /\ count' \in [Threads -> Nat]
      BY <1>a, <2>1 DEF TypeOK, Pcs
    <2>10. activeGauge' \in Int BY <1>a, <2>1 DEF TypeOK
    <2> QED BY <1>a, <1>7, <2>5, <2>6, <2>7, <2>8, <2>9, <2>10 DEF TypeOK, Collect
  <1>8. ASSUME NEW th \in Threads, UpdateStatus(th) PROVE TypeOK'
    BY <1>a, <1>8 DEF TypeOK, UpdateStatus, Pcs, StatusOf, JobStatuses
  <1>9. ASSUME NEW th \in Threads, ResetBackend(th) PROVE TypeOK'
    <2>1. IsFiniteSet(sent[th]) BY DEF RunAgrees, BackendAgrees, BackendOf
    <2>2. LeftActive(th) \in Int
      <3>1. IsFiniteSet(sent[th] \ collected[th]) BY <2>1, FS_Difference
      <3> QED BY <3>1, FS_CardinalityType DEF LeftActive
    <2>3. activeGauge' \in Int BY <1>a, <1>9, <2>2 DEF ResetBackend, TypeOK
    <2>4. unacked' \subseteq Batches /\ queued' \subseteq Batches
      BY <1>a, <1>9 DEF ResetBackend, Disconnect, TypeOK
    <2>5. pc' \in [Threads -> Pcs] BY <1>a, <1>9 DEF ResetBackend, TypeOK, Pcs
    <2> QED
      BY <1>a, <1>9, <2>3, <2>4, <2>5 DEF ResetBackend, ClearSent, Disconnect, TypeOK, Batches
  <1>10. ASSUME NEW th \in Threads, MarkJobFailed(th) PROVE TypeOK'
    BY <1>a, <1>10 DEF TypeOK, MarkJobFailed, Pcs, JobStatuses
  <1>11. ASSUME NEW th \in Threads, MarkTasksFailed(th) PROVE TypeOK'
    BY <1>a, <1>11 DEF TypeOK, MarkTasksFailed, Pcs, Codes
  <1>12. CASE Crash
    <2>1. /\ unacked' \subseteq Batches /\ queued' \subseteq Batches
          /\ UNCHANGED <<completed, failed>>
      BY <1>a, <1>12 DEF Crash, Disconnect, TypeOK
    <2>2. /\ pc' \in [Threads -> Pcs] /\ job' \in [Threads -> Jobs \cup {NoJob}]
          /\ count' \in [Threads -> Nat]
      BY <1>12 DEF Crash, Pcs
    <2>3. /\ open' \in [Threads -> Batches] /\ sent' \in [Threads -> SUBSET Batches]
          /\ arrived' \in [Threads -> SUBSET Batches]
          /\ collected' \in [Threads -> SUBSET Batches]
      BY <1>12 DEF Crash, Batches
    <2>4. /\ up' = FALSE /\ pendingGauge' = 0 /\ activeGauge' = 0 /\ faults' \in Nat
          /\ UNCHANGED <<database, got, made, exit, client>>
      BY <1>a, <1>12 DEF TypeOK, Crash
    <2>5. /\ wpc' \in [Workers -> WorkerPcs] /\ at' \in [Workers -> Batches]
          /\ processed' \in [Workers -> Nat] /\ unsaved' \in [Workers -> Batches]
          /\ code' \in [Tasks -> Codes] /\ shutdown' \in BOOLEAN
      BY <1>a, <2>4 DEF TypeOK
    <2>6. /\ row' \in [Tasks -> Codes] /\ got' \in [Tasks -> Codes]
          /\ made' \in [Threads -> Nat] /\ exit' \in [Threads -> Nat]
          /\ jobRow' \in [Jobs -> JobStatuses] /\ up' \in BOOLEAN
      BY <1>a, <2>4 DEF TypeOK
    <2>7. completed' \subseteq Batches /\ failed' \subseteq Batches
      BY <1>a, <2>1 DEF TypeOK
    <2> QED BY <2>1, <2>2, <2>3, <2>4, <2>5, <2>6, <2>7 DEF TypeOK
  <1>13. CASE CleanUp BY <1>a, <1>13 DEF TypeOK, CleanUp, Codes, JobStatuses
  <1>14. ASSUME NEW b \in unacked, Accept(b) PROVE TypeOK'
    BY <1>a, <1>14 DEF TypeOK, Accept
  <1>15. ASSUME NEW w \in Workers, NEW b \in queued, Grab(w, b) PROVE TypeOK'
    BY <1>a, <1>15 DEF TypeOK, Grab, WorkerPcs
  <1>16. ASSUME NEW w \in Workers, RunScript(w) PROVE TypeOK'
    <2>1. code' \in [Tasks -> Codes] BY <1>a, <1>16, TaskAssumption DEF TypeOK, RunScript, Codes
    <2> QED BY <1>a, <1>16, <2>1 DEF TypeOK, RunScript, WorkerPcs
  <1>17. ASSUME NEW w \in Workers, SaveTask(w) PROVE TypeOK'
    BY <1>a, <1>17 DEF TypeOK, SaveTask, Batches
  <1>18. ASSUME NEW w \in Workers, AnswerBatch(w) PROVE TypeOK'
    BY <1>a, <1>18 DEF TypeOK, AnswerBatch, AfterPoll, WorkerPcs, Batches
  <1>19. ASSUME NEW w \in Workers, FailBatch(w) PROVE TypeOK'
    <2>1. row' \in [Tasks -> Codes] BY <1>a, <1>19 DEF TypeOK, FailBatch, Codes
    <2> QED BY <1>a, <1>19, <2>1 DEF TypeOK, FailBatch, AfterPoll, WorkerPcs, Batches
  <1>20. ASSUME NEW w \in Workers, LeaveIdle(w) PROVE TypeOK'
    BY <1>a, <1>20 DEF TypeOK, LeaveIdle, WorkerPcs
  <1>21. ASSUME NEW w \in Workers, Kill(w), faults' \in Nat PROVE TypeOK'
    <2>1. queued' \subseteq Batches BY <1>a, <1>21 DEF TypeOK, Kill
    <2> QED BY <1>a, <1>21, <2>1 DEF TypeOK, Kill, WorkerPcs, Batches
  <1>22. CASE StopPool \/ StartPool \/ RestartExited
    <2>1. CASE StopPool BY <1>a, <2>1 DEF TypeOK, StopPool
    <2>2. CASE StartPool
      <3>1. wpc' \in [Workers -> WorkerPcs] /\ processed' \in [Workers -> Nat]
        BY <2>2 DEF StartPool, WorkerPcs
      <3> QED BY <1>a, <2>2, <3>1 DEF TypeOK, StartPool
    <2>3. CASE RestartExited
      <3>1. wpc' \in [Workers -> WorkerPcs] /\ processed' \in [Workers -> Nat]
        BY <1>a, <2>3 DEF TypeOK, RestartExited, WorkerPcs
      <3> QED BY <1>a, <2>3, <3>1 DEF TypeOK, RestartExited
    <2> QED BY <1>22, <2>1, <2>2, <2>3
  <1>23. CASE UNCHANGED vars BY <1>a, <1>23 DEF TypeOK, vars
  <1> QED
    <2>1. ASSUME NEW th \in Threads, ThreadStep(th) \/ Raise(th) PROVE TypeOK'
      BY <2>1, <1>2, <1>3, <1>4, <1>5, <1>6, <1>7, <1>8, <1>9, <1>10, <1>11
         DEF ThreadStep, RunStep, FailureStep
    <2>2. ASSUME NEW w \in Workers, Take(w) \/ Work(w) \/ FailBatch(w) \/ Die(w)
          PROVE  TypeOK'
      <3>1. Die(w) \/ Terminate(w) => Kill(w) /\ faults' \in Nat
        BY <1>a DEF Die, Terminate, TypeOK
      <3> QED BY <2>2, <3>1, <1>15, <1>16, <1>17, <1>18, <1>19, <1>20, <1>21
              DEF Take, Work
    <2> QED BY <2>1, <2>2, <1>1, <1>12, <1>13, <1>14, <1>22, <1>23 DEF Next, AcceptAny

(* One thread runs a job: a job is started once, by an idle thread. *)
LEMMA StepThreads == RunAgrees /\ [Next]_vars => ThreadsAgree'
  <1> SUFFICES ASSUME RunAgrees, [Next]_vars PROVE ThreadsAgree' OBVIOUS
  <1> USE DEF database, server, batches, gauges, thread, Goto
  <1>a. /\ pc \in [Threads -> Pcs] /\ job \in [Threads -> Jobs \cup {NoJob}]
        /\ jobRow \in [Jobs -> JobStatuses]
    BY DEF RunAgrees, TypeOK
  <1>b. ThreadsAgree BY DEF RunAgrees
  <1>c. NoJob \notin Jobs BY TaskAssumption
  <1>1. ASSUME NEW th \in Threads, NEW j \in Jobs, StartJob(th, j) PROVE ThreadsAgree'
    BY <1>a, <1>b, <1>c, <1>1 DEF ThreadsAgree, StartJob, Running
  <1>2. ASSUME NEW th \in Threads, NEW l \in Running \cup {"status", "reset", "markJob"},
               pc[th] \in Running \cup {"status", "next", "reset"},
               pc[th] \notin Running \cup {"status"} => l \in {"reset", "markJob"},
               Goto(th, l), UNCHANGED <<job, jobRow, up>>
        PROVE  ThreadsAgree'
    BY <1>a, <1>b, <1>c, <1>2 DEF ThreadsAgree, Running
  <1>3. ASSUME NEW th \in Threads,
               \/ SubmitTask(th) \/ WaitForResults(th) \/ LogBatch(th) \/ SendBatch(th)
               \/ Accepted(th) \/ Poll(th) \/ Raise(th) \/ ResetBackend(th)
        PROVE  ThreadsAgree'
    BY <1>2, <1>3 DEF SubmitTask, WaitForResults, LogBatch, SendBatch, Accepted, Poll,
                      Raise, ResetBackend, Running
  <1>4. ASSUME NEW th \in Threads, Collect(th) PROVE ThreadsAgree'
    <2>1. /\ pc[th] = "collect" /\ UNCHANGED <<job, jobRow, up>>
          /\ \E l \in {"collect", "poll", "status"} : Goto(th, l)
      BY <1>4 DEF Collect
    <2> QED BY <2>1, <1>2 DEF Running
  <1>5. ASSUME NEW th \in Threads, UpdateStatus(th) PROVE ThreadsAgree'
    BY <1>a, <1>b, <1>c, <1>5 DEF ThreadsAgree, UpdateStatus, StatusOf, Running
  <1>6. ASSUME NEW th \in Threads, MarkJobFailed(th) PROVE ThreadsAgree'
    BY <1>a, <1>b, <1>c, <1>6 DEF ThreadsAgree, MarkJobFailed, Running
  <1>7. ASSUME NEW th \in Threads, ReturnNext(th) \/ MarkTasksFailed(th) PROVE ThreadsAgree'
    BY <1>a, <1>b, <1>c, <1>7 DEF ThreadsAgree, ReturnNext, MarkTasksFailed, Running
  <1>8. CASE Crash BY <1>8 DEF ThreadsAgree, Crash, Running
  <1>9. CASE CleanUp BY <1>a, <1>b, <1>c, <1>9 DEF ThreadsAgree, CleanUp, Running
  <1>10. CASE PoolStep BY <1>b, <1>10, PoolFrame DEF ThreadsAgree
  <1>11. CASE UNCHANGED vars BY <1>b, <1>11 DEF ThreadsAgree, vars
  <1> QED BY <1>1, <1>3, <1>4, <1>5, <1>6, <1>7, <1>8, <1>9, <1>10, <1>11, NextSides
          DEF ServerStep, ThreadStep, RunStep, FailureStep

(* Collecting the last answer collects all: a backend that has one batch
   left to count has no other. *)
LEMMA LastBatch ==
    ASSUME NEW S, NEW T, IsFiniteSet(S), T \subseteq S, NEW b \in S \ T,
           ~ (Cardinality(T) + 1 < Cardinality(S))
    PROVE  S = T \cup {b}
  <1>1. IsFiniteSet(T) BY FS_Subset
  <1>2. Cardinality(T \cup {b}) = Cardinality(T) + 1 BY <1>1, FS_AddElement
  <1>3. /\ T \cup {b} \in SUBSET S /\ Cardinality(T) \in Nat /\ Cardinality(S) \in Nat
    BY <1>1, FS_CardinalityType
  <1>4. Cardinality(T \cup {b}) <= Cardinality(S) BY <1>3, FS_Subset
  <1>5. Cardinality(S) = Cardinality(T \cup {b}) BY <1>2, <1>3, <1>4
  <1> QED BY <1>3, <1>5, FS_Subset

(* The sets of a backend agree: those collected and to collect are sent and
   answered. *)
LEMMA StepBackend == RunAgrees /\ [Next]_vars => BackendAgrees'
  <1> SUFFICES ASSUME RunAgrees, [Next]_vars PROVE BackendAgrees' OBVIOUS
  <1> USE DEF database, server, batches, gauges, thread, gearmand, Goto
  <1>a. /\ pc \in [Threads -> Pcs] /\ made \in [Threads -> Nat]
        /\ open \in [Threads -> Batches] /\ sent \in [Threads -> SUBSET Batches]
        /\ arrived \in [Threads -> SUBSET Batches]
        /\ collected \in [Threads -> SUBSET Batches]
        /\ count \in [Threads -> Nat] /\ job \in [Threads -> Jobs \cup {NoJob}]
    BY DEF RunAgrees, TypeOK
  <1>b. BackendAgrees BY DEF RunAgrees
  <1>c. IsFiniteSet({}) /\ Cardinality({}) = 0 BY FS_EmptySet
  <1>1. ASSUME NEW th \in Threads, NEW j \in Jobs, StartJob(th, j) PROVE BackendAgrees'
    BY <1>a, <1>b, <1>1 DEF BackendAgrees, BackendOf, StartJob, Running
  <1>2. ASSUME NEW th \in Threads, SubmitTask(th) PROVE BackendAgrees'
    BY <1>a, <1>b, <1>2 DEF BackendAgrees, BackendOf, SubmitTask, Running
  <1>3. ASSUME NEW th \in Threads, WaitForResults(th) PROVE BackendAgrees'
    BY <1>a, <1>b, <1>3 DEF BackendAgrees, BackendOf, WaitForResults, Running
  <1>4. ASSUME NEW th \in Threads, LogBatch(th) PROVE BackendAgrees'
    BY <1>a, <1>b, <1>4 DEF BackendAgrees, BackendOf, LogBatch, Running
  <1>5. ASSUME NEW th \in Threads, SendBatch(th) PROVE BackendAgrees'
    <2>1. IsFiniteSet(sent[th] \cup {open[th]})
      BY <1>b, FS_AddElement DEF BackendAgrees, BackendOf
    <2> QED BY <1>a, <1>b, <1>5, <2>1 DEF BackendAgrees, BackendOf, SendBatch, Running
  <1>6. ASSUME NEW th \in Threads, Accepted(th) \/ UpdateStatus(th) \/ ReturnNext(th)
               \/ MarkJobFailed(th) \/ MarkTasksFailed(th)
        PROVE  BackendAgrees'
    BY <1>a, <1>b, <1>6 DEF BackendAgrees, BackendOf, Accepted, UpdateStatus, ReturnNext,
                            MarkJobFailed, MarkTasksFailed, Running
  <1>7. ASSUME NEW th \in Threads, Poll(th) PROVE BackendAgrees'
    BY <1>a, <1>b, <1>7 DEF BackendAgrees, BackendOf, Poll, Running
  <1>8. ASSUME NEW th \in Threads, Collect(th) PROVE BackendAgrees'
    <2>1. PICK b \in arrived[th] : Collect(th)!2!(b) BY <1>8 DEF Collect
    <2>2. /\ pc[th] = "collect" /\ pc' \in [Threads -> Pcs]
          /\ \A u \in Threads \ {th} :
                 /\ pc'[u] = pc[u] /\ sent'[u] = sent[u] /\ arrived'[u] = arrived[u]
                 /\ collected'[u] = collected[u] /\ count'[u] = count[u]
          /\ UNCHANGED <<open, job, made, completed, failed>>
      BY <1>a, <1>8, <2>1 DEF Collect, Pcs
    <2>3. /\ arrived'[th] = arrived[th] \ {b}
          /\ IF GoesOn(th, b)
             THEN /\ collected'[th] = collected[th] \cup {b} /\ count'[th] = count[th] + 1
                  /\ pc'[th] = (IF arrived[th] # {b} THEN "collect" ELSE "poll")
                  /\ sent'[th] = sent[th]
             ELSE /\ collected'[th] = {} /\ count'[th] = 0 /\ sent'[th] = {}
                  /\ pc'[th] = "status"
      BY <1>a, <2>1
    <2>4. /\ IsFiniteSet(sent[th]) /\ {} \notin sent[th] /\ collected[th] \subseteq sent[th]
          /\ arrived[th] \subseteq sent[th] \ collected[th]
          /\ arrived[th] \cup collected[th] \subseteq completed \cup failed
          /\ count[th] = Cardinality(collected[th]) /\ open[th] = {}
          /\ made[th] = Size[job[th]]
      BY <1>b, <2>2 DEF BackendAgrees, BackendOf
    <2>5. /\ b \notin collected[th] /\ b \in sent[th] /\ b \in completed \cup failed
          /\ Cardinality(collected[th] \cup {b}) = count[th] + 1
      <3>1. IsFiniteSet(collected[th]) BY <2>4, FS_Subset
      <3>2. b \notin collected[th] /\ b \in sent[th] /\ b \in completed \cup failed
        BY <2>4
      <3> QED BY <2>4, <3>1, <3>2, FS_AddElement
    <2>6. ASSUME NEW u \in Threads \ {th} PROVE BackendOf(u)'
      BY <1>b, <2>2 DEF BackendAgrees, BackendOf
    <2>7. BackendOf(th)'
      <3>1. CASE GoesOn(th, b)
        <4>1. /\ collected'[th] = collected[th] \cup {b} /\ sent'[th] = sent[th]
              /\ pc'[th] \in {"collect", "poll"} /\ count'[th] = count[th] + 1
          BY <2>3, <3>1
        <4>2. /\ collected'[th] \subseteq sent'[th]
              /\ arrived'[th] \subseteq sent'[th] \ collected'[th]
              /\ arrived'[th] \cup collected'[th] \subseteq completed' \cup failed'
          BY <2>2, <2>3, <2>4, <2>5, <4>1
        <4>3. IsFiniteSet(sent'[th]) /\ count'[th] = Cardinality(collected'[th])
          BY <2>4, <2>5, <4>1
        <4> QED BY <2>2, <2>4, <4>1, <4>2, <4>3 DEF BackendOf, Running
      <3>2. CASE ~ GoesOn(th, b)
        <4>1. arrived'[th] = {} BY <2>3, <3>2 DEF GoesOn
        <4> QED BY <1>c, <2>2, <2>3, <2>4, <3>2, <4>1 DEF BackendOf, Running
      <3> QED BY <3>1, <3>2
    <2> QED BY <2>6, <2>7 DEF BackendAgrees, BackendOf
  <1>9. ASSUME NEW th \in Threads, Raise(th) PROVE BackendAgrees'
    BY <1>a, <1>b, <1>9 DEF BackendAgrees, BackendOf, Raise, Running
  <1>10. ASSUME NEW th \in Threads, ResetBackend(th) PROVE BackendAgrees'
    BY <1>a, <1>b, <1>c, <1>10
       DEF BackendAgrees, BackendOf, ResetBackend, ClearSent, Disconnect, Running
  <1>11. CASE Crash BY <1>c, <1>11 DEF BackendAgrees, BackendOf, Crash, Running
  <1>12. CASE CleanUp BY <1>b, <1>12 DEF BackendAgrees, BackendOf, CleanUp
  <1>13. CASE PoolStep
    <2>1. completed \cup failed \subseteq completed' \cup failed'
      BY <1>13, AnsweredStays
    <2> QED BY <1>b, <1>13, <2>1, PoolFrame DEF BackendAgrees, BackendOf
  <1>14. CASE UNCHANGED vars BY <1>b, <1>14 DEF BackendAgrees, BackendOf, vars
  <1> QED BY <1>1, <1>2, <1>3, <1>4, <1>5, <1>6, <1>7, <1>8, <1>9, <1>10, <1>11, <1>12,
             <1>13, <1>14, NextSides
          DEF ServerStep, ThreadStep, RunStep, FailureStep

(* A batch holds tasks of the job of its thread, and no task that was made is
   forgotten while the job waits for answers. *)
LEMMA StepTasks == RunAgrees /\ [Next]_vars => TasksAgree'
  <1> SUFFICES ASSUME RunAgrees, [Next]_vars PROVE TasksAgree' OBVIOUS
  <1> USE DEF database, server, batches, gauges, thread, gearmand, Goto
  <1>a. /\ pc \in [Threads -> Pcs] /\ made \in [Threads -> Nat]
        /\ open \in [Threads -> Batches] /\ sent \in [Threads -> SUBSET Batches]
        /\ job \in [Threads -> Jobs \cup {NoJob}]
    BY DEF RunAgrees, TypeOK
  <1>b. TasksAgree BY DEF RunAgrees
  <1>c. \A th \in Threads :
            /\ pc[th] # "idle" => job[th] \in Jobs /\ Size[job[th]] \in Nat
            /\ pc[th] \notin Running \cup {"reset"} => open[th] = {} /\ sent[th] = {}
            /\ pc[th] = "idle" => open[th] = {} /\ sent[th] = {}
    BY <1>a, TaskFacts DEF RunAgrees, ThreadsAgree, BackendAgrees, BackendOf, Running
  <1>1. ASSUME NEW th \in Threads, NEW j \in Jobs, StartJob(th, j) PROVE TasksAgree'
    BY <1>a, <1>b, <1>c, <1>1, TaskFacts DEF TasksAgree, StartJob, Running
  <1>2. ASSUME NEW th \in Threads, SubmitTask(th) PROVE TasksAgree'
    <2> DEFINE t == <<job[th], made[th] + 1>>
    <2>1. /\ job[th] \in Jobs /\ made[th] \in Nat /\ made[th] + 1 <= Size[job[th]]
          /\ pc[th] \in Running
      BY <1>a, <1>c, <1>2 DEF SubmitTask, Running
    <2>2. t \in TasksOf(job[th]) /\ t[2] = made[th] + 1 BY <2>1, TaskFacts
    <2>3. /\ made'[th] = made[th] + 1 /\ open'[th] = open[th] \cup {t}
          /\ \A u \in Threads \ {th} :
                 made'[u] = made[u] /\ open'[u] = open[u] /\ pc'[u] = pc[u]
          /\ UNCHANGED <<job, sent>>
      BY <1>a, <1>2 DEF SubmitTask
    <2> HIDE DEF t
    <2>4. ASSUME NEW x \in TasksOf(job[th]), x[2] <= made[th] + 1
          PROVE  x[2] <= made[th] \/ x = t
      BY <2>1, <2>2, <2>4, TaskFacts
    <2>5. ASSUME NEW x \in open'[th] \cup UNION sent[th]
          PROVE  x \in TasksOf(job[th]) /\ x[2] <= made[th] + 1
      <3>1. CASE x = t BY <2>1, <2>2, <3>1
      <3>2. CASE x # t
        <4>1. x \in TasksOf(job[th]) /\ x[2] <= made[th]
          BY <1>b, <2>3, <2>5, <3>2 DEF TasksAgree
        <4> QED BY <2>1, <4>1, TaskFacts
      <3> QED BY <3>1, <3>2
    <2>6. ASSUME NEW x \in TasksOf(job[th]), x[2] <= made[th] + 1
          PROVE  x \in open'[th] \/ \E b \in sent[th] : x \in b
      BY <1>b, <2>1, <2>3, <2>4, <2>6 DEF TasksAgree
    <2> QED BY <1>b, <2>1, <2>3, <2>5, <2>6 DEF TasksAgree
  <1>3. ASSUME NEW th \in Threads, SendBatch(th) PROVE TasksAgree'
    <2>1. /\ sent'[th] = sent[th] \cup {open[th]} /\ open'[th] = {} /\ pc[th] \in Running
          /\ \A u \in Threads \ {th} :
                 sent'[u] = sent[u] /\ open'[u] = open[u] /\ pc'[u] = pc[u]
          /\ UNCHANGED <<job, made>>
      BY <1>a, <1>3 DEF SendBatch, Running
    <2> QED BY <1>b, <2>1 DEF TasksAgree
  <1>4. ASSUME NEW th \in Threads, NEW l \in Pcs, Goto(th, l),
               l \in Running => pc[th] \in Running,
               \/ sent'[th] = sent[th] /\ open'[th] = open[th]
               \/ sent'[th] = {} /\ open'[th] = {} /\ l \notin Running,
               \A u \in Threads \ {th} : sent'[u] = sent[u] /\ open'[u] = open[u],
               UNCHANGED <<job, made>>
        PROVE  TasksAgree'
    BY <1>a, <1>b, <1>4 DEF TasksAgree
  <1>5. ASSUME NEW th \in Threads,
               \/ WaitForResults(th) \/ LogBatch(th) \/ Accepted(th) \/ Poll(th)
               \/ UpdateStatus(th) \/ Raise(th) \/ MarkJobFailed(th)
        PROVE  TasksAgree'
    BY <1>4, <1>5 DEF WaitForResults, LogBatch, Accepted, Poll, UpdateStatus, Raise,
                      MarkJobFailed, Running, Pcs
  <1>6. ASSUME NEW th \in Threads, ReturnNext(th) \/ MarkTasksFailed(th)
        PROVE  TasksAgree'
    BY <1>a, <1>b, <1>c, <1>6 DEF ReturnNext, MarkTasksFailed, TasksAgree, Running
  <1>7. ASSUME NEW th \in Threads, Collect(th) PROVE TasksAgree'
    <2>1. PICK b \in arrived[th] : Collect(th)!2!(b) BY <1>7 DEF Collect
    <2>2. UNCHANGED <<job, made, open>> /\ pc[th] \in Running
      BY <1>7 DEF Collect, Running
    <2>3. CASE GoesOn(th, b)
      <3>1. \E l \in {"collect", "poll"} : Goto(th, l) BY <2>1, <2>3
      <3> QED BY <2>1, <2>2, <2>3, <3>1, <1>4 DEF Running, Pcs
    <2>4. CASE ~ GoesOn(th, b)
      <3>1. open[th] = {}
        BY <1>7 DEF Collect, RunAgrees, BackendAgrees, BackendOf
      <3> QED BY <1>a, <2>1, <2>2, <2>4, <3>1, <1>4 DEF Running, Pcs
    <2> QED BY <2>3, <2>4
  <1>8. ASSUME NEW th \in Threads, ResetBackend(th) PROVE TasksAgree'
    BY <1>a, <1>4, <1>8 DEF ResetBackend, ClearSent, Running, Pcs
  <1>9. CASE Crash BY <1>9 DEF TasksAgree, Crash, Running
  <1>10. CASE CleanUp BY <1>b, <1>10 DEF TasksAgree, CleanUp
  <1>11. CASE PoolStep BY <1>b, <1>11, PoolFrame DEF TasksAgree
  <1>12. CASE UNCHANGED vars BY <1>b, <1>12 DEF TasksAgree, vars
  <1> QED BY <1>1, <1>2, <1>3, <1>5, <1>6, <1>7, <1>8, <1>9, <1>10, <1>11, <1>12, NextSides
          DEF ServerStep, ThreadStep, RunStep, FailureStep

(* Batches forgotten or kept by the Gearman server were there before. *)
LEMMA Disconnected ==
    ASSUME PlacesAgree, NEW bs, Disconnect(bs), UNCHANGED <<at, wpc>>
    PROVE  PlacesAgree' /\ Gone' \subseteq Gone
  <1>1. /\ UNCHANGED <<completed, failed>> /\ unacked' \cap queued' = {}
        /\ unacked' \subseteq unacked /\ queued' \subseteq unacked \cup queued
    BY DEF Disconnect, PlacesAgree
  <1>2. Elsewhere' \subseteq Elsewhere BY <1>1 DEF Elsewhere
  <1>3. Gone' \subseteq Gone BY <1>2 DEF Gone
  <1> QED BY <1>1, <1>2, <1>3 DEF PlacesAgree

(* A batch is in one place, and no two batches there share a task. *)
LEMMA StepPlaces == RunAgrees /\ [Next]_vars => PlacesAgree'
  <1> SUFFICES ASSUME RunAgrees, [Next]_vars PROVE PlacesAgree' OBVIOUS
  <1> USE DEF database, server, batches, gauges, thread, gearmand, client
  <1>a. /\ wpc \in [Workers -> WorkerPcs] /\ at \in [Workers -> Batches]
    BY DEF RunAgrees, TypeOK
  <1>b. PlacesAgree BY DEF RunAgrees
  <1>1. ASSUME NEW th \in Threads, SendBatch(th) PROVE PlacesAgree'
    <2>1. open[th] # {} /\ \A b \in Gone : b \cap open[th] = {}
      BY <1>1 DEF SendBatch, RunAgrees, BackendAgrees, BackendOf, FreshAgrees
    <2>2. open[th] \notin Gone BY <2>1
    <2>3. /\ unacked' = unacked \cup {open[th]} /\ Gone' = Gone \cup {open[th]}
          /\ Elsewhere' = Elsewhere \cup {open[th]}
          /\ UNCHANGED <<queued, completed, failed, at, wpc>>
      BY <1>1 DEF SendBatch, Gone, Elsewhere
    <2>4. \A b, c \in Gone' : b = c \/ b \cap c = {} BY <1>b, <2>1, <2>3 DEF PlacesAgree
    <2>5. \A w \in Workers : at'[w] \notin Elsewhere'
      BY <1>b, <2>2, <2>3 DEF PlacesAgree, Gone
    <2> QED BY <1>b, <2>1, <2>2, <2>3, <2>4, <2>5 DEF PlacesAgree, Gone, Elsewhere
  <1>2. ASSUME NEW th \in Threads, ResetBackend(th) PROVE PlacesAgree'
    BY <1>b, <1>2, Disconnected DEF ResetBackend
  <1>3. CASE Crash BY <1>b, <1>3, Disconnected DEF Crash
  <1>4. ASSUME UNCHANGED <<gearmand, at, wpc>> PROVE PlacesAgree'
    BY <1>b, <1>4 DEF PlacesAgree, Gone, Elsewhere
  <1>5. ASSUME NEW th \in Threads,
               \/ SubmitTask(th) \/ WaitForResults(th) \/ LogBatch(th) \/ Accepted(th)
               \/ Poll(th) \/ Collect(th) \/ UpdateStatus(th) \/ ReturnNext(th)
               \/ Raise(th) \/ MarkJobFailed(th) \/ MarkTasksFailed(th)
        PROVE  UNCHANGED <<gearmand, at, wpc>>
    BY <1>5 DEF SubmitTask, WaitForResults, LogBatch, Accepted, Poll, Collect,
                UpdateStatus, ReturnNext, Raise, MarkJobFailed, MarkTasksFailed
  <1>6. ASSUME NEW th \in Threads, NEW j \in Jobs, StartJob(th, j)
        PROVE  UNCHANGED <<gearmand, at, wpc>>
    BY <1>6 DEF StartJob
  <1>7. CASE CleanUp BY <1>4, <1>7 DEF CleanUp
  <1>8. ASSUME NEW b \in unacked, Accept(b) PROVE PlacesAgree'
    <2>1. /\ unacked' = unacked \ {b} /\ queued' = queued \cup {b}
          /\ UNCHANGED <<completed, failed, at, wpc>>
      BY <1>8 DEF Accept
    <2>2. Elsewhere' = Elsewhere /\ Gone' = Gone BY <1>8, <2>1 DEF Elsewhere, Gone
    <2> QED BY <1>b, <1>8, <2>1, <2>2 DEF PlacesAgree
  <1>9. ASSUME NEW w \in Workers, NEW b \in queued, Grab(w, b) PROVE PlacesAgree'
    <2>1. /\ queued' = queued \ {b} /\ at' = [at EXCEPT ![w] = b]
          /\ wpc' = [wpc EXCEPT ![w] = "script"] /\ wpc[w] = "idle"
          /\ UNCHANGED <<unacked, completed, failed>>
      BY <1>9 DEF Grab
    <2>2. Elsewhere' = Elsewhere \ {b} /\ b \in Elsewhere
      BY <1>b, <1>9, <2>1 DEF PlacesAgree, Elsewhere
    <2>3. Gone' \subseteq Gone BY <1>a, <2>1, <2>2 DEF Gone
    <2>4. b # {} /\ \A v \in Workers : at[v] # b BY <1>b, <2>2 DEF PlacesAgree
    <2>5. \A v \in Workers : at'[v] \notin Elsewhere'
      BY <1>a, <1>b, <2>1, <2>2, <2>4 DEF PlacesAgree
    <2>6. /\ \A v \in Workers : at'[v] # {} <=> wpc'[v] \in {"script", "save"}
          /\ \A u, v \in Workers : at'[u] = at'[v] /\ at'[u] # {} => u = v
      BY <1>a, <1>b, <2>1, <2>4 DEF PlacesAgree
    <2> QED BY <1>b, <2>1, <2>2, <2>3, <2>5, <2>6 DEF PlacesAgree
  <1>10. ASSUME NEW w \in Workers, RunScript(w) PROVE PlacesAgree'
    BY <1>a, <1>b, <1>10 DEF PlacesAgree, Gone, Elsewhere, RunScript
  <1>11. ASSUME NEW w \in Workers, SaveTask(w) \/ LeaveIdle(w) PROVE PlacesAgree'
    BY <1>a, <1>b, <1>11 DEF PlacesAgree, Gone, Elsewhere, SaveTask, LeaveIdle
  <1>12. ASSUME NEW w \in Workers, at' = [at EXCEPT ![w] = {}],
                wpc' \in [Workers -> WorkerPcs], wpc'[w] \in {"down", "idle"},
                \A v \in Workers \ {w} : wpc'[v] = wpc[v],
                Elsewhere' \subseteq Elsewhere \cup ({at[w]} \ {{}}),
                unacked' \cap queued' = {}, unacked' \cap completed' = {},
                unacked' \cap failed' = {}, queued' \cap completed' = {},
                queued' \cap failed' = {}, completed' \cap failed' = {}
         PROVE  PlacesAgree'
    <2>1. /\ at'[w] = {} /\ \A v \in Workers \ {w} : at'[v] = at[v]
      BY <1>a, <1>12
    <2>2. \A b, c \in Gone' : b = c \/ b \cap c = {}
      <3>1. \A b \in Gone' : b = {} \/ b \in Gone BY <1>12, <2>1 DEF Gone
      <3> QED BY <1>b, <3>1 DEF PlacesAgree
    <2>3. \A v \in Workers : at'[v] \notin Elsewhere'
      BY <1>b, <1>12, <2>1 DEF PlacesAgree
    <2>4. {} \notin Elsewhere' BY <1>b, <1>12 DEF PlacesAgree
    <2> QED BY <1>b, <1>12, <2>1, <2>2, <2>3, <2>4 DEF PlacesAgree
  <1>13. ASSUME NEW w \in Workers, AnswerBatch(w) \/ FailBatch(w) \/ Kill(w)
         PROVE  PlacesAgree'
    <2>1. /\ at' = [at EXCEPT ![w] = {}] /\ wpc' \in [Workers -> WorkerPcs]
          /\ wpc'[w] \in {"down", "idle"} /\ \A v \in Workers \ {w} : wpc'[v] = wpc[v]
      BY <1>a, <1>13 DEF AnswerBatch, FailBatch, Kill, AfterPoll, WorkerPcs
    <2>2. at[w] \notin Elsewhere BY <1>b DEF PlacesAgree
    <2>3. \/ /\ completed' = completed \cup {at[w]} /\ at[w] # {}
             /\ UNCHANGED <<unacked, queued, failed>>
          \/ /\ failed' = failed \cup {at[w]} /\ at[w] # {}
             /\ UNCHANGED <<unacked, queued, completed>>
          \/ /\ queued' \in {queued, queued \cup ({at[w]} \ {{}})}
             /\ UNCHANGED <<unacked, completed, failed>>
      BY <1>b, <1>13 DEF AnswerBatch, FailBatch, Kill, PlacesAgree
    <2>4. /\ Elsewhere' \subseteq Elsewhere \cup ({at[w]} \ {{}})
          /\ unacked' \cap queued' = {} /\ unacked' \cap completed' = {}
          /\ unacked' \cap failed' = {} /\ queued' \cap completed' = {}
          /\ queued' \cap failed' = {} /\ completed' \cap failed' = {}
      BY <1>b, <2>2, <2>3 DEF PlacesAgree, Elsewhere
    <2> QED BY <1>12, <2>1, <2>4
  <1>14. CASE StopPool BY <1>4, <1>14 DEF StopPool
  <1>15. CASE StartPool \/ RestartExited
    <2>1. /\ UNCHANGED <<gearmand, at>>
          /\ \A w \in Workers :
                 wpc'[w] \in {"script", "save"} <=> wpc[w] \in {"script", "save"}
      BY <1>a, <1>15 DEF StartPool, RestartExited
    <2> QED BY <1>b, <2>1 DEF PlacesAgree, Gone, Elsewhere
  <1>16. CASE UNCHANGED vars BY <1>4, <1>16 DEF vars
  <1> QED
    <2>1. ASSUME NEW w \in Workers, Take(w) \/ Work(w) \/ FailBatch(w) \/ Die(w)
          PROVE  PlacesAgree'
      BY <2>1, <1>9, <1>10, <1>11, <1>13 DEF Take, Work, Die, Terminate
    <2> QED BY <2>1, <1>1, <1>2, <1>3, <1>4, <1>5, <1>6, <1>7, <1>8, <1>14, <1>15, <1>16
            DEF Next, AcceptAny, ThreadStep, RunStep, FailureStep

(* How the row of a task changes: it is created, marked while it has no exit
   code, written by the worker that saves its batch, or marked by the worker
   whose script failed. *)
RowMoved(t) ==
    \/ row'[t] = row[t]
    \/ row'[t] = Null /\ \E th \in Threads : LogBatch(th) /\ t \in open[th]
    \/ row[t] = Null /\ row'[t] \in Int
    \/ /\ row'[t] = code[t] /\ code[t] \in Int
       /\ \E w \in Workers : wpc[w] = "save" /\ t \in unsaved[w]
    \/ row'[t] = 1 /\ \E w \in Workers : wpc[w] = "script" /\ t \in at[w]

(* Every step moves the row of a task in one of the ways of RowMoved. *)
LEMMA RowMoves == ASSUME RunAgrees, [Next]_vars, NEW t \in Tasks PROVE RowMoved(t)
  <1> USE DEF RowMoved
  <1> USE DEF database
  <1>a. row \in [Tasks -> Codes] BY DEF RunAgrees, TypeOK
  <1>1. ASSUME NEW th \in Threads, RunStep(th) PROVE RowMoved(t)
    <2>1. CASE LogBatch(th)
      <3>1. row'[t] = IF t \in open[th] THEN Null ELSE row[t] BY <2>1 DEF LogBatch
      <3> QED BY <2>1, <3>1
    <2>2. CASE Collect(th)
      <3>1. PICK b \in arrived[th] : Collect(th)!2!(b) BY <2>2 DEF Collect
      <3>2. row'[t] = Marked(b, t) BY <3>1
      <3> QED BY <3>2 DEF Marked
    <2>3. CASE SubmitTask(th) \/ WaitForResults(th) \/ SendBatch(th) \/ Accepted(th)
               \/ Poll(th) \/ UpdateStatus(th) \/ ReturnNext(th)
      BY <2>3 DEF SubmitTask, WaitForResults, SendBatch, Accepted, Poll, UpdateStatus,
                  ReturnNext
    <2> QED BY <1>1, <2>1, <2>2, <2>3 DEF RunStep
  <1>2. ASSUME NEW th \in Threads, FailureStep(th) \/ Raise(th) PROVE RowMoved(t)
    <2>1. CASE MarkTasksFailed(th)
      <3>1. \/ UNCHANGED row
            \/ row'[t] = IF t \in TasksOf(job[th]) /\ row[t] = Null THEN 1 ELSE row[t]
        BY <2>1 DEF MarkTasksFailed
      <3> QED BY <3>1
    <2>2. CASE ResetBackend(th) \/ MarkJobFailed(th) \/ Raise(th)
      BY <2>2 DEF ResetBackend, MarkJobFailed, Raise
    <2> QED BY <1>2, <2>1, <2>2 DEF FailureStep
  <1>3. ASSUME NEW th \in Threads, NEW j \in Jobs, StartJob(th, j) PROVE RowMoved(t)
    BY <1>3 DEF StartJob
  <1>4. CASE Crash BY <1>4 DEF Crash
  <1>5. CASE CleanUp
    <2>1. row'[t] = IF row[t] = Null THEN -1 ELSE row[t] BY <1>5 DEF CleanUp
    <2> QED BY <2>1
  <1>6. ASSUME NEW w \in Workers, Take(w) \/ Work(w) \/ FailBatch(w) \/ Die(w)
        PROVE  RowMoved(t)
    <2>1. CASE SaveTask(w)
      <3>1. PICK u \in unsaved[w] : row' = [row EXCEPT ![u] = code[u]]
        BY <2>1 DEF SaveTask
      <3>2. wpc[w] = "save" BY <2>1 DEF SaveTask
      <3>3. u \in at[w] /\ code[u] \in Int BY <3>2 DEF RunAgrees, RowsAgree
      <3> QED BY <1>a, <3>1, <3>2, <3>3
    <2>2. CASE Take(w) \/ Die(w) BY <2>2 DEF Take, Grab, Die, Kill
    <2>3. CASE RunScript(w) \/ AnswerBatch(w) \/ LeaveIdle(w) \/ Terminate(w)
      BY <2>3 DEF RunScript, AnswerBatch, LeaveIdle, Terminate, Kill
    <2>4. CASE FailBatch(w)
      <3>1. \/ UNCHANGED row
            \/ wpc[w] = "script" /\ row'[t] = IF t \in at[w] THEN 1 ELSE row[t]
        BY <2>4 DEF FailBatch
      <3> QED BY <3>1
    <2> QED BY <1>6, <2>1, <2>2, <2>3, <2>4 DEF Work
  <1>7. CASE AcceptAny \/ StopPool \/ StartPool \/ RestartExited
    BY <1>7 DEF AcceptAny, Accept, StopPool, StartPool, RestartExited
  <1>8. CASE UNCHANGED vars BY <1>8 DEF vars
  <1> QED BY <1>1, <1>2, <1>3, <1>4, <1>5, <1>6, <1>7, <1>8 DEF Next, ThreadStep

(* The exit codes of a batch change only while a worker runs its script. *)
LEMMA CodeMoves ==
    ASSUME RunAgrees, [Next]_vars, NEW t \in Tasks
    PROVE  code'[t] = code[t] \/ \E w \in Workers : wpc[w] = "script" /\ t \in at[w]
  <1> DEFINE Moved ==
          code'[t] = code[t] \/ \E w \in Workers : wpc[w] = "script" /\ t \in at[w]
  <1> USE DEF client
  <1>1. ASSUME NEW w \in Workers, Take(w) \/ Work(w) \/ FailBatch(w) \/ Die(w)
        PROVE  Moved
    <2>1. CASE RunScript(w)
      <3>1. PICK result \in [at[w] -> ExitCodes] :
                code' = [u \in Tasks |-> IF u \in at[w] THEN result[u] ELSE code[u]]
        BY <2>1 DEF RunScript
      <3>2. t \notin at[w] => code'[t] = code[t] BY <3>1
      <3> QED BY <2>1, <3>2 DEF RunScript
    <2>2. CASE Take(w) \/ FailBatch(w) \/ Die(w)
      BY <2>2 DEF Take, Grab, FailBatch, Die, Kill
    <2>3. CASE SaveTask(w) \/ AnswerBatch(w) \/ LeaveIdle(w) \/ Terminate(w)
      BY <2>3 DEF SaveTask, AnswerBatch, LeaveIdle, Terminate, Kill
    <2> QED BY <1>1, <2>1, <2>2, <2>3 DEF Work
  <1>2. CASE AcceptAny \/ StopPool \/ StartPool \/ RestartExited
    BY <1>2 DEF AcceptAny, Accept, StopPool, StartPool, RestartExited
  <1>3. CASE ServerStep BY <1>3, ServerFrame
  <1>4. CASE UNCHANGED vars BY <1>4 DEF vars
  <1>5. Moved BY <1>1, <1>2, <1>3, <1>4, NextSides DEF PoolStep
  <1> QED BY <1>5

(* A job that was started stays started. *)
LEMMA JobsStayStarted ==
    ASSUME RunAgrees, [Next]_vars, NEW j \in Jobs, jobRow[j] # "none"
    PROVE  jobRow'[j] # "none"
  <1> USE DEF database, server, batches, gauges, thread
  <1>a. jobRow \in [Jobs -> JobStatuses] BY DEF RunAgrees, TypeOK
  <1>1. ASSUME NEW th \in Threads, RunStep(th) PROVE jobRow'[j] # "none"
    <2>1. CASE UpdateStatus(th) BY <1>a, <2>1 DEF UpdateStatus, StatusOf
    <2>2. CASE SubmitTask(th) \/ WaitForResults(th) \/ LogBatch(th) \/ SendBatch(th)
               \/ Accepted(th) \/ Poll(th) \/ Collect(th) \/ ReturnNext(th)
      BY <2>2 DEF SubmitTask, WaitForResults, LogBatch, SendBatch, Accepted, Poll,
                  Collect, ReturnNext
    <2> QED BY <1>1, <2>1, <2>2 DEF RunStep
  <1>2. ASSUME NEW th \in Threads, FailureStep(th) \/ Raise(th)
        PROVE  jobRow'[j] # "none"
    BY <1>a, <1>2 DEF FailureStep, Raise, ResetBackend, MarkJobFailed, MarkTasksFailed
  <1>3. ASSUME NEW th \in Threads, NEW k \in Jobs, StartJob(th, k)
        PROVE  jobRow'[j] # "none"
    BY <1>a, <1>3 DEF StartJob
  <1>4. CASE Crash \/ CleanUp BY <1>a, <1>4 DEF Crash, CleanUp
  <1>5. CASE PoolStep BY <1>5, PoolFrame
  <1>6. CASE UNCHANGED vars BY <1>6 DEF vars
  <1> QED BY <1>1, <1>2, <1>3, <1>4, <1>5, <1>6, NextSides DEF ServerStep, ThreadStep

(* Only a batch that is sent joins those that left their threads. *)
LEMMA GoneMoves ==
    ASSUME RunAgrees, [Next]_vars, NEW b \in Gone'
    PROVE  b = {} \/ b \in Gone \/ \E th \in Threads : SendBatch(th) /\ b = open[th]
  <1> DEFINE Moved ==
          b = {} \/ b \in Gone \/ \E th \in Threads : SendBatch(th) /\ b = open[th]
  <1> USE DEF gearmand, client
  <1>a. at \in [Workers -> Batches] BY DEF RunAgrees, TypeOK
  <1>b. PlacesAgree BY DEF RunAgrees
  <1>1. ASSUME UNCHANGED <<gearmand, at>> PROVE Moved BY <1>1 DEF Gone, Elsewhere
  <1>2. ASSUME NEW th \in Threads, ThreadStep(th) \/ Raise(th) PROVE Moved
    <2>1. CASE SendBatch(th)
      <3>1. Gone' = Gone \cup {open[th]} BY <2>1 DEF SendBatch, Gone, Elsewhere
      <3> QED BY <2>1, <3>1
    <2>2. CASE ResetBackend(th)
      BY <1>b, <2>2, Disconnected DEF ResetBackend
    <2>3. CASE SubmitTask(th) \/ WaitForResults(th) \/ LogBatch(th) \/ Accepted(th)
               \/ Poll(th) \/ Collect(th) \/ UpdateStatus(th) \/ ReturnNext(th)
               \/ Raise(th) \/ MarkJobFailed(th) \/ MarkTasksFailed(th)
      BY <1>1, <2>3 DEF SubmitTask, WaitForResults, LogBatch, Accepted, Poll, Collect,
                UpdateStatus, ReturnNext, Raise, MarkJobFailed, MarkTasksFailed
    <2> QED BY <1>2, <2>1, <2>2, <2>3 DEF ThreadStep, RunStep, FailureStep
  <1>3. ASSUME NEW th \in Threads, NEW j \in Jobs, StartJob(th, j) PROVE Moved
    BY <1>1, <1>3 DEF StartJob
  <1>4. CASE Crash BY <1>b, <1>4, Disconnected DEF Crash
  <1>5. CASE CleanUp \/ StopPool \/ StartPool \/ RestartExited
    BY <1>1, <1>5 DEF CleanUp, StopPool, StartPool, RestartExited
  <1>6. CASE AcceptAny BY <1>6 DEF AcceptAny, Accept, Gone, Elsewhere
  <1>7. ASSUME NEW w \in Workers, Take(w) \/ Work(w) \/ FailBatch(w) \/ Die(w)
        PROVE  Moved
    <2>1. CASE Take(w) BY <1>a, <2>1 DEF Take, Grab, Gone, Elsewhere
    <2>2. CASE RunScript(w) \/ SaveTask(w) \/ LeaveIdle(w)
      BY <1>1, <2>2 DEF RunScript, SaveTask, LeaveIdle
    <2>3. CASE AnswerBatch(w) \/ FailBatch(w) \/ Kill(w)
      BY <1>a, <2>3 DEF AnswerBatch, FailBatch, Kill, Gone, Elsewhere
    <2> QED BY <1>7, <2>1, <2>2, <2>3 DEF Work, Die, Terminate
  <1>8. CASE UNCHANGED vars BY <1>1, <1>8 DEF vars
  <1>9. Moved
    BY <1>2, <1>3, <1>4, <1>5, <1>6, <1>7, <1>8 DEF Next
  <1> QED BY <1>9

(* A thread at work keeps its job and adds to it one task at a time, or has
   just started it. *)
ThreadMoved(u) ==
    /\ pc'[u] \in Running =>
           \/ job'[u] \in Jobs /\ jobRow[job'[u]] = "none"
           \/ pc[u] \in Running /\ job'[u] = job[u] /\ made[u] <= made'[u]
    /\ \A t \in open'[u] :
           \/ t \in open[u]
           \/ pc[u] = "submit" /\ made[u] < Size[job[u]] /\ t = <<job[u], made[u] + 1>>
    /\ pc'[u] = "send" => open'[u] = open[u] /\ (pc[u] = "send" \/ LogBatch(u))

(* Every step moves a thread in one of the ways of ThreadMoved. *)
LEMMA ThreadMoves == ASSUME RunAgrees, [Next]_vars, NEW u \in Threads PROVE ThreadMoved(u)
  <1> USE DEF ThreadMoved
  <1> USE DEF database, server, batches, gauges, thread, Goto
  <1>a. /\ pc \in [Threads -> Pcs] /\ job \in [Threads -> Jobs \cup {NoJob}]
        /\ made \in [Threads -> Nat] /\ open \in [Threads -> Batches]
    BY DEF RunAgrees, TypeOK
  <1>1. ASSUME pc'[u] = pc[u], job'[u] = job[u], made'[u] = made[u], open'[u] = open[u]
        PROVE  ThreadMoved(u)
    BY <1>a, <1>1
  <1>2. ASSUME NEW th \in Threads, ThreadStep(th) \/ Raise(th) PROVE ThreadMoved(u)
    <2>1. CASE u # th
      BY <1>1, <1>a, <1>2, <2>1
         DEF ThreadStep, RunStep, FailureStep, SubmitTask, WaitForResults, LogBatch,
             SendBatch, Accepted, Poll, Collect, UpdateStatus, ReturnNext, Raise,
             ResetBackend, MarkJobFailed, MarkTasksFailed
    <2>2. CASE u = th
      <3>1. CASE SubmitTask(th) BY <1>a, <2>2, <3>1 DEF SubmitTask, Running
      <3>2. CASE LogBatch(th) BY <1>a, <2>2, <3>2 DEF LogBatch, Running
      <3>3. CASE SendBatch(th) BY <1>a, <2>2, <3>3 DEF SendBatch, Running
      <3>4. CASE ResetBackend(th) BY <1>a, <2>2, <3>4 DEF ResetBackend, Running
      <3>5. CASE Collect(th)
        <4>1. /\ pc[th] = "collect" /\ pc'[th] \in {"collect", "poll", "status"}
              /\ UNCHANGED <<job, made, open>>
          BY <1>a, <3>5 DEF Collect
        <4> QED BY <1>a, <2>2, <4>1 DEF Running
      <3>6. CASE WaitForResults(th) \/ Accepted(th) \/ Poll(th) \/ UpdateStatus(th)
                 \/ ReturnNext(th) \/ Raise(th) \/ MarkJobFailed(th) \/ MarkTasksFailed(th)
        BY <1>a, <2>2, <3>6 DEF WaitForResults, Accepted, Poll, UpdateStatus, ReturnNext, Raise,
           MarkJobFailed, MarkTasksFailed, Running
      <3> QED BY <1>2, <3>1, <3>2, <3>3, <3>4, <3>5, <3>6 DEF ThreadStep, RunStep, FailureStep
    <2> QED BY <2>1, <2>2
  <1>3. ASSUME NEW th \in Threads, NEW j \in Jobs, StartJob(th, j) PROVE ThreadMoved(u)
    BY <1>a, <1>3 DEF StartJob, Running
  <1>4. CASE Crash BY <1>a, <1>4 DEF Crash, Running
  <1>5. CASE CleanUp BY <1>1, <1>5 DEF CleanUp
  <1>6. CASE PoolStep BY <1>1, <1>6, PoolFrame
  <1>7. CASE UNCHANGED vars BY <1>1, <1>7 DEF vars
  <1> QED
    BY <1>2, <1>3, <1>4, <1>5, <1>6, <1>7, NextSides DEF ServerStep

(* No thread ever makes a task that a batch that left has. *)
LEMMA StepFresh == RunAgrees /\ [Next]_vars => FreshAgrees'
  <1> SUFFICES ASSUME RunAgrees, [Next]_vars PROVE FreshAgrees' OBVIOUS
  <1>a. FreshAgrees /\ TasksAgree /\ ThreadsAgree BY DEF RunAgrees
  <1>b. /\ \A th \in Threads : open[th] \subseteq Tasks
        /\ \A b \in Gone : b \subseteq Tasks
        /\ \A th \in Threads : made[th] \in Nat /\ job[th] \in Jobs \cup {NoJob}
        /\ open \in [Threads -> Batches] /\ NoRow \notin Int
    BY TaskAssumption DEF RunAgrees, TypeOK, Batches, Gone, Elsewhere
  <1>c. \A th \in Threads : pc[th] # "idle" => job[th] \in Jobs /\ jobRow[job[th]] # "none"
    BY <1>a, <1>b DEF ThreadsAgree
  \* A task stays created.
  <1>1. ASSUME NEW t \in Tasks, row[t] # NoRow PROVE row'[t] # NoRow
    BY <1>1, <1>b, TaskAssumption, RowMoves DEF RowMoved
  \* A task of a batch that left, or leaves now, is and stays no thread's own.
  <1>2. ASSUME NEW b \in Gone, NEW t \in b, NEW u \in Threads
        PROVE  /\ t \notin open'[u]
               /\ pc'[u] \in Running /\ t \in TasksOf(job'[u]) => t[2] <= made'[u]
    <2>1. t \in Tasks /\ t[1] \in Jobs /\ jobRow[t[1]] # "none" /\ t \notin open[u]
      BY <1>a, <1>b, TaskFacts DEF FreshAgrees
    <2>2. t \notin open'[u]
      <3>1. SUFFICES ASSUME pc[u] = "submit", made[u] < Size[job[u]],
                            t = <<job[u], made[u] + 1>>
                     PROVE  FALSE
        BY <2>1, ThreadMoves DEF ThreadMoved
      <3>2. job[u] \in Jobs /\ made[u] \in Nat BY <1>b, <1>c, <3>1
      <3>3. t \in TasksOf(job[u]) /\ t[2] = made[u] + 1 BY <3>1, <3>2, TaskFacts
      <3>4. t[2] <= made[u] BY <1>a, <3>1, <3>3 DEF FreshAgrees, Running
      <3> QED BY <3>2, <3>3, <3>4
    <2>3. ASSUME pc'[u] \in Running, t \in TasksOf(job'[u]) PROVE t[2] <= made'[u]
      <3>1. CASE job'[u] \in Jobs /\ jobRow[job'[u]] = "none"
        BY <2>1, <2>3, <3>1, TaskFacts
      <3>2. CASE pc[u] \in Running /\ job'[u] = job[u] /\ made[u] <= made'[u]
        <4>1. t[2] <= made[u] BY <1>a, <2>3, <3>2 DEF FreshAgrees
        <4>2. t[2] \in Nat /\ made[u] \in Nat /\ made'[u] \in Nat
          <5>1. made'[u] \in Nat BY StepTypes DEF TypeOK
          <5> QED BY <1>b, <2>1, <5>1, TaskFacts
        <4> QED BY <3>2, <4>1, <4>2
      <3> QED BY <2>3, <3>1, <3>2, ThreadMoves DEF ThreadMoved
    <2> QED BY <2>2, <2>3
  <1>3. ASSUME NEW th \in Threads, SendBatch(th), NEW t \in open[th], NEW u \in Threads
        PROVE  /\ row'[t] # NoRow /\ jobRow'[t[1]] # "none" /\ t \notin open'[u]
               /\ pc'[u] \in Running /\ t \in TasksOf(job'[u]) => t[2] <= made'[u]
    <2>1. /\ pc[th] = "send" /\ open' = [open EXCEPT ![th] = {}]
          /\ UNCHANGED <<row, jobRow, job, made>>
          /\ \A v \in Threads \ {th} : pc'[v] = pc[v]
      BY <1>3 DEF SendBatch, Goto, database
    <2>2. /\ job[th] \in Jobs /\ jobRow[job[th]] # "none"
          /\ t \in TasksOf(job[th]) /\ t[2] <= made[th] /\ row[t] # NoRow
      BY <1>a, <1>c, <2>1 DEF TasksAgree, FreshAgrees
    <2>3. t[1] = job[th] BY <2>2, TaskFacts
    <2>4. ASSUME u # th, t \in open[u] \/ t \in TasksOf(job[u]), pc[u] # "idle"
          PROVE  FALSE
      <3>1. job[u] \in Jobs /\ t \in TasksOf(job[u]) BY <1>a, <1>c, <2>4 DEF TasksAgree
      <3>2. t[1] = job[u] BY <3>1, TaskFacts
      <3> QED BY <1>a, <2>3, <2>4, <3>2 DEF ThreadsAgree
    <2>5. pc[u] = "idle" => open[u] = {}
      BY DEF RunAgrees, BackendAgrees, BackendOf, Running
    <2>6. t \notin open'[u] BY <1>b, <2>1, <2>4, <2>5
    <2>7. pc'[u] \in Running /\ t \in TasksOf(job'[u]) => t[2] <= made'[u]
      BY <2>1, <2>2, <2>4 DEF Running
    <2> QED BY <2>1, <2>2, <2>3, <2>6, <2>7
  <1>4. ASSUME NEW b \in Gone', NEW t \in b
        PROVE  /\ row'[t] # NoRow /\ jobRow'[t[1]] # "none"
               /\ \A th \in Threads : t \notin open'[th]
               /\ \A th \in Threads :
                      pc'[th] \in Running /\ t \in TasksOf(job'[th]) => t[2] <= made'[th]
    <2>1. CASE b \in Gone
      <3>1. t \in Tasks /\ t[1] \in Jobs /\ row[t] # NoRow /\ jobRow[t[1]] # "none"
        BY <1>a, <1>b, <2>1, TaskFacts DEF FreshAgrees
      <3> QED BY <1>1, <1>2, <2>1, <3>1, JobsStayStarted
    <2>2. CASE \E th \in Threads : SendBatch(th) /\ b = open[th]
      BY <1>3, <2>2
    <2> QED BY <2>1, <2>2, GoneMoves
  <1>5. ASSUME NEW th \in Threads, pc'[th] = "send", NEW t \in open'[th]
        PROVE  row'[t] # NoRow
    <2>1. CASE pc[th] = "send" /\ open'[th] = open[th]
      BY <1>1, <1>a, <1>b, <1>5, <2>1 DEF FreshAgrees
    <2>2. CASE LogBatch(th) /\ open'[th] = open[th]
      <3>1. row'[t] = Null BY <1>b, <1>5, <2>2 DEF LogBatch
      <3> QED BY <3>1, TaskAssumption
    <2> QED BY <1>5, <2>1, <2>2, ThreadMoves DEF ThreadMoved
  <1> QED BY <1>4, <1>5 DEF FreshAgrees

(* Once a batch is answered its rows keep the exit codes they hold, and its
   answer stays the same. *)
LEMMA AnswerStays ==
    ASSUME RunAgrees, [Next]_vars, NEW b \in completed \cup failed, NEW t \in b
    PROVE  /\ row[t] \in Int => row'[t] = row[t]
           /\ code'[t] = code[t]
           /\ CodeIn(b, t)' = CodeIn(b, t)
  <1>a. FreshAgrees /\ PlacesAgree /\ RowsAgree BY DEF RunAgrees
  <1>1. b \in Gone /\ t \in Tasks
    BY DEF RunAgrees, TypeOK, Batches, Gone, Elsewhere
  <1>2. \A w \in Workers : t \notin at[w]
    <2> SUFFICES ASSUME NEW w \in Workers, t \in at[w] PROVE FALSE OBVIOUS
    <2>1. at[w] \in Gone /\ at[w] \notin Elsewhere BY <1>a DEF Gone, PlacesAgree
    <2>2. at[w] # b BY <2>1 DEF Elsewhere
    <2> QED BY <1>a, <1>1, <2>1, <2>2 DEF PlacesAgree
  <1>3. \A w \in Workers : wpc[w] = "save" => t \notin unsaved[w]
    BY <1>a, <1>2 DEF RowsAgree
  <1>4. \A th \in Threads : t \notin open[th] BY <1>a, <1>1 DEF FreshAgrees
  <1>5. code'[t] = code[t] BY <1>1, <1>2, CodeMoves
  <1>6. row[t] \in Int => row'[t] = row[t]
    BY <1>1, <1>2, <1>3, <1>4, RowMoves, TaskAssumption DEF RowMoved
  <1>7. b \in failed' <=> b \in failed
    <2>1. completed' \cap failed' = {} BY StepPlaces DEF PlacesAgree
    <2> QED BY <2>1, AnsweredStays
  <1>8. CodeIn(b, t)' = CodeIn(b, t) BY <1>5, <1>7 DEF CodeIn
  <1> QED BY <1>5, <1>6, <1>8

(* What a worker has saved stays until it answers. *)
LEMMA SavedStays ==
    ASSUME RunAgrees, [Next]_vars, NEW w \in Workers, wpc[w] = "save", NEW t \in at[w]
    PROVE  /\ t \in Tasks /\ code[t] \in Int /\ code'[t] = code[t]
           /\ t \notin unsaved[w] => row[t] = code[t] /\ row'[t] = row[t]
  <1>a. FreshAgrees /\ PlacesAgree /\ RowsAgree BY DEF RunAgrees
  <1>1. at[w] \in Gone /\ t \in Tasks /\ code[t] \in Int
    BY <1>a DEF RunAgrees, TypeOK, Batches, Gone, RowsAgree
  <1>2. \A v \in Workers : t \in at[v] => v = w
    <2> SUFFICES ASSUME NEW v \in Workers, t \in at[v] PROVE v = w OBVIOUS
    <2>1. at[v] \in Gone BY DEF Gone
    <2>2. at[v] = at[w] BY <1>a, <1>1, <2>1 DEF PlacesAgree
    <2> QED BY <1>a, <2>2 DEF PlacesAgree
  <1>3. code'[t] = code[t] BY <1>1, <1>2, CodeMoves
  <1>4. ASSUME t \notin unsaved[w] PROVE row[t] = code[t] /\ row'[t] = row[t]
    <2>1. row[t] = code[t] BY <1>a, <1>4 DEF RowsAgree
    <2>2. \A th \in Threads : t \notin open[th] BY <1>a, <1>1 DEF FreshAgrees
    <2>3. \A v \in Workers : wpc[v] = "save" => t \notin unsaved[v]
      BY <1>2, <1>4, <1>a DEF RowsAgree
    <2> QED BY <1>1, <1>2, <2>1, <2>2, <2>3, RowMoves, TaskAssumption DEF RowMoved
  <1> QED BY <1>1, <1>3, <1>4

(* Rows hold what the script set, as far as they are saved. *)
LEMMA StepRows == RunAgrees /\ [Next]_vars => RowsAgree'
  <1> SUFFICES ASSUME RunAgrees, [Next]_vars PROVE RowsAgree' OBVIOUS
  <1> DEFINE Saved(w) ==
          /\ wpc[w] # "save" => unsaved[w] = {}
          /\ unsaved[w] \subseteq at[w]
          /\ wpc[w] = "save" =>
                 \A t \in at[w] : code[t] \in Int /\ (t \in unsaved[w] \/ row[t] = code[t])
  <1>a. RowsAgree /\ PlacesAgree BY DEF RunAgrees
  <1>b. /\ wpc \in [Workers -> WorkerPcs] /\ at \in [Workers -> Batches]
        /\ unsaved \in [Workers -> Batches] /\ row \in [Tasks -> Codes]
        /\ code \in [Tasks -> Codes]
    BY DEF RunAgrees, TypeOK
  <1>c. \A w \in Workers : Saved(w) BY <1>a DEF RowsAgree
  <1>1. ASSUME NEW w \in Workers, wpc'[w] = wpc[w], at'[w] = at[w],
               unsaved'[w] = unsaved[w]
        PROVE  Saved(w)'
    BY <1>1, <1>c, SavedStays
  <1>2. ASSUME NEW w \in Workers, Saved(w)',
               \A v \in Workers \ {w} :
                   wpc'[v] = wpc[v] /\ at'[v] = at[v] /\ unsaved'[v] = unsaved[v],
               \/ completed' = completed
               \/ /\ completed' = completed \cup {at[w]} /\ wpc[w] = "save" /\ unsaved[w] = {}
        PROVE  RowsAgree'
    <2>1. \A v \in Workers : Saved(v)' BY <1>1, <1>2
    <2>2. ASSUME NEW b \in completed', NEW t \in b
          PROVE  code'[t] \in Int /\ row'[t] = code'[t]
      <3>1. CASE b \in completed BY <1>a, <2>2, <3>1, AnswerStays DEF RowsAgree
      <3>2. CASE b \notin completed
        <4>1. b = at[w] /\ wpc[w] = "save" /\ unsaved[w] = {} BY <1>2, <2>2, <3>2
        <4> QED BY <2>2, <4>1, SavedStays
      <3> QED BY <3>1, <3>2
    <2> HIDE DEF Saved
    <2>3. \A v \in Workers : Saved(v)' BY <2>1
    <2> QED BY <2>2, <2>3 DEF RowsAgree, Saved
  <1>3. ASSUME UNCHANGED <<completed, wpc, at, unsaved>> PROVE RowsAgree'
    <2>1. \A v \in Workers : Saved(v)' BY <1>1, <1>3
    <2>2. \A b \in completed' : \A t \in b : code'[t] \in Int /\ row'[t] = code'[t]
      BY <1>a, <1>3, AnswerStays DEF RowsAgree
    <2> HIDE DEF Saved
    <2>3. \A v \in Workers : Saved(v)' BY <2>1
    <2> QED BY <2>2, <2>3 DEF RowsAgree, Saved
  <1> USE DEF gearmand, client
  <1>4. ASSUME NEW w \in Workers, NEW b \in queued, Grab(w, b) PROVE RowsAgree'
    <2>1. /\ wpc[w] = "idle" /\ wpc' = [wpc EXCEPT ![w] = "script"]
          /\ at' = [at EXCEPT ![w] = b] /\ UNCHANGED <<unsaved, completed>>
      BY <1>4 DEF Grab
    <2>2. Saved(w)' BY <1>b, <1>c, <2>1
    <2> QED BY <1>b, <1>2, <2>1, <2>2
  <1>5. ASSUME NEW w \in Workers, RunScript(w) PROVE RowsAgree'
    <2>1. /\ wpc' = [wpc EXCEPT ![w] = "save"] /\ unsaved' = [unsaved EXCEPT ![w] = at[w]]
          /\ UNCHANGED <<at, completed>>
      BY <1>5 DEF RunScript
    <2>2. PICK result \in [at[w] -> ExitCodes] :
              code' = [t \in Tasks |-> IF t \in at[w] THEN result[t] ELSE code[t]]
      BY <1>5 DEF RunScript
    <2>3. \A t \in at[w] : code'[t] \in Int
      BY <1>b, <2>2, TaskAssumption DEF Batches
    <2>4. Saved(w)' BY <1>b, <2>1, <2>3
    <2> QED BY <1>b, <1>2, <2>1, <2>4
  <1>6. ASSUME NEW w \in Workers, SaveTask(w) PROVE RowsAgree'
    <2>1. PICK t \in unsaved[w] : /\ row' = [row EXCEPT ![t] = code[t]]
                                  /\ unsaved' = [unsaved EXCEPT ![w] = @ \ {t}]
      BY <1>6 DEF SaveTask
    <2>2. wpc[w] = "save" /\ UNCHANGED <<wpc, at, code, completed>> BY <1>6 DEF SaveTask
    <2>3. t \in at[w] /\ t \in Tasks BY <1>b, <1>c, <2>1 DEF Batches
    <2>4. Saved(w)' BY <1>b, <1>c, <2>1, <2>2, <2>3
    <2> QED BY <1>b, <1>2, <2>1, <2>2, <2>4
  <1>7. ASSUME NEW w \in Workers, AnswerBatch(w) \/ FailBatch(w) \/ Kill(w)
        PROVE  RowsAgree'
    <2>1. /\ wpc'[w] \in {"down", "idle"} /\ at' = [at EXCEPT ![w] = {}]
          /\ \A v \in Workers \ {w} : wpc'[v] = wpc[v] /\ unsaved'[v] = unsaved[v]
          /\ unsaved'[w] = {}
      BY <1>b, <1>7 DEF AnswerBatch, FailBatch, Kill, AfterPoll
    <2>2. \/ completed' = completed
          \/ completed' = completed \cup {at[w]} /\ wpc[w] = "save" /\ unsaved[w] = {}
      BY <1>7 DEF AnswerBatch, FailBatch, Kill
    <2>3. Saved(w)' BY <2>1
    <2> QED BY <1>b, <1>2, <2>1, <2>2, <2>3
  <1>8. ASSUME NEW w \in Workers, LeaveIdle(w) PROVE RowsAgree'
    <2>1. /\ wpc[w] = "idle" /\ wpc' = [wpc EXCEPT ![w] = "down"]
          /\ UNCHANGED <<at, unsaved, completed>>
      BY <1>8 DEF LeaveIdle
    <2>2. Saved(w)' BY <1>b, <1>c, <2>1
    <2> QED BY <1>b, <1>2, <2>1, <2>2
  <1>9. CASE StartPool \/ RestartExited
    <2>1. /\ UNCHANGED <<at, unsaved, completed, code>>
          /\ \A v \in Workers : wpc'[v] = wpc[v] \/ (wpc[v] = "down" /\ wpc'[v] = "idle")
      BY <1>b, <1>9 DEF StartPool, RestartExited
    <2>2. \A v \in Workers : Saved(v)' BY <1>1, <1>c, <2>1
    <2>3. \A b \in completed' : \A t \in b : code'[t] \in Int /\ row'[t] = code'[t]
      BY <1>a, <2>1, AnswerStays DEF RowsAgree
    <2> HIDE DEF Saved
    <2>4. \A v \in Workers : Saved(v)' BY <2>2
    <2> QED BY <2>3, <2>4 DEF RowsAgree, Saved
  <1>10. CASE AcceptAny \/ StopPool BY <1>3, <1>10 DEF AcceptAny, Accept, StopPool
  <1>11. CASE ServerStep BY <1>3, <1>11, ServerFrame
  <1>12. CASE UNCHANGED vars BY <1>3, <1>12 DEF vars
  <1> QED
    <2>1. ASSUME NEW w \in Workers, Take(w) \/ Work(w) \/ FailBatch(w) \/ Die(w)
          PROVE  RowsAgree'
      BY <2>1, <1>4, <1>5, <1>6, <1>7, <1>8 DEF Take, Work, Die, Terminate
    <2> QED BY <2>1, <1>9, <1>10, <1>11, <1>12, NextSides DEF PoolStep

(* A task that is answered stays so, unless it is answered again. *)
LEMMA AnsweredTaskStays ==
    ASSUME RunAgrees, [Next]_vars, NEW t \in Tasks, IsAnswered(t), got'[t] = got[t]
    PROVE  IsAnswered(t)' /\ got[t] \in Int
  <1>1. PICK b \in completed \cup failed : t \in b /\ got[t] = CodeIn(b, t)
    BY DEF IsAnswered
  <1>2. b \in completed' \cup failed' BY AnsweredStays
  <1>3. /\ row'[t] = row[t] /\ CodeIn(b, t)' = CodeIn(b, t) /\ CodeIn(b, t) \in Int
    BY <1>1, AnswerStays, AnsweredCodes DEF RunAgrees, IsAnswered
  <1> QED BY <1>1, <1>2, <1>3 DEF IsAnswered

(* What collecting batch b does. *)
Collecting(th, b) ==
    /\ pc[th] = "collect" /\ job[th] \in Jobs /\ jobRow[job[th]] = "executing"
    /\ b \in sent[th] \ collected[th] /\ b \subseteq TasksOf(job[th])
    /\ b \in completed \cup failed
    /\ got' = [t \in Tasks |-> IF t \in b THEN CodeIn(b, t) ELSE got[t]]
    /\ \A t \in b : row'[t] \in Int
    /\ RaisesTo(b, exit[th], exit'[th]) /\ exit'[th] \in Nat
    /\ \A u \in Threads \ {th} :
           exit'[u] = exit[u] /\ pc'[u] = pc[u] /\ collected'[u] = collected[u]
    /\ \/ pc'[th] \in {"collect", "poll"} /\ collected'[th] = collected[th] \cup {b}
       \/ /\ pc'[th] = "status"
          /\ \A t \in TasksOf(job[th]) : t \in b \/ \E c \in collected[th] : t \in c
    /\ UNCHANGED <<jobRow, job>>

(* A thread that collects takes a batch that has arrived. *)
LEMMA CollectFacts ==
    ASSUME RunAgrees, [Next]_vars, NEW th \in Threads, Collect(th)
    PROVE  \E b \in arrived[th] : Collecting(th, b)
  <1>1. PICK b \in arrived[th] : Collect(th)!2!(b) BY DEF Collect
  <1>2. /\ pc[th] = "collect" /\ UNCHANGED <<jobRow, job>> BY DEF Collect
  <1>3. /\ pc \in [Threads -> Pcs] /\ exit \in [Threads -> Nat]
        /\ collected \in [Threads -> SUBSET Batches] /\ row \in [Tasks -> Codes]
        /\ job \in [Threads -> Jobs \cup {NoJob}]
        /\ exit' \in [Threads -> Nat]
    BY StepTypes DEF RunAgrees, TypeOK
  <1>4. /\ b \in sent[th] \ collected[th] /\ b \in completed \cup failed
        /\ IsFiniteSet(sent[th]) /\ collected[th] \subseteq sent[th]
        /\ count[th] = Cardinality(collected[th])
        /\ open[th] = {} /\ made[th] = Size[job[th]]
    BY <1>2 DEF RunAgrees, BackendAgrees, BackendOf
  <1>5. job[th] \in Jobs /\ jobRow[job[th]] = "executing"
    BY <1>2, <1>3 DEF RunAgrees, ThreadsAgree, Running
  <1>6. b \subseteq TasksOf(job[th]) BY <1>4 DEF RunAgrees, TasksAgree
  <1>7. \A t \in b : row'[t] \in Int
    <2> SUFFICES ASSUME NEW t \in b PROVE row'[t] \in Int OBVIOUS
    <2>1. t \in Tasks /\ row[t] \in Int \cup {Null} BY <1>4, AnsweredCodes DEF RunAgrees
    <2>2. row'[t] = Marked(b, t) BY <1>1, <2>1
    <2>3. b \notin failed => row[t] \in Int BY <1>4 DEF RunAgrees, RowsAgree
    <2> QED BY <2>1, <2>2, <2>3 DEF Marked
  <1>8. RaisesTo(b, exit[th], exit'[th])
    <2>1. PICK c : RaisesTo(b, exit[th], c) /\ exit' = [exit EXCEPT ![th] = c] BY <1>1
    <2> QED BY <1>3, <2>1
  <1>9. \A u \in Threads \ {th} :
            exit'[u] = exit[u] /\ pc'[u] = pc[u] /\ collected'[u] = collected[u]
    BY <1>1, <1>3 DEF Goto
  <1>10. \/ pc'[th] \in {"collect", "poll"} /\ collected'[th] = collected[th] \cup {b}
         \/ /\ pc'[th] = "status"
            /\ \A t \in TasksOf(job[th]) : t \in b \/ \E c \in collected[th] : t \in c
    <2>1. CASE GoesOn(th, b) BY <1>1, <1>3, <2>1 DEF Goto
    <2>2. CASE ~ GoesOn(th, b)
      <3>1. pc'[th] = "status" BY <1>1, <1>3, <2>2 DEF Goto
      <3>2. ~ (Cardinality(collected[th]) + 1 < Cardinality(sent[th]))
        BY <1>4, <2>2 DEF GoesOn
      <3>3. sent[th] = collected[th] \cup {b} BY <1>4, <3>2, LastBatch
      <3>4. \A t \in TasksOf(job[th]) : \E c \in sent[th] : t \in c
        BY <1>2, <1>4, <1>5, TaskFacts DEF RunAgrees, TasksAgree, Running
      <3> QED BY <3>1, <3>3, <3>4
    <2> QED BY <2>1, <2>2
  <1> QED
    BY <1>1, <1>2, <1>3, <1>4, <1>5, <1>6, <1>7, <1>8, <1>9, <1>10 DEF Collecting

(* A thread goes on with what it has collected, or starts afresh. *)
Keeps(u) ==
    /\ pc'[u] \in Running =>
           \/ /\ pc[u] = "idle" /\ collected'[u] = collected[u] /\ exit'[u] = 0
              /\ job'[u] \in Jobs /\ jobRow[job'[u]] = "none"
           \/ /\ pc[u] \in Running /\ collected'[u] = collected[u]
              /\ exit'[u] = exit[u] /\ job'[u] = job[u]
    /\ pc'[u] \in {"status", "next"} =>
           /\ exit'[u] = exit[u] /\ job'[u] = job[u]
           /\ pc[u] \in {"status", "next"} \/ WaitForResults(u)
\* A job completes when its thread saves the status.
Completes(j) ==
    jobRow'[j] = "completed" =>
        \/ jobRow[j] = "completed"
        \/ \E th \in Threads : pc[th] = "status" /\ job[th] = j /\ exit[th] \in CompletedCodes
KeepsAnswers ==
    got' = got /\ (\A u \in Threads : Keeps(u)) /\ (\A j \in Jobs : Completes(j))

(* Every step that collects no batch leaves the answers alone. *)
LEMMA OthersKeepAnswers ==
    ASSUME RunAgrees, [Next]_vars, \A th \in Threads : ~ Collect(th)
    PROVE  KeepsAnswers
  <1> USE DEF database, server, batches, gauges, thread, Goto
  <1>a. /\ pc \in [Threads -> Pcs] /\ job \in [Threads -> Jobs \cup {NoJob}]
        /\ exit \in [Threads -> Nat] /\ jobRow \in [Jobs -> JobStatuses]
        /\ \A th \in Threads : pc[th] # "idle" => job[th] \in Jobs
    BY DEF RunAgrees, TypeOK, ThreadsAgree
  <1>1. ASSUME UNCHANGED <<got, pc, job, collected, exit, jobRow>> PROVE KeepsAnswers
    BY <1>1 DEF KeepsAnswers, Keeps, Completes
  <1>2. ASSUME NEW th \in Threads, NEW l \in Pcs, Goto(th, l), UNCHANGED <<got, exit>>,
               \/ l \in Running /\ pc[th] \in Running
               \/ l \in {"idle", "reset", "markJob", "markTasks"}
               \/ /\ l \in {"status", "next"}
                  /\ pc[th] \in {"status", "next"} \/ WaitForResults(th),
               l # "idle" => job' = job,
               \A v \in Threads \ {th} : job'[v] = job[v],
               l \in Running => collected' = collected,
               \A v \in Threads \ {th} : collected'[v] = collected[v],
               \A j \in Jobs : jobRow'[j] = "completed" =>
                  \/ jobRow[j] = "completed"
                  \/ pc[th] = "status" /\ job[th] = j /\ exit[th] \in CompletedCodes
        PROVE  KeepsAnswers
    BY <1>a, <1>2 DEF KeepsAnswers, Keeps, Completes, Running
  <1>3. ASSUME NEW th \in Threads,
               SubmitTask(th) \/ WaitForResults(th) \/ LogBatch(th) \/ SendBatch(th)
               \/ Accepted(th) \/ Poll(th) \/ Raise(th)
        PROVE  KeepsAnswers
    <2>1. /\ pc[th] \in Running \/ Raise(th)
          /\ UNCHANGED <<got, exit, job, collected, jobRow>>
          /\ \E l \in Running \cup {"status", "reset"} :
                 /\ Goto(th, l)
                 /\ l = "status" => WaitForResults(th)
                 /\ Raise(th) => l = "reset"
      BY <1>3 DEF SubmitTask, WaitForResults, LogBatch, SendBatch, Accepted, Poll, Raise,
                  Running
    <2> QED BY <1>2, <2>1 DEF Running, Pcs
  <1>4. ASSUME NEW th \in Threads, UpdateStatus(th) PROVE KeepsAnswers
    <2>1. \A j \in Jobs : jobRow'[j] = "completed" =>
              jobRow[j] = "completed" \/ (job[th] = j /\ exit[th] \in CompletedCodes)
      BY <1>a, <1>4 DEF UpdateStatus, StatusOf
    <2> QED BY <1>2, <1>4, <2>1 DEF UpdateStatus, Running, Pcs
  <1>5. ASSUME NEW th \in Threads, ReturnNext(th) PROVE KeepsAnswers
    BY <1>2, <1>a, <1>5 DEF ReturnNext, Running, Pcs
  <1>6. ASSUME NEW th \in Threads, ResetBackend(th) PROVE KeepsAnswers
    <2>1. \A v \in Threads \ {th} : collected'[v] = collected[v]
      BY <1>6 DEF ResetBackend, RunAgrees, TypeOK
    <2> QED BY <1>2, <1>6, <2>1 DEF ResetBackend, Running, Pcs
  <1>7. ASSUME NEW th \in Threads, MarkJobFailed(th) PROVE KeepsAnswers
    <2>1. \A j \in Jobs : jobRow'[j] = "completed" => jobRow[j] = "completed"
      BY <1>a, <1>7 DEF MarkJobFailed
    <2> QED BY <1>2, <1>7, <2>1 DEF MarkJobFailed, Running, Pcs
  <1>8. ASSUME NEW th \in Threads, MarkTasksFailed(th) PROVE KeepsAnswers
    BY <1>2, <1>a, <1>8 DEF MarkTasksFailed, Running, Pcs
  <1>9. ASSUME NEW th \in Threads, NEW j \in Jobs, StartJob(th, j) PROVE KeepsAnswers
    BY <1>a, <1>9 DEF KeepsAnswers, Keeps, Completes, StartJob, Running
  <1>10. CASE Crash BY <1>10 DEF KeepsAnswers, Keeps, Completes, Crash, Running
  <1>11. CASE CleanUp BY <1>a, <1>11 DEF KeepsAnswers, Keeps, Completes, CleanUp, Running
  <1>12. CASE PoolStep BY <1>1, <1>12, PoolFrame
  <1>13. CASE UNCHANGED vars BY <1>1, <1>13 DEF vars
  <1> QED
    BY <1>3, <1>4, <1>5, <1>6, <1>7, <1>8, <1>9, <1>10, <1>11, <1>12, <1>13, NextSides
       DEF ServerStep, ThreadStep, RunStep, FailureStep

(* exit is the largest answer so far: a batch answers tasks that no batch
   collected before has. *)
LEMMA StepAnswers == RunAgrees /\ [Next]_vars => AnswersAgree'
  <1> SUFFICES ASSUME RunAgrees, [Next]_vars PROVE AnswersAgree' OBVIOUS
  <1>a. AnswersAgree /\ PlacesAgree /\ TasksAgree BY DEF RunAgrees
  <1>b. \A th \in Threads : \A b \in collected[th] :
            b \in Gone /\ b \in completed \cup failed
            /\ b \subseteq TasksOf(job[th]) /\ b \subseteq Tasks
    BY DEF RunAgrees, BackendAgrees, BackendOf, TasksAgree, TypeOK, Batches, Gone, Elsewhere
  <1>c. /\ exit \in [Threads -> Nat] /\ got \in [Tasks -> Codes] /\ exit' \in [Threads -> Nat]
        /\ \A th \in Threads : pc[th] # "idle" => job[th] \in Jobs
    BY StepTypes DEF RunAgrees, TypeOK, ThreadsAgree
  <1>1. CASE \E th \in Threads : Collect(th)
    <2>1. PICK th \in Threads : Collect(th) BY <1>1
    <2>0. PICK b \in arrived[th] : Collecting(th, b) BY <2>1, CollectFacts
    <2> USE <2>0 DEF Collecting
    <2>2. b \in Gone /\ b \subseteq Tasks BY TaskFacts DEF Gone, Elsewhere
    <2>3. \A t \in b : /\ got'[t] = CodeIn(b, t) /\ IsAnswered(t)' /\ got'[t] \in Int
                       /\ got'[t] <= exit'[th]
      <3> SUFFICES ASSUME NEW t \in b
                   PROVE  /\ got'[t] = CodeIn(b, t) /\ IsAnswered(t)' /\ got'[t] \in Int
                          /\ got'[t] <= exit'[th]
        OBVIOUS
      <3>1. /\ got'[t] = CodeIn(b, t) /\ CodeIn(b, t) \in Int
            /\ CodeIn(b, t)' = CodeIn(b, t)
        BY <2>2, AnswerStays, AnsweredCodes DEF RunAgrees
      <3>2. b \in completed' \cup failed' BY AnsweredStays
      <3>3. IsAnswered(t)' BY <3>1, <3>2 DEF IsAnswered
      <3> QED BY <3>1, <3>3 DEF RaisesTo
    <2>4. \A t \in Tasks \ b : got'[t] = got[t] OBVIOUS
    <2>5. ASSUME NEW u \in Threads \ {th}, pc'[u] \in Running PROVE AnswersOf(u)'
      <3>1. pc[u] \in Running /\ job[u] \in Jobs /\ job[u] # job[th]
        BY <1>c, <2>5 DEF RunAgrees, ThreadsAgree, Running
      <3>2. \A t \in TasksOf(job[u]) : t \in Tasks /\ got'[t] = got[t]
        BY <2>4, <3>1, TaskFacts
      <3>3. AnswersOf(u) BY <1>a, <3>1 DEF AnswersAgree
      <3>4. exit'[u] = exit[u] /\ collected'[u] = collected[u] /\ job'[u] = job[u]
        OBVIOUS
      <3>5. ASSUME NEW c \in collected[u], NEW t \in c
            PROVE  t \in TasksOf(job[u]) /\ t \in Tasks /\ IsAnswered(t) /\ got[t] <= exit[u]
        BY <1>b, <3>3, <3>5 DEF AnswersOf
      <3>6. \A c \in collected[u] : \A t \in c : IsAnswered(t)' /\ got'[t] <= exit'[u]
        BY <3>2, <3>4, <3>5, AnsweredTaskStays
      <3>7. exit'[u] = 0 \/ \E c \in collected'[u] : \E t \in c : got'[t] = exit'[u]
        BY <3>2, <3>3, <3>4, <3>5 DEF AnswersOf
      <3>8. \A t \in TasksOf(job'[u]) :
                (\A c \in collected'[u] : t \notin c) => got'[t] = Null
        BY <3>2, <3>3, <3>4 DEF AnswersOf
      <3> QED BY <3>4, <3>6, <3>7, <3>8 DEF AnswersOf
    <2>6. ASSUME pc'[th] \in Running PROVE AnswersOf(th)'
      <3>1. collected'[th] = collected[th] \cup {b} BY <2>6 DEF Running
      <3>2. AnswersOf(th) BY <1>a DEF AnswersAgree, Running
      <3>3. ASSUME NEW c \in collected[th], NEW t \in c
            PROVE  t \in Tasks /\ got'[t] = got[t] /\ IsAnswered(t)' /\ got'[t] \in Int
                   /\ got'[t] <= exit'[th]
        <4>1. t \in Tasks /\ IsAnswered(t) /\ got[t] <= exit[th]
          BY <1>b, <3>2, <3>3 DEF AnswersOf
        <4>2. t \notin b BY <1>a, <1>b, <2>2, <3>3 DEF PlacesAgree
        <4>3. got'[t] = got[t] BY <2>4, <4>1, <4>2
        <4>4. IsAnswered(t)' /\ got[t] \in Int BY <4>1, <4>3, AnsweredTaskStays
        <4> QED BY <1>c, <4>1, <4>3, <4>4 DEF RaisesTo
      <3>4. exit'[th] = 0 \/ \E c \in collected'[th] : \E t \in c : got'[t] = exit'[th]
        <4>1. CASE exit'[th] = exit[th] BY <3>1, <3>2, <3>3, <4>1 DEF AnswersOf
        <4>2. CASE \E t \in b : CodeIn(b, t) = exit'[th] BY <2>3, <3>1, <4>2
        <4> QED BY <4>1, <4>2 DEF RaisesTo
      <3>5. \A t \in TasksOf(job'[th]) :
                (\A c \in collected'[th] : t \notin c) => got'[t] = Null
        BY <2>4, <3>1, <3>2, TaskFacts DEF AnswersOf
      <3> QED BY <2>3, <3>1, <3>3, <3>4, <3>5 DEF AnswersOf
    <2>7. ASSUME NEW j \in Jobs, jobRow'[j] = "none", NEW t \in TasksOf(j)
          PROVE  got'[t] = Null
      <3>1. j # job[th] /\ jobRow[j] = "none" BY <2>7
      <3>2. t \in Tasks /\ t \notin b BY <3>1, <2>7, TaskFacts
      <3> QED BY <1>a, <2>4, <2>7, <3>1, <3>2 DEF AnswersAgree
    <2> QED BY <2>5, <2>6, <2>7 DEF AnswersAgree
  <1>2. CASE \A th \in Threads : ~ Collect(th)
    <2>1. got' = got
      BY <1>2, OthersKeepAnswers DEF KeepsAnswers
    <2>2. ASSUME NEW u \in Threads, pc'[u] \in Running PROVE AnswersOf(u)'
      <3>1. CASE /\ pc[u] = "idle" /\ collected'[u] = collected[u] /\ exit'[u] = 0
                 /\ job'[u] \in Jobs /\ jobRow[job'[u]] = "none"
        <4>1. collected'[u] = {} BY <3>1 DEF RunAgrees, BackendAgrees, BackendOf
        <4> QED BY <1>a, <2>1, <3>1, <4>1 DEF AnswersAgree, AnswersOf
      <3>2. CASE /\ pc[u] \in Running /\ collected'[u] = collected[u]
                 /\ exit'[u] = exit[u] /\ job'[u] = job[u]
        <4>1. AnswersOf(u) BY <1>a, <3>2 DEF AnswersAgree
        <4>2. \A c \in collected[u] : \A t \in c : IsAnswered(t)'
          BY <1>b, <2>1, <4>1, AnsweredTaskStays DEF AnswersOf
        <4> QED BY <2>1, <3>2, <4>1, <4>2 DEF AnswersOf
      <3> QED BY <1>2, <2>2, <3>1, <3>2, OthersKeepAnswers DEF KeepsAnswers, Keeps
    <2>3. \A j \in Jobs : jobRow'[j] = "none" => jobRow[j] = "none"
      BY JobsStayStarted
    <2> QED BY <1>a, <2>1, <2>2, <2>3 DEF AnswersAgree
  <1> QED BY <1>1, <1>2

(* The status of a job is that of its largest answer. *)
LEMMA StepStatus == RunAgrees /\ [Next]_vars => StatusAgrees'
  <1> SUFFICES ASSUME RunAgrees, [Next]_vars PROVE StatusAgrees' OBVIOUS
  <1>a. StatusAgrees BY DEF RunAgrees
  <1>c. /\ exit \in [Threads -> Nat] /\ exit' \in [Threads -> Nat]
        /\ \A th \in Threads : pc[th] # "idle" => job[th] \in Jobs
        /\ CompletedCodes \subseteq Int
    BY TaskAssumption, StepTypes DEF RunAgrees, TypeOK, ThreadsAgree
  \* While no answer comes for a job, its largest answer stays.
  <1>1. ASSUME NEW j \in Jobs, NEW c, IsLargest(j, c),
               \A t \in TasksOf(j) : got'[t] = got[t]
        PROVE  /\ \A t \in TasksOf(j) : IsAnswered(t)' /\ got'[t] <= c
               /\ c = 0 \/ \E t \in TasksOf(j) : got'[t] = c
    BY <1>1, TaskFacts, AnsweredTaskStays DEF IsLargest
  <1>2. CASE \E th \in Threads : Collect(th)
    <2>1. PICK th \in Threads : Collect(th) BY <1>2
    <2>0. PICK b \in arrived[th] : Collecting(th, b) BY <2>1, CollectFacts
    <2> USE <2>0 DEF Collecting
    <2>2. ASSUME NEW j \in Jobs \ {job[th]}, NEW t \in TasksOf(j) PROVE got'[t] = got[t]
      BY <2>2, TaskFacts
    <2>3. ASSUME NEW j \in Jobs, jobRow'[j] = "completed"
          PROVE  \E c \in CompletedCodes : IsLargest(j, c)'
      <3>1. j # job[th] /\ jobRow[j] = "completed" BY <2>3
      <3>2. PICK c \in CompletedCodes : IsLargest(j, c) BY <1>a, <3>1 DEF StatusAgrees
      <3>3. IsLargest(j, c)'
        <4>1. \A t \in TasksOf(j) : got'[t] = got[t] BY <2>2, <3>1
        <4> QED BY <1>1, <3>2, <4>1 DEF IsLargest
      <3> QED BY <3>3
    <2>4. ASSUME NEW u \in Threads \ {th}, pc'[u] \in {"status", "next"}
          PROVE  IsLargest(job[u], exit[u])'
      <3>1. /\ pc[u] \in {"status", "next"} /\ exit'[u] = exit[u] /\ job'[u] = job[u]
            /\ job[u] \in Jobs /\ job[u] # job[th]
        BY <1>c, <2>4 DEF RunAgrees, ThreadsAgree
      <3>2. IsLargest(job[u], exit[u]) BY <1>a, <3>1 DEF StatusAgrees
      <3>3. \A t \in TasksOf(job[u]) : got'[t] = got[t] BY <2>2, <3>1
      <3> QED BY <1>1, <3>1, <3>2, <3>3 DEF IsLargest
    <2>5. ASSUME pc'[th] \in {"status", "next"} PROVE IsLargest(job[th], exit[th])'
      <3>1. \A t \in TasksOf(job[th]) : t \in b \/ \E c \in collected[th] : t \in c
        BY <2>5
      <3>2. AnswersOf(th) BY DEF RunAgrees, AnswersAgree, Running
      <3>3. /\ b \in Gone
            /\ \A c \in collected[th] : c \in Gone /\ c \subseteq TasksOf(job[th])
        BY DEF RunAgrees, BackendAgrees, BackendOf, TasksAgree, Gone, Elsewhere
      <3>4. ASSUME NEW t \in b
            PROVE  got'[t] = CodeIn(b, t) /\ IsAnswered(t)' /\ got'[t] <= exit'[th]
        <4>1. /\ got'[t] = CodeIn(b, t) /\ CodeIn(b, t)' = CodeIn(b, t)
          BY TaskFacts, AnswerStays
        <4>2. b \in completed' \cup failed' BY AnsweredStays
        <4> QED BY <4>1, <4>2 DEF IsAnswered, RaisesTo
      <3>5. ASSUME NEW c \in collected[th], NEW t \in c
            PROVE  got'[t] = got[t] /\ IsAnswered(t)' /\ got'[t] <= exit'[th]
        <4>1. t \in Tasks /\ IsAnswered(t) /\ got[t] <= exit[th]
          BY <3>2, <3>3, <3>5, TaskFacts DEF AnswersOf
        <4>2. t \notin b BY <3>3, <3>5 DEF RunAgrees, PlacesAgree
        <4>3. got'[t] = got[t] BY <4>1, <4>2
        <4>4. IsAnswered(t)' /\ got[t] \in Int BY <4>1, <4>3, AnsweredTaskStays
        <4> QED BY <1>c, <4>1, <4>3, <4>4 DEF RaisesTo
      <3>6. \A t \in TasksOf(job[th]) : IsAnswered(t)' /\ got'[t] <= exit'[th]
        BY <3>1, <3>4, <3>5
      <3>7. exit'[th] = 0 \/ \E t \in TasksOf(job[th]) : got'[t] = exit'[th]
        <4>1. CASE exit'[th] = exit[th] BY <3>2, <3>3, <3>5, <4>1 DEF AnswersOf
        <4>2. CASE \E t \in b : CodeIn(b, t) = exit'[th] BY <3>4, <4>2
        <4> QED BY <4>1, <4>2 DEF RaisesTo
      <3> QED BY <3>6, <3>7 DEF IsLargest
    <2> QED BY <2>3, <2>4, <2>5 DEF StatusAgrees
  <1>3. CASE \A th \in Threads : ~ Collect(th)
    <2>1. got' = got
      BY <1>3, OthersKeepAnswers DEF KeepsAnswers
    <2>2. ASSUME NEW u \in Threads, pc'[u] \in {"status", "next"}
          PROVE  IsLargest(job[u], exit[u])'
      <3>1. /\ exit'[u] = exit[u] /\ job'[u] = job[u]
            /\ pc[u] \in {"status", "next"} \/ WaitForResults(u)
        BY <1>3, <2>2, OthersKeepAnswers DEF KeepsAnswers, Keeps
      <3>2. job[u] \in Jobs BY <1>c, <3>1 DEF WaitForResults
      <3>3. IsLargest(job[u], exit[u])
        <4>1. CASE pc[u] \in {"status", "next"} BY <1>a, <4>1 DEF StatusAgrees
        <4>2. CASE WaitForResults(u)
          <5>1. pc[u] = "submit" /\ made[u] = Size[job[u]] /\ open[u] = {} /\ sent[u] = {}
            BY <2>2, <4>2 DEF WaitForResults, Goto, RunAgrees, TypeOK
          <5>2. \A t \in TasksOf(job[u]) : FALSE
            BY <3>2, <5>1, TaskFacts DEF RunAgrees, TasksAgree, Running
          <5>3. collected[u] = {} /\ AnswersOf(u)
            BY <5>1 DEF RunAgrees, BackendAgrees, BackendOf, AnswersAgree, Running
          <5> QED BY <5>2, <5>3 DEF IsLargest, AnswersOf
        <4> QED BY <3>1, <4>1, <4>2
      <3> QED BY <1>1, <2>1, <3>1, <3>2, <3>3 DEF IsLargest
    <2>3. ASSUME NEW j \in Jobs, jobRow'[j] = "completed"
          PROVE  \E c \in CompletedCodes : IsLargest(j, c)'
      <3>1. \E c \in CompletedCodes : IsLargest(j, c)
        <4>1. CASE jobRow[j] = "completed" BY <1>a, <4>1 DEF StatusAgrees
        <4>2. CASE \E th \in Threads : /\ pc[th] = "status" /\ job[th] = j
                                       /\ exit[th] \in CompletedCodes
          BY <1>a, <4>2 DEF StatusAgrees
        <4> QED BY <1>3, <2>3, <4>1, <4>2, OthersKeepAnswers DEF KeepsAnswers, Completes
      <3> QED BY <1>1, <2>1, <3>1 DEF IsLargest
    <2> QED BY <2>2, <2>3 DEF StatusAgrees
  <1> QED BY <1>2, <1>3

-----------------------------------------------------------------------------
(* The row of an answered task: MCPServer was told what it holds, or 1 for a
   task of a failed batch. *)
LEMMA AnsweredRow ==
    ASSUME RunAgrees, NEW t, IsAnswered(t)
    PROVE  /\ got[t] \in Int /\ row[t] \in Int
           /\ row[t] = got[t] \/ (got[t] = 1 /\ InFailed(t))
  <1>1. PICK b \in completed \cup failed : t \in b /\ got[t] = CodeIn(b, t)
    BY DEF IsAnswered
  <1>2. got[t] \in Int BY <1>1, AnsweredCodes DEF RunAgrees
  <1>3. CASE b \in failed BY <1>1, <1>2, <1>3 DEF IsAnswered, CodeIn, InFailed
  <1>4. CASE b \notin failed
    BY <1>1, <1>2, <1>4 DEF IsAnswered, CodeIn, RunAgrees, RowsAgree
  <1> QED BY <1>3, <1>4

(* Nothing runs yet. *)
LEMMA InitRun == Init => RunAgrees
  <1> SUFFICES ASSUME Init PROVE RunAgrees OBVIOUS
  <1> USE DEF Init
  <1>a. IsFiniteSet({}) /\ Cardinality({}) = 0 BY FS_EmptySet
  <1>b. NoJob \notin Jobs BY TaskAssumption
  <1>1. TypeOK
    <2>1. /\ jobRow \in [Jobs -> JobStatuses] /\ row \in [Tasks -> Codes]
          /\ got \in [Tasks -> Codes] /\ code \in [Tasks -> Codes]
      BY DEF JobStatuses, Codes
    <2>2. /\ pc \in [Threads -> Pcs] /\ job \in [Threads -> Jobs \cup {NoJob}]
          /\ made \in [Threads -> Nat] /\ count \in [Threads -> Nat]
          /\ exit \in [Threads -> Nat]
      BY DEF Pcs
    <2>3. /\ open \in [Threads -> Batches] /\ sent \in [Threads -> SUBSET Batches]
          /\ arrived \in [Threads -> SUBSET Batches]
          /\ collected \in [Threads -> SUBSET Batches]
      BY DEF Batches
    <2>4. /\ wpc \in [Workers -> WorkerPcs] /\ at \in [Workers -> Batches]
          /\ unsaved \in [Workers -> Batches] /\ processed \in [Workers -> Nat]
      BY DEF WorkerPcs, Batches
    <2>5. up \in BOOLEAN /\ shutdown \in BOOLEAN OBVIOUS
    <2>6. faults \in Nat /\ pendingGauge \in Int /\ activeGauge \in Int OBVIOUS
    <2>7. /\ unacked \subseteq Batches /\ queued \subseteq Batches
          /\ completed \subseteq Batches /\ failed \subseteq Batches
      OBVIOUS
    <2> HIDE DEF Init
    <2> QED BY <2>1, <2>2, <2>3, <2>4, <2>5, <2>6, <2>7 DEF TypeOK
  <1>2. ThreadsAgree BY <1>b DEF ThreadsAgree, Running
  <1>3. BackendAgrees BY <1>a DEF BackendAgrees, BackendOf, Running
  <1>4. TasksAgree BY DEF TasksAgree, Running
  <1>5. PlacesAgree BY DEF PlacesAgree, Gone, Elsewhere
  <1>6. FreshAgrees BY DEF FreshAgrees, Gone, Elsewhere
  <1>7. RowsAgree BY DEF RowsAgree
  <1>8. AnswersAgree BY TaskFacts DEF AnswersAgree, Running
  <1>9. StatusAgrees BY DEF StatusAgrees
  <1> QED
    BY <1>1, <1>2, <1>3, <1>4, <1>5, <1>6, <1>7, <1>8, <1>9 DEF RunAgrees

(* Every step preserves the inductive invariant. *)
LEMMA StepRun == RunAgrees /\ [Next]_vars => RunAgrees'
  BY StepTypes, StepThreads, StepBackend, StepTasks, StepPlaces, StepFresh, StepRows,
     StepAnswers, StepStatus
     DEF RunAgrees

(* Threads, batches, workers and rows agree in every state. *)
THEOREM AlwaysRunAgrees == Spec => []RunAgrees
  BY InitRun, StepRun, PTL DEF Spec

(* Every variable has its type, for every number of threads and workers. *)
THEOREM TaskTypeCorrect == Spec => []TypeOK
  <1>1. RunAgrees => TypeOK BY DEF RunAgrees
  <1> QED BY <1>1, AlwaysRunAgrees, PTL

(* The backend of a thread holds batches of the job it runs and no others. *)
THEOREM AlwaysBackendIsOfJob == Spec => []BackendIsOfJob
  <1>1. RunAgrees => BackendIsOfJob
    <2> SUFFICES ASSUME RunAgrees, NEW th \in Threads, NEW t \in open[th] \cup UNION sent[th]
                 PROVE  t[1] = job[th]
      BY DEF BackendIsOfJob
    <2>1. t \in TasksOf(job[th]) BY DEF RunAgrees, TasksAgree
    <2> QED BY <2>1 DEF TasksOf
  <1> QED BY <1>1, AlwaysRunAgrees, PTL

(* When wait_for_results ends every task has an answer, and its row an exit
   code: the one MCPServer was told, unless its batch failed. *)
THEOREM AlwaysAnsweredAndRecorded == Spec => []AnsweredAndRecorded
  <1>1. RunAgrees => AnsweredAndRecorded
    <2> SUFFICES ASSUME RunAgrees, NEW th \in Threads, pc[th] \in {"status", "next"},
                        NEW t \in TasksOf(job[th])
                 PROVE  /\ got[t] \in Int /\ row[t] \in Int
                        /\ row[t] = got[t] \/ InFailed(t)
      BY DEF AnsweredAndRecorded
    <2>1. IsAnswered(t) BY DEF RunAgrees, StatusAgrees, IsLargest
    <2> QED BY <2>1, AnsweredRow
  <1> QED BY <1>1, AlwaysRunAgrees, PTL

(* The row of a completed job agrees with the rows of its tasks. *)
THEOREM AlwaysCompletedRowsAgree == Spec => []CompletedRowsAgree
  <1>1. RunAgrees => CompletedRowsAgree
    <2> SUFFICES ASSUME RunAgrees, NEW j \in Jobs, jobRow[j] = "completed"
                 PROVE  \E c \in CompletedCodes :
                            /\ \A t \in TasksOf(j) :
                                   row[t] \in Int /\ (row[t] <= c \/ InFailed(t))
                            /\ \/ c = 0
                               \/ \E t \in TasksOf(j) : row[t] = c \/ (c = 1 /\ InFailed(t))
      BY DEF CompletedRowsAgree
    <2>1. PICK c \in CompletedCodes : IsLargest(j, c) BY DEF RunAgrees, StatusAgrees
    <2>2. ASSUME NEW t \in TasksOf(j)
          PROVE  /\ row[t] \in Int /\ (row[t] <= c \/ InFailed(t))
                 /\ got[t] = c => row[t] = c \/ (c = 1 /\ InFailed(t))
      <3>1. IsAnswered(t) /\ got[t] <= c BY <2>1 DEF IsLargest
      <3> QED BY <3>1, AnsweredRow
    <2> QED BY <2>1, <2>2 DEF IsLargest
  <1> QED BY <1>1, AlwaysRunAgrees, PTL

(* Once a batch is answered nothing changes an exit code its rows hold: no
   second run of it, no late mark of a failure, no restart. *)
THEOREM AlwaysAnsweredRowsStay == Spec => AnsweredRowsStay
  <1>1. RunAgrees /\ [Next]_vars =>
            [\A b \in completed \cup failed : \A t \in b :
                 row[t] \in Int => row'[t] = row[t]]_vars
    BY AnswerStays
  <1> QED BY <1>1, AlwaysRunAgrees, PTL DEF Spec, AnsweredRowsStay


-----------------------------------------------------------------------------
(* Collecting a batch answers tasks that had no answer. *)
LEMMA CollectAnswers ==
    ASSUME RunAgrees, [Next]_vars, NEW th \in Threads, Collect(th)
    PROVE  Run!Answer(job[th]) /\ job[th] \in Jobs
  <1>1. PICK b \in arrived[th] : Collecting(th, b) BY CollectFacts
  <1> USE <1>1 DEF Collecting
  <1>2. AnswersOf(th) BY DEF RunAgrees, AnswersAgree, Running
  <1>3. b \in Gone /\ \A c \in collected[th] : c \in Gone /\ c # b
    BY DEF RunAgrees, BackendAgrees, BackendOf, Gone, Elsewhere
  <1>4. ASSUME NEW t \in Tasks
        PROVE  \/ got'[t] = got[t]
               \/ t \in TasksOf(job[th]) /\ got[t] = Null /\ got'[t] \in Int
    <2>1. CASE t \notin b BY <2>1
    <2>2. CASE t \in b
      <3>1. \A c \in collected[th] : t \notin c
        BY <1>3, <2>2 DEF RunAgrees, PlacesAgree
      <3>2. got[t] = Null BY <1>2, <2>2, <3>1 DEF AnswersOf
      <3>3. got'[t] \in Int BY <2>2, AnsweredCodes DEF RunAgrees
      <3> QED BY <2>2, <3>2, <3>3
    <2> QED BY <2>1, <2>2
  <1>5. DOMAIN got' = Tasks OBVIOUS
  <1> QED BY <1>4, <1>5 DEF Run!Answer

(* The status saved is that of the one largest exit code. *)
LEMMA StatusEnds ==
    ASSUME RunAgrees, NEW th \in Threads, UpdateStatus(th)
    PROVE  Run!End(job[th]) /\ job[th] \in Jobs
  <1> DEFINE j == job[th]
  <1>1. /\ pc[th] = "status" /\ got' = got
        /\ jobRow' = [jobRow EXCEPT ![j] = StatusOf(exit[th])]
    BY DEF UpdateStatus, server
  <1>2. j \in Jobs /\ jobRow[j] = "executing" /\ exit[th] \in Nat
    BY <1>1 DEF RunAgrees, TypeOK, ThreadsAgree
  <1>3. IsLargest(j, exit[th]) BY <1>1 DEF RunAgrees, StatusAgrees
  <1>4. \A t \in TasksOf(j) : got[t] \in Int /\ got[t] <= exit[th] /\ got[t] # Null
    BY <1>3, AnsweredRow, TaskAssumption DEF IsLargest
  <1>5. Run!IsJobCode(j, exit[th])
    BY <1>2, <1>3, <1>4 DEF Run!IsJobCode, IsLargest
  <1>6. ASSUME NEW c \in CompletedCodes, Run!IsJobCode(j, c) PROVE c = exit[th]
    <2>1. c \in Int BY TaskAssumption
    <2>2. /\ \A t \in TasksOf(j) : got[t] <= c
          /\ c = 0 \/ (c > 0 /\ \E t \in TasksOf(j) : got[t] = c)
      BY <1>6 DEF Run!IsJobCode
    <2>3. c <= exit[th] BY <1>2, <1>4, <2>1, <2>2
    <2>4. exit[th] <= c BY <1>2, <1>3, <2>1, <2>2 DEF IsLargest
    <2> QED BY <1>2, <2>1, <2>3, <2>4
  <1>7. CASE exit[th] \in CompletedCodes
    BY <1>1, <1>2, <1>5, <1>7 DEF Run!End, StatusOf
  <1>8. CASE exit[th] \notin CompletedCodes
    BY <1>1, <1>2, <1>4, <1>6, <1>8 DEF Run!End, StatusOf
  <1> QED BY <1>2, <1>7, <1>8

(* Threads, batches and workers implement JobRun: a task is answered at most
   once and while its job executes, and the job gets the status of the largest
   of its answers; an error or a restart fails it. *)
THEOREM RefinesJobRun == Spec => ImplementsJobRun
  <1>1. Init => Run!Init BY DEF Init, Run!Init
  <1>2. RunAgrees /\ [Next]_vars => [Run!Next]_<<jobRow, got>>
    <2> SUFFICES ASSUME RunAgrees, [Next]_vars
                 PROVE  Run!Next \/ UNCHANGED <<jobRow, got>>
      OBVIOUS
    <2> USE DEF database, server
    <2>1. ASSUME NEW th \in Threads, NEW j \in Jobs, StartJob(th, j) PROVE Run!Next
      BY <2>1 DEF StartJob, Run!Next, Run!Begin
    <2>2. ASSUME NEW th \in Threads, Collect(th) PROVE Run!Next
      BY <2>2, CollectAnswers DEF Run!Next
    <2>3. ASSUME NEW th \in Threads, UpdateStatus(th) PROVE Run!Next
      BY <2>3, StatusEnds DEF Run!Next
    <2>4. ASSUME NEW th \in Threads, MarkJobFailed(th)
          PROVE  Run!Next \/ UNCHANGED <<jobRow, got>>
      <3>1. /\ got' = got
            /\ jobRow' = jobRow \/ jobRow' = [jobRow EXCEPT ![job[th]] = "failed"]
        BY <2>4 DEF MarkJobFailed
      <3>2. /\ job[th] \in Jobs /\ jobRow \in [Jobs -> JobStatuses]
            /\ jobRow[job[th]] \in {"executing", "completed", "failed"}
        BY <2>4 DEF MarkJobFailed, RunAgrees, TypeOK, ThreadsAgree, JobStatuses
      <3>3. CASE jobRow[job[th]] = "failed" BY <3>1, <3>2, <3>3
      <3>4. CASE jobRow[job[th]] # "failed"
        BY <3>1, <3>2, <3>4 DEF Run!Next, Run!Abort
      <3> QED BY <3>3, <3>4
    <2>5. CASE CleanUp BY <2>5 DEF CleanUp, Run!Next, Run!Restart
    <2>6. ASSUME NEW th \in Threads,
                 \/ SubmitTask(th) \/ WaitForResults(th) \/ LogBatch(th) \/ SendBatch(th)
                 \/ Accepted(th) \/ Poll(th) \/ ReturnNext(th) \/ Raise(th)
                 \/ ResetBackend(th) \/ MarkTasksFailed(th)
          PROVE  UNCHANGED <<jobRow, got>>
      BY <2>6 DEF SubmitTask, WaitForResults, LogBatch, SendBatch, Accepted, Poll,
                  ReturnNext, Raise, ResetBackend, MarkTasksFailed
    <2>7. CASE Crash BY <2>7 DEF Crash
    <2>8. CASE PoolStep BY <2>8, PoolFrame
    <2>9. CASE UNCHANGED vars BY <2>9 DEF vars
    <2> QED
      BY <2>1, <2>2, <2>3, <2>4, <2>5, <2>6, <2>7, <2>8, <2>9, NextSides
         DEF ServerStep, ThreadStep, RunStep, FailureStep
  <1> QED BY <1>1, <1>2, AlwaysRunAgrees, PTL DEF Spec, ImplementsJobRun, Run!Spec
=============================================================================
