-------------------------- MODULE TaskExecutionInv --------------------------
(* What running the tasks of a job promises.                               *)
EXTENDS TaskExecution

Batches == SUBSET Tasks
InFailed(t) == \E b \in failed : t \in b

\* Types of all variables.
TypeOK ==
    /\ jobRow \in [Jobs -> JobStatuses]
    /\ row \in [Tasks -> Codes]
    /\ got \in [Tasks -> Codes]
    /\ code \in [Tasks -> Codes]
    /\ up \in BOOLEAN /\ shutdown \in BOOLEAN
    /\ pc \in [Threads -> Pcs]
    /\ job \in [Threads -> Jobs \cup {NoJob}]
    /\ made \in [Threads -> Nat] /\ count \in [Threads -> Nat]
    /\ exit \in [Threads -> Nat]
    /\ open \in [Threads -> Batches]
    /\ sent \in [Threads -> SUBSET Batches]
    /\ arrived \in [Threads -> SUBSET Batches]
    /\ collected \in [Threads -> SUBSET Batches]
    /\ pendingGauge \in Int /\ activeGauge \in Int
    /\ unacked \subseteq Batches /\ queued \subseteq Batches
    /\ completed \subseteq Batches /\ failed \subseteq Batches
    /\ wpc \in [Workers -> WorkerPcs]
    /\ at \in [Workers -> Batches]
    /\ unsaved \in [Workers -> Batches]
    /\ processed \in [Workers -> Nat]
    /\ faults \in Nat

\* wait_for_results ends only when every task of the job has an answer, and
\* by then the row of each task holds what MCPServer was told; the row of a
\* task of a failed batch may hold what MCPClient saved before it failed.
AnsweredAndRecorded ==
    \A th \in Threads : pc[th] \in {"status", "next"} =>
        \A t \in TasksOf(job[th]) :
            /\ got[t] \in Int /\ row[t] \in Int
            /\ row[t] = got[t] \/ InFailed(t)

\* The row of a completed job agrees with the rows of its tasks: none is
\* unfinished, and the largest exit code, or 0 when that is negative, has the
\* status "completed"; tasks of a failed batch count as 1, whatever their rows.
CompletedRowsAgree ==
    \A j \in Jobs : jobRow[j] = "completed" =>
        \E c \in CompletedCodes :
            /\ \A t \in TasksOf(j) : row[t] \in Int /\ (row[t] <= c \/ InFailed(t))
            /\ \/ c = 0
               \/ \E t \in TasksOf(j) : row[t] = c \/ (c = 1 /\ InFailed(t))

\* Once a batch is answered nothing changes an exit code that its rows hold:
\* no second run of it, no late mark of a failure, no restart.
AnsweredRowsStay ==
    [][\A b \in completed \cup failed : \A t \in b :
           row[t] \in Int => row'[t] = row[t]]_vars

\* The two gauges count what the backends of all threads hold, through
\* errors that leave batches behind and through restarts.
GaugesReconcile ==
    /\ pendingGauge = Cardinality({th \in Threads : open[th] # {}})
    /\ activeGauge = Cardinality(UNION {sent[th] \ collected[th] : th \in Threads})

\* The backend of a thread holds batches of the job it runs and no others:
\* what a failed job leaves behind cannot reach the next job.
BackendIsOfJob ==
    \A th \in Threads : \A t \in open[th] \cup UNION sent[th] : t[1] = job[th]

\* No script runs on more workers at a time than its concurrent_instances,
\* whatever workers exit and are started again.
ScriptConcurrency ==
    \A s \in Scripts :
        Cardinality({w \in Workers : \E t \in at[w] : ScriptOf[t[1]] = s})
            <= Concurrency[s]

\* Every job run ends: its thread is free again, however workers exit, die
\* and are stopped, and whatever raises.
RunsEnd == \A th \in Threads : pc[th] # "idle" ~> pc[th] = "idle"

\* The threads, batches and workers implement JobRun.
Run == INSTANCE JobRun WITH phase <- jobRow, answer <- got
ImplementsJobRun == Run!Spec

-----------------------------------------------------------------------------
(* The inductive invariant behind the theorems of TaskExecutionProofs.     *)

\* A thread creates, sends or collects batches.
Running == {"submit", "log", "send", "accept", "poll", "collect"}

\* One thread runs a job, which was started and has no status yet.
ThreadsAgree ==
    \A th \in Threads :
        /\ pc[th] = "idle" <=> job[th] = NoJob
        /\ ~ up => pc[th] = "idle"
        /\ pc[th] # "idle" => jobRow[job[th]] # "none"
        /\ pc[th] \in Running \cup {"status"} => jobRow[job[th]] = "executing"
        /\ \A u \in Threads : pc[th] # "idle" /\ job[u] = job[th] => u = th

\* A backend holds nothing between jobs, and collects what was answered once.
BackendOf(th) ==
    /\ pc[th] \notin Running \cup {"reset"} =>
           open[th] = {} /\ sent[th] = {} /\ arrived[th] = {}
    /\ pc[th] \notin {"poll", "collect", "reset"} =>
           arrived[th] = {} /\ collected[th] = {}
    /\ pc[th] \in {"log", "send"} => open[th] # {}
    /\ pc[th] \in {"accept", "poll", "collect"} => open[th] = {} /\ made[th] = Size[job[th]]
    /\ IsFiniteSet(sent[th]) /\ {} \notin sent[th]
    /\ collected[th] \subseteq sent[th]
    /\ arrived[th] \subseteq sent[th] \ collected[th]
    /\ arrived[th] \cup collected[th] \subseteq completed \cup failed
    /\ count[th] = Cardinality(collected[th])
BackendAgrees == \A th \in Threads : BackendOf(th)

\* The batches of a thread hold the tasks of its job made so far.
TasksAgree ==
    \A th \in Threads :
        /\ \A t \in open[th] : t \in TasksOf(job[th]) /\ t[2] <= made[th]
        /\ \A b \in sent[th] : \A t \in b : t \in TasksOf(job[th]) /\ t[2] <= made[th]
        /\ pc[th] \in Running =>
               /\ made[th] <= Size[job[th]]
               /\ \A t \in TasksOf(job[th]) :
                      t[2] <= made[th] => t \in open[th] \/ \E b \in sent[th] : t \in b

\* The batches that left a thread: each is in one place and shares no task.
Elsewhere == unacked \cup queued \cup completed \cup failed
Gone == Elsewhere \cup {at[w] : w \in Workers}
PlacesAgree ==
    /\ unacked \cap queued = {} /\ unacked \cap completed = {}
    /\ unacked \cap failed = {} /\ queued \cap completed = {}
    /\ queued \cap failed = {} /\ completed \cap failed = {}
    /\ \A w \in Workers : at[w] \notin Elsewhere
    /\ \A w \in Workers : at[w] # {} <=> wpc[w] \in {"script", "save"}
    /\ \A v, w \in Workers : at[v] = at[w] /\ at[w] # {} => v = w
    /\ {} \notin Elsewhere
    /\ \A b, c \in Gone : b = c \/ b \cap c = {}

\* What a thread makes is new: no batch that left has it.
FreshAgrees ==
    /\ \A b \in Gone : \A t \in b :
           /\ row[t] # NoRow /\ jobRow[t[1]] # "none"
           /\ \A th \in Threads : t \notin open[th]
           /\ \A th \in Threads :
                  pc[th] \in Running /\ t \in TasksOf(job[th]) => t[2] <= made[th]
    /\ \A th \in Threads : pc[th] = "send" => \A t \in open[th] : row[t] # NoRow

\* The rows of an answered batch have its exit codes, those of a batch at a
\* worker as far as they are saved.
RowsAgree ==
    /\ \A b \in completed : \A t \in b : code[t] \in Int /\ row[t] = code[t]
    /\ \A w \in Workers :
           /\ wpc[w] # "save" => unsaved[w] = {}
           /\ unsaved[w] \subseteq at[w]
           /\ wpc[w] = "save" =>
                  \A t \in at[w] : code[t] \in Int /\ (t \in unsaved[w] \/ row[t] = code[t])

\* MCPServer has the answer of t, and its row has an exit code.
IsAnswered(t) ==
    row[t] \in Int /\ \E b \in completed \cup failed : t \in b /\ got[t] = CodeIn(b, t)
\* c is the largest of 0 and the answers of the job.
IsLargest(j, c) ==
    /\ \A t \in TasksOf(j) : IsAnswered(t) /\ got[t] <= c
    /\ c = 0 \/ \E t \in TasksOf(j) : got[t] = c

\* exit is the largest of 0 and the answers collected so far.
AnswersOf(th) ==
    /\ \A b \in collected[th] : \A t \in b : IsAnswered(t) /\ got[t] <= exit[th]
    /\ exit[th] = 0 \/ \E b \in collected[th] : \E t \in b : got[t] = exit[th]
    /\ \A t \in TasksOf(job[th]) : (\A b \in collected[th] : t \notin b) => got[t] = Null
AnswersAgree ==
    /\ \A th \in Threads : pc[th] \in Running => AnswersOf(th)
    /\ \A j \in Jobs : jobRow[j] = "none" => \A t \in TasksOf(j) : got[t] = Null

\* The exit code of a job that has its answers, or its status, is right.
StatusAgrees ==
    /\ \A th \in Threads : pc[th] \in {"status", "next"} => IsLargest(job[th], exit[th])
    /\ \A j \in Jobs : jobRow[j] = "completed" => \E c \in CompletedCodes : IsLargest(j, c)

\* The inductive invariant: threads, batches, workers and rows agree.
RunAgrees ==
    /\ TypeOK
    /\ ThreadsAgree
    /\ BackendAgrees
    /\ TasksAgree
    /\ PlacesAgree
    /\ FreshAgrees
    /\ RowsAgree
    /\ AnswersAgree
    /\ StatusAgrees

-----------------------------------------------------------------------------
(* Two more, on top of RunAgrees.                                          *)

\* What ScriptConcurrency needs to be inductive: a batch is of one script,
\* and a worker only runs those it was dealt.
ScriptsAgree ==
    /\ \A b \in Gone : \A t, u \in b : t[1] = u[1]
    /\ \A w \in Workers : \A t \in at[w] : ScriptOf[t[1]] \in ScriptsOf(w)

\* What GaugesReconcile needs to be inductive: the sets that are counted are
\* finite, and a batch is counted as pending or as active and not as both.
Filling == {th \in Threads : open[th] # {}}
Outstanding == UNION {sent[th] \ collected[th] : th \in Threads}
GaugesAgree ==
    /\ IsFiniteSet(Filling) /\ pendingGauge = Cardinality(Filling)
    /\ IsFiniteSet(Outstanding) /\ activeGauge = Cardinality(Outstanding)
    /\ \A th \in Threads : \A b \in sent[th] : b \cap open[th] = {}

-----------------------------------------------------------------------------
\* Every task row of a batch that failed shows, to the task pages and the
\* status APIs, that something failed: at least one exit code is not 0.
FailureIsExposed ==
    \A th \in Threads : \A b \in collected[th] \cap failed :
        \E t \in b : row[t] # 0
=============================================================================
