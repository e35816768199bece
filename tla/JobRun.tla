------------------------------- MODULE JobRun -------------------------------
(***************************************************************************)
(* What running a job of tasks promises, whatever batches, connections and *)
(* workers it takes: every task is answered at most once, while the job    *)
(* executes; the job gets the status of its exit code once all are         *)
(* answered; an unexpected error or a restart fails it.                    *)
(***************************************************************************)
EXTENDS Integers

CONSTANTS Jobs, TasksOf(_), Tasks, CompletedCodes, Null

VARIABLES phase, answer

Init ==
    /\ phase = [j \in Jobs |-> "none"]
    /\ answer = [t \in Tasks |-> Null]

Begin(j) ==
    /\ phase[j] = "none"
    /\ phase' = [phase EXCEPT ![j] = "executing"]
    /\ UNCHANGED answer

Answer(j) ==
    /\ phase[j] = "executing"
    /\ \A t \in Tasks :
           \/ answer'[t] = answer[t]
           \/ t \in TasksOf(j) /\ answer[t] = Null /\ answer'[t] \in Int
    /\ DOMAIN answer' = Tasks
    /\ UNCHANGED phase

\* c is the largest of 0 and the exit codes of the tasks.
IsJobCode(j, c) ==
    /\ \A t \in TasksOf(j) : answer[t] \in Int /\ answer[t] <= c
    /\ c = 0 \/ (c > 0 /\ \E t \in TasksOf(j) : answer[t] = c)

End(j) ==
    /\ phase[j] = "executing"
    /\ \/ /\ \E c \in CompletedCodes : IsJobCode(j, c)
          /\ phase' = [phase EXCEPT ![j] = "completed"]
       \/ /\ \A t \in TasksOf(j) : answer[t] # Null
          /\ ~ \E c \in CompletedCodes : IsJobCode(j, c)
          /\ phase' = [phase EXCEPT ![j] = "failed"]
    /\ UNCHANGED answer

\* The error may come after the status was saved, before the next job starts.
Abort(j) ==
    /\ phase[j] \in {"executing", "completed"}
    /\ phase' = [phase EXCEPT ![j] = "failed"]
    /\ UNCHANGED answer

\* A restart fails every job that was executing.
Restart ==
    /\ phase' = [j \in Jobs |-> IF phase[j] = "executing" THEN "failed" ELSE phase[j]]
    /\ UNCHANGED answer

Next ==
    \/ \E j \in Jobs : Begin(j) \/ Answer(j) \/ End(j) \/ Abort(j)
    \/ Restart

Spec == Init /\ [][Next]_<<phase, answer>>
=============================================================================
