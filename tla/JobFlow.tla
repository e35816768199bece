------------------------------- MODULE JobFlow ------------------------------
(***************************************************************************)
(* What the package queue promises about each job, whatever threads,       *)
(* queues and locks it uses: a job waits, runs once, may wait for one      *)
(* decision, and ends; its successor exists only from then on; a job may   *)
(* be dropped, but only while it waits to run.                             *)
(***************************************************************************)
CONSTANTS Jobs, NoJob, NextOf, DropsOf, FirstJobs, Decisions

VARIABLE phase

Phases == {"absent", "pending", "running", "returned", "awaiting", "ended", "dropped"}

Init == phase = [j \in Jobs |-> IF j \in FirstJobs THEN "pending" ELSE "absent"]

Become(j, from, to) == phase[j] = from /\ phase' = [phase EXCEPT ![j] = to]

Start(j) == Become(j, "pending", "running")

\* The script of a running job leaves packages in watched directories.
DropPackages(j) ==
    /\ phase[j] = "running"
    /\ \A d \in DropsOf[j] : phase[d] = "absent"
    /\ phase' = [k \in Jobs |-> IF k \in DropsOf[j] THEN "pending" ELSE phase[k]]

Return(j) == Become(j, "running", "returned")

Await(j) == j \in Decisions /\ Become(j, "returned", "awaiting")

\* The end of a job is where its successor comes into being, if it has one.
End(j) ==
    /\ phase[j] \in {"returned", "awaiting"}
    /\ \/ phase' = [phase EXCEPT ![j] = "ended"]
       \/ /\ NextOf[j] # NoJob
          /\ phase[NextOf[j]] = "absent"
          /\ phase' = [phase EXCEPT ![j] = "ended", ![NextOf[j]] = "pending"]

Drop(j) == Become(j, "pending", "dropped")

Next ==
    \E j \in Jobs :
        Start(j) \/ DropPackages(j) \/ Return(j) \/ Await(j) \/ End(j) \/ Drop(j)

Spec == Init /\ [][Next]_phase
=============================================================================
