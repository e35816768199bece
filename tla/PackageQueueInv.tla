--------------------------- MODULE PackageQueueInv --------------------------
(***************************************************************************)
(* The inductive invariant behind the theorems of PackageQueueProofs.  The *)
(* history variable stage gives every job one place; each conjunct says    *)
(* that one queue, set or thread agrees with it, so that a job can only be *)
(* in the one place its stage names.                                       *)
(***************************************************************************)
EXTENDS PackageQueue

\* What stage says of a job is what its future says.
FutureAgrees ==
    \A j \in Jobs :
        /\ future[j] = "unsubmitted" <=>
                stage[j] \in {"absent", "watched", "submitted", "starting", "held",
                              "deferred", "queued", "lost"}
        /\ future[j] = "submitted" <=> stage[j] = "executor"
        /\ future[j] = "running" <=> stage[j] \in {"running", "ran"}
        /\ stage[j] = "awaiting" => future[j] = "self"
        /\ future[j] = "next" => NextOf[j] # NoJob

SetsAgree ==
    /\ \A j \in watched : stage[j] = "watched"
    /\ \A j \in submitted : stage[j] = "submitted"
    /\ \A j \in waiting : stage[j] = "awaiting"

Distinct(s) == \A i, k \in 1..Len(s) : s[i] = s[k] => i = k

DeferredAgrees ==
    \A ty \in Types :
        /\ Distinct(deferred[ty])
        /\ \A i \in 1..Len(deferred[ty]) :
            /\ stage[deferred[ty][i]] = "deferred"
            /\ TypeOf[deferred[ty][i]] = ty

JobQueueAgrees ==
    /\ Distinct(jobQueue)
    /\ \A i \in 1..Len(jobQueue) : stage[jobQueue[i]] = "queued"

ExecQueueAgrees ==
    /\ \A i, k \in 1..Len(execQueue) : execQueue[i].job = execQueue[k].job => i = k
    /\ \A i \in 1..Len(execQueue) :
        stage[execQueue[i].job] = IF execQueue[i].task = "run" THEN "executor"
                                                                ELSE "starting"

\* A job in hand is held by one thread.
HoldersAgree ==
    /\ \A t \in Threads : pc[t] \in Holding => stage[job[t]] = "held"
    /\ \A t, u \in Threads :
        pc[t] \in Holding /\ pc[u] \in Holding /\ job[t] = job[u] => t = u

\* A job is run, and its first callback handled, by one thread.
HandlersAgree ==
    /\ \A t \in Threads :
        /\ pc[t] \in Handling => fin[t] \in Jobs
        /\ pc[t] = "running" => stage[fin[t]] = "running"
        /\ pc[t] = "returning" => stage[fin[t]] = "ran"
        /\ pc[t] \in {"jobCb", "await"} => stage[fin[t]] = "returned"
        /\ pc[t] = "await" => future[fin[t]] = "self"
    /\ \A t, u \in Threads :
        pc[t] \in Handling /\ pc[u] \in Handling /\ fin[t] = fin[u] => t = u

\* Until main has registered the callback of a job nobody else runs it.
CallbacksAgree ==
    /\ \A j \in Jobs :
        /\ callbacks[j] # {} => stage[j] \in {"executor", "running", "ran"}
        /\ "package" \in callbacks[j] => Terminal(j)
    /\ pc[Main] = "addJobCb" =>
        /\ fin[Main] \in Jobs
        /\ callbacks[fin[Main]] = {}
        /\ stage[fin[Main]] \in {"executor", "running", "ran", "returned"}
        /\ \A t \in Threads : ~(pc[t] \in {"jobCb", "await"} /\ fin[t] = fin[Main])
    /\ pc[Main] = "addPkgCb" \/ ret[Main] = "addPkgCb" =>
        fin[Main] \in Jobs /\ future[fin[Main]] # "unsubmitted"
    /\ \A t \in Threads :
        /\ pc[t] = "pkgCb" \/ ret[t] = "pkgCb" => fin[t] \in Jobs /\ Terminal(fin[t])
        /\ pc[t] \in {"idle", "get", "submit"} => ret[t] = "idle"

\* A job that has not ended has started nothing.
ForestAgrees ==
    \A j \in Jobs :
        /\ NextOf[j] # NoJob /\ stage[j] # "spent" => stage[NextOf[j]] = "absent"
        /\ stage[j] \notin {"ran", "returned", "awaiting", "spent"} =>
                \A d \in DropsOf[j] : stage[d] = "absent"

\* The inductive invariant: every queue, set and thread agrees with stage.
StageAgrees ==
    /\ TypeOK
    /\ FutureAgrees
    /\ SetsAgree
    /\ DeferredAgrees
    /\ JobQueueAgrees
    /\ ExecQueueAgrees
    /\ HoldersAgree
    /\ HandlersAgree
    /\ CallbacksAgree
    /\ ForestAgrees
-----------------------------------------------------------------------------
(* The converse, for the refinement: a job is where its stage says.        *)

In(s, j) == \E i \in 1..Len(s) : s[i] = j

SetsHold ==
    \A j \in Jobs :
        /\ stage[j] = "watched" => j \in watched
        /\ stage[j] = "submitted" => j \in submitted
        /\ stage[j] = "awaiting" => j \in waiting

DeferredHold ==
    \A j \in Jobs : stage[j] = "deferred" => In(deferred[TypeOf[j]], j)

JobQueueHolds == \A j \in Jobs : stage[j] = "queued" => In(jobQueue, j)

ExecQueueHolds ==
    \A j \in Jobs : stage[j] \in {"executor", "starting"} =>
        \E i \in 1..Len(execQueue) : execQueue[i].job = j

ThreadsHold ==
    \A j \in Jobs : stage[j] = "held" =>
        \E t \in Threads : pc[t] \in Holding /\ job[t] = j

DecisionsReturn == \A j \in Jobs : future[j] = "self" => KindOf[j] = "decision"

\* No job is forgotten: what is still to run lies in a queue or in a hand.
StagesLocated ==
    /\ SetsHold
    /\ DeferredHold
    /\ JobQueueHolds
    /\ ExecQueueHolds
    /\ ThreadsHold
    /\ DecisionsReturn
-----------------------------------------------------------------------------
(* One chain of jobs per package, for DoneMeansClean and the throttle.     *)

\* The workflows they are about: all jobs of a package follow one another.
IsFirst(j) == \A i \in Jobs : NextOf[i] # j
OneChainEach ==
    /\ \A j \in Jobs : NextOf[j] # NoJob => PackageOf[NextOf[j]] = PackageOf[j]
    /\ \A j, k \in Jobs : IsFirst(j) /\ IsFirst(k) /\ PackageOf[j] = PackageOf[k] => j = k

\* The successor of a job is only there once the job has let it go.
OrderAgrees ==
    \A j \in Jobs :
        NextOf[j] # NoJob /\ stage[NextOf[j]] # "absent" => future[j] \in {"next", "self"}

\* The job a chain has come to.
Latest(j) ==
    stage[j] # "absent" /\ (NextOf[j] # NoJob => stage[NextOf[j]] = "absent")

\* A package has come to one job.
ChainAgrees ==
    /\ OrderAgrees
    /\ \A j, k \in Jobs : PackageOf[j] = PackageOf[k] =>
           /\ IsFirst(j) /\ stage[k] # "absent" => stage[j] # "absent"
           /\ Latest(j) /\ Latest(k) => j = k
    /\ \A j \in Jobs : future[j] = "none" => NextOf[j] = NoJob

\* A package that is done had a job that ended it.
DoneAgrees ==
    \A p \in Packages : status[p] = "done" =>
        \E j \in Jobs : PackageOf[j] = p /\ future[j] = "none"

\* The control points at which the job in hand has a slot.
Admitted == {"put", "putNowait", "submit"}
HasSlot(j) ==
    \/ stage[j] \in {"queued", "executor", "running", "ran"}
    \/ stage[j] = "returned" /\ future[j] # "none"
\* A package has a slot, or lost it to a decision that had been taken.
Counted(p) == p \in active \/ Late(p)
SlotsAgree ==
    /\ \A j \in Jobs : HasSlot(j) => Counted(PackageOf[j])
    /\ \A t \in Threads : pc[t] \in Admitted => Counted(PackageOf[job[t]])

\* Thread t is about to give back the slot of a job that raised, ended or waits.
Closing(t) == pc[t] \in {"fail", "deactivate"}
\* Thread t has, or is to register, the callback that completes the package.
Completes(t) ==
    \/ ret[t] \in {"pkgCb", "addPkgCb"}
    \/ pc[t] \in {"addJobCb", "addPkgCb", "pkgCb"}
    \/ pc[t] = "deactivate" /\ future[fin[t]] = "none"
ClosingAgrees ==
    /\ \A t \in Threads : Closing(t) =>
           /\ fin[t] \in Jobs /\ future[fin[t]] \in {"raised", "none", "self"}
           /\ Taken(fin[t]) \/ Counted(PackageOf[fin[t]])
           /\ pc[t] = "fail" => future[fin[t]] = "raised"
           /\ future[fin[t]] = "raised" => stage[fin[t]] = "spent"
           /\ future[fin[t]] = "none" => ret[t] = "idle"
           /\ future[fin[t]] = "self" => /\ stage[fin[t]] \in {"awaiting", "spent"}
                                         /\ fin[t] \notin late
    /\ \A t, u \in Threads :
           /\ Closing(t) /\ Closing(u) /\ fin[t] = fin[u]
           /\ future[fin[t]] \in {"raised", "self"}
           => t = u
CompletesAgrees ==
    /\ \A t \in Threads : Completes(t) =>
           /\ fin[t] \in Jobs /\ future[fin[t]] # "unsubmitted"
           /\ future[fin[t]] = "none" => Counted(PackageOf[fin[t]])
           /\ "package" \notin callbacks[fin[t]]
    /\ \A t, u \in Threads : Completes(t) /\ Completes(u) /\ fin[t] = fin[u] => t = u
LateAgrees ==
    \A d \in late : d \in Jobs /\ stage[d] = "spent" /\ future[d] = "self"

\* A slot is given back once, by one thread, when no job of the package is left,
\* or once more for a decision taken too early.
ThrottleAgrees == SlotsAgree /\ ClosingAgrees /\ CompletesAgrees /\ LateAgrees

\* Something is at work for package p that ends with a call of deactivate_package.
Busy(p) ==
    \/ \E j \in Jobs : PackageOf[j] = p /\ HasSlot(j)
    \/ \E t \in Threads : pc[t] \in Admitted /\ PackageOf[job[t]] = p
    \/ \E t \in Threads :
           /\ Closing(t) \/ (Completes(t) /\ future[fin[t]] = "none")
           /\ ~ Taken(fin[t]) /\ PackageOf[fin[t]] = p
\* The packages the throttle has let in and not yet been told to let out.
AtWork == {p \in Packages : p \in active \/ Busy(p)}
\* The bound that is inductive: a late deactivation lets in one package more.
WorkBounded ==
    /\ IsFiniteSet(AtWork) /\ IsFiniteSet(late)
    /\ Cardinality(AtWork) + Cardinality(Activating)
           <= MaxConcurrent + Cardinality(Threads) - 1 + Cardinality(late)
-----------------------------------------------------------------------------
(* Who gives a slot back, for ActiveHasOwner.                              *)

\* The workflows it is about: a chain ends its package, or its last script
\* leaves the package in a watched directory, where another chain takes over.
HandsOver(j) == NextOf[j] = NoJob /\ ~ Terminal(j)
ChainsClose ==
    /\ \A j \in Jobs : NextOf[j] # NoJob => PackageOf[NextOf[j]] = PackageOf[j]
    /\ \A j \in Jobs : HandsOver(j) =>
           KindOf[j] # "decision" /\ \E d \in DropsOf[j] : PackageOf[d] = PackageOf[j]

NoJobLost == \A j \in Jobs : stage[j] # "lost"

\* Every job that runs or returned has a thread that goes on with it, and the
\* callbacks of a job that runs are registered, or about to be.
RunningHeld ==
    \A j \in Jobs :
        /\ stage[j] = "running" => \E t \in Threads : pc[t] = "running" /\ fin[t] = j
        /\ stage[j] = "ran" => \E t \in Threads : pc[t] = "returning" /\ fin[t] = j
        /\ stage[j] = "returned" =>
               \E t \in Threads : pc[t] \in {"jobCb", "await", "addJobCb"} /\ fin[t] = j
CallbacksHold ==
    \A j \in Jobs : stage[j] \in {"executor", "running", "ran"} =>
        /\ "job" \in callbacks[j] \/ (pc[Main] = "addJobCb" /\ fin[Main] = j)
        /\ Terminal(j) => \/ "package" \in callbacks[j]
                          \/ pc[Main] \in {"addJobCb", "addPkgCb"} /\ fin[Main] = j

\* What still owns a slot: a job whose chain has an end ahead of it, or a
\* thread on its way to give the slot back.
Owns(j) ==
    \/ stage[j] \in {"watched", "submitted", "starting", "held", "deferred", "queued",
                     "executor", "running", "awaiting"}
    \/ stage[j] = "ran" /\ ~ HandsOver(j)
    \/ stage[j] = "returned" /\ future[j] # "none"
    \/ future[j] = "none" /\ Terminal(j) /\ \E t \in Threads : Completes(t) /\ fin[t] = j
    \/ \E t \in Threads : Closing(t) /\ fin[t] = j
OwnersAgree ==
    /\ RunningHeld
    /\ CallbacksHold
    /\ NoJobLost => \A p \in active : \E j \in Jobs : PackageOf[j] = p /\ Owns(j)
=============================================================================
