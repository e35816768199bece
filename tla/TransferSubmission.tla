-------------------------- MODULE TransferSubmission -------------------------
(***************************************************************************)
(* The submission of transfers through the API: create_package             *)
(* (MCPServer/server/packages.py) and the idempotency keys it reserves     *)
(* (dashboard/main/idempotency.py), over the rows of the database.         *)
(*                                                                         *)
(* A request is one packageCreate call that an RPC thread of MCPServer     *)
(* executes.  The dashboard gives up on a call after 30 seconds while the  *)
(* server goes on, so a retry is simply another request with the same key, *)
(* at any time.  A request creates one transfer and one record at most,    *)
(* which are named after it.  A key stands for (user, operation, key).     *)
(* A request without a key reserves nothing: it is CreatePackage in        *)
(* PackageQueue.                                                           *)
(***************************************************************************)
EXTENDS Naturals, FiniteSets

CONSTANTS
    Requests,       \* every packageCreate call with an Idempotency-Key
    NoRequest,      \* a row nobody has locked
    Keys,           \* idempotency keys
    KeyOf,          \* [Requests -> Keys]
    FingerprintOf,  \* [Requests -> ...]: the digest of the payload
    Retention,      \* IDEMPOTENCY_KEY_RETENTION_DAYS
    Faults,         \* sets of database operations that may raise together
    MaxTime,        \* bound on the clock
    MaxCrashes      \* bound on the restarts of MCPServer

\* How a call can end other than with the UUID of a transfer, or has not ended
Outcomes == {"none", "conflict", "in_progress", "error", "lost"}

ASSUME SubmissionAssumption ==
    /\ NoRequest \notin Requests
    /\ Requests \cap Outcomes = {}
    /\ KeyOf \in [Requests -> Keys]
    /\ Retention \in Nat \ {0}
    /\ Faults \subseteq SUBSET {"create", "reload", "mark", "release", "complete"}
    /\ MaxTime \in Nat
    /\ MaxCrashes \in Nat

VARIABLES
    now,        \* the clock
    records,    \* [Keys -> the committed record of the key, or NoRecord]
    lock,       \* [Keys -> the request whose open transaction holds the row]
    deleted,    \* requests whose open transaction has deleted the expired row
    status,     \* [Requests -> Statuses]: the committed row of the transfer
    handed,     \* transfers the executor has accepted
    began,      \* [Requests -> Nat]: the time a request read from the clock
    created,    \* history: when the record of a request was committed
    pc,         \* [Requests -> Pcs]
    reply,      \* [Requests -> Replies]
    crashes,    \* restarts so far
    failing     \* the operations that may raise, the same from the start on

row == <<records, lock, deleted>>
transfer == <<status, handed, created>>
environment == <<crashes, failing>>
vars == <<now, row, transfer, began, pc, reply, environment>>

NoRecord == [owner |-> NoRequest, expires |-> 0, state |-> "completed"]
Records == [owner : Requests, expires : Nat, state : {"pending", "completed"}]
\* No row, a row that is unknown or processing, a row that is failed
Statuses == {"none", "open", "failed"}
Pcs == {"idle", "delete", "read", "insert", "create", "reread", "handoff",
        "complete", "release", "done"}
Replies == Outcomes \cup Requests

Init ==
    /\ now = 0
    /\ records = [k \in Keys |-> NoRecord]
    /\ lock = [k \in Keys |-> NoRequest]
    /\ deleted = {}
    /\ status = [r \in Requests |-> "none"]
    /\ handed = {}
    /\ began = [r \in Requests |-> 0]
    /\ created = [r \in Requests |-> 0]
    /\ pc = [r \in Requests |-> "idle"]
    /\ reply = [r \in Requests |-> "none"]
    /\ crashes = 0
    /\ failing \in Faults

Goto(r, l) == pc' = [pc EXCEPT ![r] = l]
Answer(r, a) == Goto(r, "done") /\ reply' = [reply EXCEPT ![r] = a]

Record(r) == records[KeyOf[r]]
\* The row r's transaction finds under its key, and one that has not expired
\* at the time r read when it began.
Exists(r) == Record(r) # NoRecord /\ r \notin deleted
Retained(r) == Exists(r) /\ Record(r).expires > began[r]
Unlocked(r) == lock[KeyOf[r]] = NoRequest
\* Mutation of EndTransaction: it is left open.
LeaveTransaction(r) == UNCHANGED <<lock, deleted>>

\* The transaction of r ends.
EndTransaction(r) ==
    /\ lock' = [lock EXCEPT ![KeyOf[r]] = NoRequest]
    /\ deleted' = deleted \ {r}
-----------------------------------------------------------------------------
(* reserve_or_replay *)

Start(r) ==
    /\ pc[r] = "idle"
    /\ began' = [began EXCEPT ![r] = now]
    /\ Goto(r, "delete")
    /\ UNCHANGED <<now, row, transfer, reply, environment>>

\* The delete locks the row it matches; a locked row makes it wait.
DeleteExpired(r) ==
    /\ pc[r] = "delete"
    /\ IF Record(r) # NoRecord /\ Record(r).expires <= began[r]
       THEN /\ Unlocked(r)
            /\ lock' = [lock EXCEPT ![KeyOf[r]] = r]
            /\ deleted' = deleted \cup {r}
       ELSE UNCHANGED <<lock, deleted>>
    /\ Goto(r, "read")
    /\ UNCHANGED <<now, records, transfer, began, reply, environment>>

\* Mutation of Replay: the state of the record is not looked at.
ReplayPending(r) ==
    LET old == Record(r) IN
    Answer(r, IF FingerprintOf[old.owner] # FingerprintOf[r] THEN "conflict"
              ELSE old.owner)

\* Another payload is a conflict; a pending record has no result to give yet.
Replay(r) ==
    LET old == Record(r) IN
    Answer(r, IF FingerprintOf[old.owner] # FingerprintOf[r] THEN "conflict"
              ELSE IF old.state = "pending" THEN "in_progress"
              ELSE old.owner)

\* existing_record reads what others have committed.
Read(r) ==
    /\ pc[r] = "read"
    /\ IF Retained(r) THEN Replay(r) ELSE Goto(r, "insert") /\ UNCHANGED reply
    /\ UNCHANGED <<now, row, transfer, began, environment>>

\* The unique constraint: an insert waits for an open transaction that holds
\* the key, and fails on a committed record.
Insert(r) ==
    /\ pc[r] = "insert"
    /\ lock[KeyOf[r]] \in {NoRequest, r}
    /\ IF Exists(r)
       THEN Goto(r, "reread") /\ UNCHANGED lock
       ELSE Goto(r, "create") /\ lock' = [lock EXCEPT ![KeyOf[r]] = r]
    /\ UNCHANGED <<now, records, deleted, transfer, began, reply, environment>>

\* create_result inside the transaction that inserts the record, then commit.
Create(r) ==
    /\ pc[r] = "create"
    /\ \/ /\ records' = [records EXCEPT ![KeyOf[r]] =
                [owner |-> r, expires |-> began[r] + Retention, state |-> "pending"]]
          /\ status' = [status EXCEPT ![r] = "open"]
          /\ created' = [created EXCEPT ![r] = now]
          /\ Goto(r, "handoff")
          /\ UNCHANGED reply
       \/ /\ "create" \in failing
          /\ Answer(r, "error")
          /\ UNCHANGED <<records, status, created>>
    /\ EndTransaction(r)
    /\ UNCHANGED <<now, handed, began, environment>>

\* After the integrity error, outside the transaction that was rolled back.
Reread(r) ==
    /\ pc[r] = "reread"
    /\ IF Retained(r) THEN Replay(r) ELSE Answer(r, "error")
    /\ UNCHANGED <<now, row, transfer, began, environment>>
-----------------------------------------------------------------------------
(* create_package around it *)

\* The new row is read again before anything guards the call: when that raises
\* the row and the reservation stay as they are.
ReloadFails(r) ==
    /\ pc[r] = "handoff"
    /\ "reload" \in failing
    /\ Answer(r, "error")
    /\ UNCHANGED <<now, row, transfer, began, environment>>

\* The staging directory, the status and executor.submit.
HandOff(r) ==
    /\ pc[r] = "handoff"
    /\ handed' = handed \cup {r}
    /\ Goto(r, "complete")
    /\ UNCHANGED <<now, row, status, created, began, reply, environment>>

\* Mutation of HandOffFails: the transfer is not marked failed.
HandOffFailsUnmarked(r) ==
    /\ pc[r] = "handoff"
    /\ Goto(r, "release")
    /\ UNCHANGED <<now, row, transfer, began, reply, environment>>

\* Any of them raises: the staging directory cannot be made, the executor has
\* been shut down.  An error of the status update is logged.
HandOffFails(r) ==
    /\ pc[r] = "handoff"
    /\ \/ status' = [status EXCEPT ![r] = "failed"]
       \/ "mark" \in failing /\ UNCHANGED status
    /\ Goto(r, "release")
    /\ UNCHANGED <<now, row, handed, created, began, reply, environment>>

\* The record r made is there, and no transaction is deleting it.
Pending(r) == Record(r).owner = r /\ Record(r).state = "pending"

\* Mutation of Release: the record is looked up by key.
ReleaseByKey(r) ==
    /\ pc[r] = "release"
    /\ Record(r) # NoRecord => Unlocked(r)
    /\ records' = [records EXCEPT ![KeyOf[r]] = NoRecord]
    /\ Answer(r, "error")
    /\ UNCHANGED <<now, lock, deleted, transfer, began, environment>>

\* release: what it raises is logged, the error of the handoff is reported.
Release(r) ==
    /\ pc[r] = "release"
    /\ \/ /\ Pending(r) => Unlocked(r)
          /\ records' = IF Pending(r) THEN [records EXCEPT ![KeyOf[r]] = NoRecord]
                                      ELSE records
       \/ "release" \in failing /\ UNCHANGED records
    /\ Answer(r, "error")
    /\ UNCHANGED <<now, lock, deleted, transfer, began, environment>>

\* Mutation of Complete: the transfer of the record that is found is answered.
CompleteUnchecked(r) ==
    /\ pc[r] = "complete"
    /\ Answer(r, Record(r).owner)
    /\ UNCHANGED <<now, row, transfer, began, environment>>

\* complete raises when the record has gone meanwhile.
Complete(r) ==
    /\ pc[r] = "complete"
    /\ \/ /\ Pending(r)
          /\ Unlocked(r)
          /\ records' = [records EXCEPT ![KeyOf[r]].state = "completed"]
          /\ Answer(r, r)
       \/ /\ ~Pending(r) \/ "complete" \in failing
          /\ Answer(r, "error")
          /\ UNCHANGED records
    /\ UNCHANGED <<now, lock, deleted, transfer, began, environment>>
-----------------------------------------------------------------------------
(* The world around the requests *)

Tick == now < MaxTime /\ now' = now + 1 /\ UNCHANGED <<row, transfer, began, pc, reply, environment>>

\* The purge command deletes the records that have expired.
Purge ==
    /\ \E k \in Keys :
        /\ records[k] # NoRecord /\ records[k].expires <= now
        /\ lock[k] = NoRequest
        /\ records' = [records EXCEPT ![k] = NoRecord]
    /\ UNCHANGED <<now, lock, deleted, transfer, began, pc, reply, environment>>

\* MCPServer stops and starts again: open transactions are rolled back, the
\* calls have no answer, and cleanup_old_db_entries fails what was under way.
Restart ==
    /\ crashes < MaxCrashes
    /\ crashes' = crashes + 1
    /\ lock' = [k \in Keys |-> NoRequest]
    /\ deleted' = {}
    /\ pc' = [r \in Requests |-> IF pc[r] = "idle" THEN "idle" ELSE "done"]
    /\ reply' = [r \in Requests |->
                    IF pc[r] \in {"idle", "done"} THEN reply[r] ELSE "lost"]
    /\ status' = [r \in Requests |->
                    IF status[r] = "open" THEN "failed" ELSE status[r]]
    /\ UNCHANGED <<now, records, handed, created, began, failing>>
-----------------------------------------------------------------------------
ReserveStep(r) ==
    \/ DeleteExpired(r) \/ Read(r) \/ Insert(r) \/ Create(r) \/ Reread(r)

SubmitStep(r) ==
    \/ ReloadFails(r) \/ HandOff(r) \/ HandOffFails(r)
    \/ Release(r) \/ Complete(r)

Next ==
    \/ \E r \in Requests : Start(r) \/ ReserveStep(r) \/ SubmitStep(r)
    \/ Tick \/ Purge \/ Restart

Spec == Init /\ [][Next]_vars

\* A call that has begun goes on; a restart, the clock and the purge may wait.
Fairness == \A r \in Requests : WF_vars(ReserveStep(r) \/ SubmitStep(r))

FairSpec == Spec /\ Fairness
-----------------------------------------------------------------------------
(* Properties *)

\* Every variable keeps its type.
TypeOK ==
    /\ now \in Nat
    /\ records \in [Keys -> Records \cup {NoRecord}]
    /\ lock \in [Keys -> Requests \cup {NoRequest}]
    /\ deleted \subseteq Requests
    /\ status \in [Requests -> Statuses]
    /\ handed \subseteq Requests
    /\ began \in [Requests -> Nat]
    /\ created \in [Requests -> Nat]
    /\ pc \in [Requests -> Pcs]
    /\ reply \in [Requests -> Replies]
    /\ crashes \in Nat
    /\ failing \in Faults

\* The transfer of r was committed after the record of s had expired.
After(r, s) == created[r] >= began[s] + Retention

\* create_package hands one transfer per key to the executor, however requests
\* overlap, fail or are cut off, until the retention of the key is over.
OneTransferPerKey ==
    \A r, s \in handed :
        r # s /\ KeyOf[r] = KeyOf[s] => After(r, s) \/ After(s, r)

\* A call is only answered with the UUID of a transfer that the executor has
\* accepted, and that was submitted under the same key with the same payload.
AnswerIsHandedOff ==
    \A r \in Requests : reply[r] \in Requests =>
        /\ reply[r] \in handed
        /\ KeyOf[reply[r]] = KeyOf[r]
        /\ FingerprintOf[reply[r]] = FingerprintOf[r]

\* A transfer row that the executor never got is failed, unless its request is
\* still at work: nothing is left behind by a conflict, an error or a restart.
\* Only a database error in reading or marking that very row leaves it.
NoAbandonedTransfer ==
    failing \cap {"reload", "mark"} = {} =>
        \A r \in Requests \ handed :
            status[r] = "open" => pc[r] \in {"handoff", "release"}

\* A call that has begun is answered: no two transactions wait for each other.
EveryCallEnds == \A r \in Requests : pc[r] = "delete" ~> pc[r] = "done"
=============================================================================
