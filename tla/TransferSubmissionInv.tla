------------------------ MODULE TransferSubmissionInv ------------------------
(***************************************************************************)
(* The inductive invariant behind OneTransferPerKey.  While the key of a   *)
(* transfer is retained its record stays in the table (RecordStays): what  *)
(* deletes a record has seen it expired, or gives its own one up.  And a   *)
(* transaction that inserts a record holds the row, having found none or   *)
(* deleted an expired one (RowHeld).  So by the time of a second insert    *)
(* the first transfer is past its retention.                               *)
(***************************************************************************)
EXTENDS TransferSubmission

\* Transfers that have been, or may still be, handed to the executor
Reserved == handed \cup {r \in Requests : pc[r] = "handoff"}

\* An open transaction that deleted the record saw it expired and holds the
\* row; one that creates holds the row and sees no record.
RowHeld ==
    /\ \A r \in deleted :
        /\ pc[r] \in {"read", "insert", "create"}
        /\ lock[KeyOf[r]] = r
        /\ Record(r).expires <= began[r]
    /\ \A r \in Requests :
        pc[r] = "create" => lock[KeyOf[r]] = r /\ ~Exists(r)

\* No request has read a time that is still to come.
ClockRead == \A r \in Requests : began[r] <= now

\* A transfer is handed over after everything that may still undo it.
NotYetHanded ==
    \A r \in handed : pc[r] \in {"complete", "done"}

\* The record of a transfer is there until its retention is over.
RecordStays ==
    \A r \in Reserved : now < began[r] + Retention =>
        Record(r).owner = r /\ Record(r).expires = began[r] + Retention

ApartInTime ==
    \A r, s \in Reserved :
        r # s /\ KeyOf[r] = KeyOf[s] => After(r, s) \/ After(s, r)

\* The inductive invariant: what the transactions hold and the records say
\* keeps the transfers of a key apart.
Reservations ==
    /\ TypeOK
    /\ RowHeld
    /\ ClockRead
    /\ NotYetHanded
    /\ RecordStays
    /\ ApartInTime

-----------------------------------------------------------------------------
(* Two more, on top of it                                                  *)

\* A record is of its key, and a completed one of a transfer that the executor
\* has accepted; so is what a call is about to complete.
RecordsAgree ==
    /\ \A k \in Keys : records[k] # NoRecord =>
        /\ KeyOf[records[k].owner] = k
        /\ records[k].state = "completed" => records[k].owner \in handed
    /\ \A r \in Requests : pc[r] = "complete" => r \in handed

\* What AnswerIsHandedOff needs to be inductive.
AnswersAgree == TypeOK /\ RecordsAgree /\ AnswerIsHandedOff

\* What NoAbandonedTransfer needs to be inductive: a transfer that may be
\* released is marked already.
OpenIsAtWork ==
    /\ TypeOK
    /\ failing \cap {"reload", "mark"} = {} =>
        \A r \in Requests \ handed : status[r] = "open" => pc[r] = "handoff"
=============================================================================
