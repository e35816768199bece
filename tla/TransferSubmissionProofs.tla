----------------------- MODULE TransferSubmissionProofs ----------------------
(***************************************************************************)
(* Proofs about TransferSubmission for any number of requests, keys,       *)
(* restarts and failed updates, and any retention.  Reservations is        *)
(* inductive and gives OneTransferPerKey.  AnswersAgree gives              *)
(* AnswerIsHandedOff: what a record or an answer names was handed over.    *)
(* OpenIsAtWork gives NoAbandonedTransfer: a transfer left open and not    *)
(* handed over has its call at work.                                       *)
(***************************************************************************)
EXTENDS TransferSubmissionInv, TLAPS

(* The constants as the proofs use them. *)
LEMMA Constants ==
    /\ Requests \cap Outcomes = {}
    /\ Retention \in Nat
    /\ NoRequest \notin Requests
    /\ \A r \in Requests : KeyOf[r] \in Keys
  BY SubmissionAssumption

(* A record in the table, or none. *)
LEMMA RecordType ==
    ASSUME TypeOK, NEW r \in Requests
    PROVE  /\ Record(r) \in Records \cup {NoRecord}
           /\ Record(r).expires \in Nat
           /\ Record(r).owner \in Requests => Record(r) \in Records
  BY Constants DEF TypeOK, Record, Records, NoRecord

(* Every step keeps the types. *)
LEMMA TypeStep == TypeOK /\ [Next]_vars => TypeOK'
  <1> SUFFICES ASSUME TypeOK, [Next]_vars PROVE TypeOK' OBVIOUS
  <1> USE Constants DEF environment
  <1>1. ASSUME NEW r \in Requests, Replay(r), Retained(r)
        PROVE  pc' \in [Requests -> Pcs] /\ reply' \in [Requests -> Replies]
    <2>1. Record(r).owner \in Requests
      BY <1>1, RecordType DEF Retained, Exists, Records
    <2> QED BY <1>1, <2>1 DEF Replay, Answer, Goto, TypeOK, Pcs, Replies, Outcomes
  <1>2. ASSUME NEW r \in Requests, Start(r) PROVE TypeOK'
    BY <1>2 DEF Start, Goto, TypeOK, Pcs, row, transfer
  <1>3. ASSUME NEW r \in Requests, DeleteExpired(r) PROVE TypeOK'
    BY <1>3 DEF DeleteExpired, Goto, TypeOK, Pcs, transfer
  <1>4. ASSUME NEW r \in Requests, Read(r) PROVE TypeOK'
    <2>1. pc' \in [Requests -> Pcs] /\ reply' \in [Requests -> Replies]
      BY <1>1, <1>4 DEF Read, Goto, TypeOK, Pcs
    <2> QED BY <1>4, <2>1 DEF Read, TypeOK, row, transfer
  <1>5. ASSUME NEW r \in Requests, Insert(r) PROVE TypeOK'
    BY <1>5 DEF Insert, Goto, TypeOK, Pcs, transfer
  <1>6. ASSUME NEW r \in Requests, Create(r) PROVE TypeOK'
    <2> DEFINE new == [owner |-> r, expires |-> began[r] + Retention,
                       state |-> "pending"]
    <2>1. new \in Records BY DEF TypeOK, Records
    <2>2. records' \in [Keys -> Records \cup {NoRecord}]
      <3>1. records' = [records EXCEPT ![KeyOf[r]] = new] \/ records' = records
        BY <1>6 DEF Create
      <3> HIDE DEF new
      <3> QED BY <2>1, <3>1 DEF TypeOK
    <2>3. pc' \in [Requests -> Pcs] /\ reply' \in [Requests -> Replies]
      BY <1>6 DEF Create, Goto, Answer, TypeOK, Pcs, Replies, Outcomes
    <2>4. status' \in [Requests -> Statuses] /\ created' \in [Requests -> Nat]
      BY <1>6 DEF Create, TypeOK, Statuses
    <2> QED BY <1>6, <2>2, <2>3, <2>4 DEF Create, EndTransaction, TypeOK
  <1>7. ASSUME NEW r \in Requests, Reread(r) PROVE TypeOK'
    <2>1. pc' \in [Requests -> Pcs] /\ reply' \in [Requests -> Replies]
      BY <1>1, <1>7 DEF Reread, Answer, Goto, TypeOK, Pcs, Replies, Outcomes
    <2> QED BY <1>7, <2>1 DEF Reread, TypeOK, row, transfer
  <1>8. ASSUME NEW r \in Requests, HandOff(r) PROVE TypeOK'
    BY <1>8 DEF HandOff, Goto, TypeOK, Pcs, row
  <1>9. ASSUME NEW r \in Requests, HandOffFails(r) PROVE TypeOK'
    BY <1>9 DEF HandOffFails, Goto, TypeOK, Pcs, Statuses, row
  <1>10. ASSUME NEW r \in Requests, Release(r) PROVE TypeOK'
    BY <1>10 DEF Release, Goto, Answer, TypeOK, Pcs, Replies, Outcomes, transfer
  <1>11. ASSUME NEW r \in Requests, Complete(r) PROVE TypeOK'
    <2> DEFINE new == [Record(r) EXCEPT !.state = "completed"]
    <2>1. Pending(r) => new \in Records
      BY RecordType DEF Pending, Records
    <2>2. records' \in [Keys -> Records \cup {NoRecord}]
      <3>1. \/ Pending(r) /\ records' = [records EXCEPT ![KeyOf[r]] = new]
            \/ records' = records
        BY <1>11 DEF Complete, Record
      <3> HIDE DEF new
      <3> QED BY <2>1, <3>1 DEF TypeOK
    <2>3. pc' \in [Requests -> Pcs] /\ reply' \in [Requests -> Replies]
      BY <1>11 DEF Complete, Goto, Answer, TypeOK, Pcs, Replies, Outcomes
    <2> QED BY <1>11, <2>2, <2>3 DEF Complete, TypeOK, transfer
  <1>12. ASSUME Tick PROVE TypeOK'
    BY <1>12 DEF Tick, TypeOK, row, transfer
  <1>13. ASSUME Purge PROVE TypeOK'
    BY <1>13 DEF Purge, TypeOK, transfer
  <1>14. ASSUME Restart PROVE TypeOK'
    BY <1>14 DEF Restart, TypeOK, Pcs, Replies, Outcomes, Statuses
  <1>15. ASSUME NEW r \in Requests, ReloadFails(r) PROVE TypeOK'
    BY <1>15 DEF ReloadFails, Goto, Answer, TypeOK, Pcs, Replies, Outcomes, row, transfer
  <1>16. CASE UNCHANGED vars BY <1>16 DEF TypeOK, vars, row, transfer
  <1> QED
    BY <1>2, <1>3, <1>4, <1>5, <1>6, <1>7, <1>8, <1>9, <1>10, <1>11, <1>12, <1>13,
       <1>14, <1>15, <1>16 DEF Next, ReserveStep, SubmitStep
(* Nothing has been reserved in the initial state. *)
LEMMA InitReservations == Init => Reservations
  <1> SUFFICES ASSUME Init PROVE Reservations OBVIOUS
  <1>1. TypeOK
    BY SubmissionAssumption
       DEF Init, TypeOK, Records, NoRecord, Statuses, Pcs, Replies, Outcomes
  <1>2. Reserved = {} BY DEF Init, Reserved
  <1>3. RowHeld /\ ClockRead /\ NotYetHanded
    BY DEF Init, RowHeld, ClockRead, NotYetHanded
  <1> QED BY <1>1, <1>2, <1>3 DEF Reservations, RecordStays, ApartInTime

(* A step that only moves a request on, to a point that reserves nothing. *)
LEMMA QuietStep ==
    ASSUME Reservations, TypeOK', NEW r \in Requests,
           UNCHANGED <<now, row, handed, created, began>>,
           NEW l \in {"read", "insert", "reread", "release", "done"}, Goto(r, l),
           r \in deleted => l \in {"read", "insert"},
           r \in handed => l = "done"
    PROVE  Reservations'
  <1>1. pc'[r] = l /\ \A s \in Requests \ {r} : pc'[s] = pc[s]
    BY DEF Goto, Reservations, TypeOK
  <1>2. Reserved' \subseteq Reserved
    BY <1>1 DEF Reserved, Reservations, TypeOK
  <1>3. RowHeld'
    BY <1>1 DEF Reservations, RowHeld, row, Record, Exists, TypeOK
  <1>4. ClockRead' /\ NotYetHanded'
    BY <1>1 DEF Reservations, ClockRead, NotYetHanded, TypeOK
  <1>5. RecordStays'
    BY <1>2 DEF Reservations, RecordStays, row, Record
  <1>6. ApartInTime'
    BY <1>2 DEF Reservations, ApartInTime, After
  <1> QED BY <1>3, <1>4, <1>5, <1>6 DEF Reservations

(* A request that only begins holds nothing. *)
LEMMA StartStep ==
    ASSUME Reservations, TypeOK', NEW r \in Requests, Start(r)
    PROVE  Reservations'
  <1> USE DEF Reservations, TypeOK
  <1>1. pc'[r] = "delete" /\ \A s \in Requests \ {r} : pc'[s] = pc[s]
    BY DEF Start, Goto
  <1>2. began'[r] = now /\ \A s \in Requests \ {r} : began'[s] = began[s]
    BY DEF Start
  <1>3. r \notin deleted /\ r \notin Reserved
    BY DEF Start, RowHeld, NotYetHanded, Reserved
  <1>4. Reserved' = Reserved
    BY <1>1, <1>3 DEF Start, transfer, Reserved
  <1>5. RowHeld' BY <1>1, <1>2, <1>3 DEF Start, RowHeld, row, Record, Exists
  <1>6. ClockRead' BY <1>2 DEF Start, ClockRead
  <1>7. NotYetHanded' BY <1>1, <1>3 DEF Start, NotYetHanded, transfer, Reserved
  <1>8. \A s \in Reserved : s \in Requests /\ s # r BY <1>3 DEF Reserved
  <1>9. RecordStays'
    BY <1>2, <1>4, <1>8 DEF Start, RecordStays, row, Record
  <1>10. ApartInTime'
    BY <1>2, <1>4, <1>8 DEF Start, ApartInTime, transfer, After
  <1> QED BY <1>5, <1>6, <1>7, <1>9, <1>10

(* Deleting the expired record takes the free row. *)
LEMMA DeleteExpiredStep ==
    ASSUME Reservations, TypeOK', NEW r \in Requests, DeleteExpired(r)
    PROVE  Reservations'
  <1>1. CASE UNCHANGED <<lock, deleted>>
    <2>1. r \notin handed
      BY DEF Reservations, NotYetHanded, DeleteExpired
    <2> QED BY <1>1, <2>1, QuietStep DEF DeleteExpired, row, transfer
  <1>2. CASE /\ Unlocked(r)
             /\ lock' = [lock EXCEPT ![KeyOf[r]] = r]
             /\ deleted' = deleted \cup {r}
             /\ Record(r).expires <= began[r]
    <2> USE DEF Reservations, TypeOK
    <2>1. pc[r] = "delete" /\ pc'[r] = "read"
          /\ \A s \in Requests \ {r} : pc'[s] = pc[s]
      BY DEF DeleteExpired, Goto
    <2>2. UNCHANGED <<now, records, handed, created, began>>
      BY DEF DeleteExpired, transfer
    <2>3. Reserved' = Reserved BY <2>1, <2>2 DEF Reserved
    <2>4. lock'[KeyOf[r]] = r
          /\ \A s \in Requests : lock[KeyOf[s]] = s => lock'[KeyOf[s]] = s
      BY <1>2, Constants DEF Unlocked
    <2>5. RowHeld'
      BY <1>2, <2>1, <2>2, <2>4 DEF RowHeld, Record, Exists
    <2>6. ClockRead' /\ NotYetHanded'
      BY <2>1, <2>2 DEF ClockRead, NotYetHanded
    <2>7. RecordStays' BY <2>2, <2>3 DEF RecordStays, Record
    <2>8. ApartInTime' BY <2>2, <2>3 DEF ApartInTime, After
    <2> QED BY <2>5, <2>6, <2>7, <2>8
  <1> QED BY <1>1, <1>2 DEF DeleteExpired

(* An insert finds the row free or its own. *)
LEMMA InsertStep ==
    ASSUME Reservations, TypeOK', NEW r \in Requests, Insert(r)
    PROVE  Reservations'
  <1>1. r \notin handed BY DEF Reservations, NotYetHanded, Insert
  <1>2. CASE Exists(r)
    BY <1>1, <1>2, QuietStep DEF Insert, row, transfer, Exists
  <1>3. CASE ~Exists(r)
    <2> USE DEF Reservations, TypeOK
    <2>1. pc[r] = "insert" /\ pc'[r] = "create"
          /\ \A s \in Requests \ {r} : pc'[s] = pc[s]
      BY <1>3 DEF Insert, Goto
    <2>2. UNCHANGED <<now, records, deleted, handed, created, began>>
      BY DEF Insert, transfer
    <2>3. Reserved' = Reserved BY <2>1, <2>2 DEF Reserved
    <2>4. lock'[KeyOf[r]] = r
          /\ \A s \in Requests : lock[KeyOf[s]] = s => lock'[KeyOf[s]] = s
      BY <1>3, Constants DEF Insert
    <2>5. RowHeld'
      BY <1>3, <2>1, <2>2, <2>4 DEF RowHeld, Record, Exists
    <2>6. ClockRead' /\ NotYetHanded'
      BY <1>1, <2>1, <2>2 DEF ClockRead, NotYetHanded
    <2>7. RecordStays' BY <2>2, <2>3 DEF RecordStays, Record
    <2>8. ApartInTime' BY <2>2, <2>3 DEF ApartInTime, After
    <2> QED BY <2>5, <2>6, <2>7, <2>8
  <1> QED BY <1>2, <1>3

(* When a transaction inserts a record the transfers of its key are past their
   retention: a record that is not expired would still be in the table. *)
LEMMA CreateFinds ==
    ASSUME Reservations, NEW r \in Requests, pc[r] = "create",
           NEW s \in Reserved, KeyOf[r] = KeyOf[s]
    PROVE  s \in Requests /\ s # r /\ now >= began[s] + Retention
  <1> USE DEF Reservations, TypeOK
  <1>1. s \in Requests /\ s # r BY DEF Reserved, NotYetHanded
  <1>2. ASSUME now < began[s] + Retention PROVE FALSE
    <2>1. Record(r).owner = s /\ Record(r).expires > now
      BY <1>2 DEF RecordStays, Record
    <2>2. Record(r) # NoRecord
      BY <1>1, <2>1, Constants DEF NoRecord
    <2>3. r \in deleted BY <2>2 DEF RowHeld, Exists
    <2>4. Record(r).expires <= began[r] /\ began[r] <= now
      BY <2>3 DEF RowHeld, ClockRead
    <2>5. Record(r).expires \in Nat /\ began[r] \in Nat /\ now \in Nat
      BY RecordType
    <2> QED BY <2>1, <2>4, <2>5
  <1>3. now \in Nat /\ began[s] + Retention \in Nat BY <1>1, Constants
  <1> QED BY <1>1, <1>2, <1>3

(* The insert commits the only record of the key, or nothing. *)
LEMMA CreateStep ==
    ASSUME Reservations, TypeOK', NEW r \in Requests, Create(r)
    PROVE  Reservations'
  <1> USE DEF Reservations, TypeOK
  <1> DEFINE new == [owner |-> r, expires |-> began[r] + Retention,
                     state |-> "pending"]
  <1>1. pc[r] = "create" /\ lock[KeyOf[r]] = r /\ r \notin Reserved
    BY DEF Create, RowHeld, Reserved, NotYetHanded
  <1>2. pc'[r] \in {"handoff", "done"} /\ \A s \in Requests \ {r} : pc'[s] = pc[s]
    BY DEF Create, Goto, Answer
  <1>3. UNCHANGED <<now, handed, began>> BY DEF Create
  <1>4. r \notin deleted' /\ \A s \in deleted' : s \in deleted /\ s # r
    BY DEF Create, EndTransaction
  <1>5. \A s \in Requests : s # r /\ lock[KeyOf[s]] = s =>
            /\ KeyOf[s] # KeyOf[r]
            /\ lock'[KeyOf[s]] = s
            /\ Record(s)' = Record(s)
    <2> SUFFICES ASSUME NEW s \in Requests, s # r, lock[KeyOf[s]] = s
                 PROVE  /\ KeyOf[s] # KeyOf[r]
                        /\ lock'[KeyOf[s]] = s
                        /\ Record(s)' = Record(s)
      OBVIOUS
    <2>1. KeyOf[s] # KeyOf[r] BY <1>1
    <2>2. lock'[KeyOf[s]] = s BY <2>1, Constants DEF Create, EndTransaction
    <2>3. records' = [records EXCEPT ![KeyOf[r]] = new] \/ records' = records
      BY DEF Create
    <2>4. records'[KeyOf[s]] = records[KeyOf[s]]
      <3> HIDE DEF new
      <3> QED BY <2>1, <2>3, Constants
    <2> QED BY <2>1, <2>2, <2>4 DEF Record
  <1>6. RowHeld'
    <2>1. ASSUME NEW s \in deleted'
          PROVE  pc'[s] \in {"read", "insert", "create"} /\ lock'[KeyOf[s]] = s
                 /\ Record(s)'.expires <= began'[s]
      BY <1>2, <1>3, <1>4, <1>5 DEF RowHeld
    <2>2. ASSUME NEW s \in Requests, pc'[s] = "create"
          PROVE  lock'[KeyOf[s]] = s /\ ~Exists(s)'
      <3>1. s # r /\ lock[KeyOf[s]] = s /\ ~Exists(s)
        BY <1>2, <2>2 DEF RowHeld
      <3>2. s \in deleted => s \in deleted' BY <3>1 DEF Create, EndTransaction
      <3> QED BY <1>5, <3>1, <3>2 DEF Exists, NoRecord
    <2> QED BY <2>1, <2>2 DEF RowHeld
  <1>7. ClockRead' BY <1>3 DEF ClockRead
  <1>8. NotYetHanded' BY <1>1, <1>2, <1>3 DEF NotYetHanded, Reserved
  <1>9. CASE records' = [records EXCEPT ![KeyOf[r]] = new]
             /\ created' = [created EXCEPT ![r] = now]
    <2>1. Reserved' \subseteq Reserved \cup {r} BY <1>2, <1>3 DEF Reserved
    <2>2. Record(r)' = new BY <1>9, Constants DEF Record
    <2>3. \A s \in Reserved : s \in Requests /\ s # r BY <1>1 DEF Reserved
    <2>4. \A s \in Reserved : KeyOf[s] = KeyOf[r] => now >= began[s] + Retention
      BY <1>1, CreateFinds
    <2>5. RecordStays'
      <3> SUFFICES ASSUME NEW s \in Reserved', now < began[s] + Retention
                   PROVE  Record(s)'.owner = s
                          /\ Record(s)'.expires = began[s] + Retention
        BY <1>3 DEF RecordStays
      <3>1. CASE s = r BY <2>2, <3>1
      <3>2. CASE s # r
        <4>1. s \in Reserved /\ s \in Requests BY <2>1, <2>3, <3>2
        <4>2. now \in Nat /\ began[s] + Retention \in Nat BY <4>1, Constants
        <4>3. KeyOf[s] # KeyOf[r] BY <2>4, <4>1, <4>2
        <4>4. Record(s)' = Record(s)
          <5> HIDE DEF new
          <5> QED BY <1>9, <4>1, <4>3, Constants DEF Record
        <4> QED BY <4>1, <4>4 DEF RecordStays
      <3> QED BY <3>1, <3>2
    <2>6. ApartInTime'
      <3>1. created'[r] = now /\ \A s \in Reserved : created'[s] = created[s]
        BY <1>9, <2>3
      <3> QED BY <1>3, <2>1, <2>3, <2>4, <3>1 DEF ApartInTime, After
    <2> QED BY <1>6, <1>7, <1>8, <2>5, <2>6
  <1>10. CASE records' = records /\ created' = created /\ pc'[r] = "done"
    <2>1. Reserved' = Reserved BY <1>1, <1>2, <1>3, <1>10 DEF Reserved
    <2>2. RecordStays' BY <1>3, <1>10, <2>1 DEF RecordStays, Record
    <2>3. ApartInTime' BY <1>3, <1>10, <2>1 DEF ApartInTime, After
    <2> QED BY <1>6, <1>7, <1>8, <2>2, <2>3
  <1> QED BY <1>9, <1>10 DEF Create, Answer, Goto

(* The transfer was reserved before it is handed over. *)
LEMMA HandOffStep ==
    ASSUME Reservations, TypeOK', NEW r \in Requests, HandOff(r)
    PROVE  Reservations'
  <1> USE DEF Reservations, TypeOK
  <1>1. pc[r] = "handoff" /\ pc'[r] = "complete"
        /\ \A s \in Requests \ {r} : pc'[s] = pc[s]
    BY DEF HandOff, Goto
  <1>2. UNCHANGED <<now, row, created, began>> /\ handed' = handed \cup {r}
    BY DEF HandOff
  <1>3. Reserved' = Reserved BY <1>1, <1>2 DEF Reserved
  <1>4. RowHeld' BY <1>1, <1>2 DEF RowHeld, row, Record, Exists
  <1>5. ClockRead' /\ NotYetHanded'
    BY <1>1, <1>2 DEF ClockRead, NotYetHanded
  <1>6. RecordStays' BY <1>2, <1>3 DEF RecordStays, row, Record
  <1>7. ApartInTime' BY <1>2, <1>3 DEF ApartInTime, After
  <1> QED BY <1>4, <1>5, <1>6, <1>7

(* One record of an unlocked key is removed or changed, and no transfer that is
   reserved relies on what it loses. *)
LEMMA RecordStep ==
    ASSUME Reservations, TypeOK', NEW k \in Keys, NEW rec \in Records \cup {NoRecord},
           lock[k] = NoRequest,
           records' = [records EXCEPT ![k] = rec],
           UNCHANGED <<now, lock, deleted, handed, created, began>>,
           \A s \in Requests : pc'[s] = pc[s]
               \/ (pc[s] \in {"complete", "release"} /\ pc'[s] = "done"),
           \A s \in Reserved : KeyOf[s] = k /\ now < began[s] + Retention =>
               rec.owner = records[k].owner /\ rec.expires = records[k].expires
    PROVE  Reservations'
  <1> USE DEF Reservations, TypeOK
  <1>1. Reserved' \subseteq Reserved BY DEF Reserved
  <1>2. \A s \in Requests : lock[KeyOf[s]] = s => Record(s)' = Record(s)
    BY Constants DEF Record
  <1>3. RowHeld'
    <2>1. ASSUME NEW s \in deleted'
          PROVE  pc'[s] \in {"read", "insert", "create"} /\ lock'[KeyOf[s]] = s
                 /\ Record(s)'.expires <= began'[s]
      BY <1>2 DEF RowHeld
    <2>2. ASSUME NEW s \in Requests, pc'[s] = "create"
          PROVE  lock'[KeyOf[s]] = s /\ ~Exists(s)'
      <3>1. lock[KeyOf[s]] = s /\ ~Exists(s) BY <2>2 DEF RowHeld
      <3> QED BY <1>2, <3>1 DEF Exists, NoRecord
    <2> QED BY <2>1, <2>2 DEF RowHeld
  <1>4. ClockRead' /\ NotYetHanded' BY DEF ClockRead, NotYetHanded
  <1>5. RecordStays'
    <2> SUFFICES ASSUME NEW s \in Reserved', now < began[s] + Retention
                 PROVE  Record(s)'.owner = s
                        /\ Record(s)'.expires = began[s] + Retention
      BY DEF RecordStays
    <2>1. s \in Reserved /\ s \in Requests BY <1>1 DEF Reserved
    <2>2. Record(s).owner = s /\ Record(s).expires = began[s] + Retention
      BY <2>1 DEF RecordStays
    <2>3. CASE KeyOf[s] = k BY <2>1, <2>2, <2>3 DEF Record
    <2>4. CASE KeyOf[s] # k BY <2>1, <2>2, <2>4, Constants DEF Record
    <2> QED BY <2>3, <2>4
  <1>6. ApartInTime' BY <1>1 DEF ApartInTime, After
  <1> QED BY <1>3, <1>4, <1>5, <1>6

(* A request that gives its record up has handed nothing over. *)
LEMMA ReleaseStep ==
    ASSUME Reservations, TypeOK', NEW r \in Requests, Release(r)
    PROVE  Reservations'
  <1>1. r \notin handed /\ r \notin deleted /\ r \notin Reserved /\ pc[r] = "release"
    BY DEF Reservations, NotYetHanded, RowHeld, Release, Reserved
  <1>2. CASE records' = records
    BY <1>1, <1>2, QuietStep DEF Release, Answer, row, transfer
  <1>3. CASE Pending(r) /\ Unlocked(r)
             /\ records' = [records EXCEPT ![KeyOf[r]] = NoRecord]
    <2>1. \A s \in Requests : pc'[s] = pc[s] \/ (s = r /\ pc'[s] = "done")
      BY DEF Release, Answer, Goto, Reservations, TypeOK
    <2>2. ASSUME NEW s \in Reserved, KeyOf[s] = KeyOf[r], now < began[s] + Retention
          PROVE  FALSE
      BY <1>1, <1>3, <2>2 DEF Reservations, RecordStays, Pending, Record
    <2>3. UNCHANGED <<now, lock, deleted, handed, created, began>>
      BY DEF Release, transfer
    <2> QED
      BY <1>1, <1>3, <2>1, <2>2, <2>3, RecordStep, Constants DEF Unlocked
  <1> QED BY <1>2, <1>3 DEF Release

(* Completing a record keeps its owner and its expiry. *)
LEMMA CompleteStep ==
    ASSUME Reservations, TypeOK', NEW r \in Requests, Complete(r)
    PROVE  Reservations'
  <1>1. pc[r] = "complete" /\ r \notin deleted
    BY DEF Reservations, RowHeld, Complete
  <1>2. CASE records' = records
    BY <1>1, <1>2, QuietStep DEF Complete, Answer, row, transfer
  <1>3. CASE Pending(r) /\ Unlocked(r)
             /\ records' = [records EXCEPT ![KeyOf[r]].state = "completed"]
    <2> DEFINE rec == [Record(r) EXCEPT !.state = "completed"]
    <2>1. rec \in Records /\ rec.owner = Record(r).owner
          /\ rec.expires = Record(r).expires
      BY <1>3, RecordType DEF Reservations, Pending, Records
    <2>2. records' = [records EXCEPT ![KeyOf[r]] = rec] BY <1>3 DEF Record
    <2>3. \A s \in Requests : pc'[s] = pc[s] \/ (s = r /\ pc'[s] = "done")
      BY DEF Complete, Answer, Goto, Reservations, TypeOK
    <2>4. UNCHANGED <<now, lock, deleted, handed, created, began>>
      BY DEF Complete, transfer
    <2>5. lock[KeyOf[r]] = NoRequest /\ Record(r) = records[KeyOf[r]]
      BY <1>3 DEF Unlocked, Record
    <2>6. rec \in Records \cup {NoRecord} /\ KeyOf[r] \in Keys
      BY <2>1, Constants
    <2>7. rec.owner = records[KeyOf[r]].owner /\ rec.expires = records[KeyOf[r]].expires
      BY <2>1, <2>5
    <2>8. \A s \in Requests : pc'[s] = pc[s]
              \/ (pc[s] \in {"complete", "release"} /\ pc'[s] = "done")
      BY <1>1, <2>3
    <2> HIDE DEF rec
    <2> QED BY <2>2, <2>4, <2>5, <2>6, <2>7, <2>8, RecordStep
  <1> QED BY <1>2, <1>3 DEF Complete

(* The purge only deletes what has expired and is not locked. *)
LEMMA PurgeStep ==
    ASSUME Reservations, TypeOK', Purge
    PROVE  Reservations'
  <1>1. PICK k \in Keys :
          /\ records[k] # NoRecord /\ records[k].expires <= now
          /\ lock[k] = NoRequest
          /\ records' = [records EXCEPT ![k] = NoRecord]
    BY DEF Purge
  <1>2. UNCHANGED <<now, lock, deleted, handed, created, began, pc>>
    BY DEF Purge, transfer
  <1>3. ASSUME NEW s \in Reserved, KeyOf[s] = k, now < began[s] + Retention
        PROVE  FALSE
    <2>1. s \in Requests BY DEF Reserved, Reservations, TypeOK
    <2>2. Record(s).expires = began[s] + Retention /\ Record(s) = records[k]
      BY <1>3 DEF Reservations, RecordStays, Record
    <2>3. now \in Nat /\ began[s] + Retention \in Nat
      BY <2>1, Constants DEF Reservations, TypeOK
    <2> QED BY <1>1, <1>3, <2>2, <2>3
  <1> QED BY <1>1, <1>2, <1>3, RecordStep

(* Time only makes records expire. *)
LEMMA TickStep ==
    ASSUME Reservations, TypeOK', Tick
    PROVE  Reservations'
  <1> USE DEF Reservations, TypeOK
  <1>1. now' = now + 1 /\ UNCHANGED <<row, handed, created, began, pc>>
    BY DEF Tick, transfer
  <1>2. Reserved' = Reserved BY <1>1 DEF Reserved
  <1>3. RowHeld' BY <1>1 DEF RowHeld, row, Record, Exists
  <1>4. ClockRead' /\ NotYetHanded' BY <1>1 DEF ClockRead, NotYetHanded
  <1>5. \A s \in Reserved : s \in Requests /\ began[s] + Retention \in Nat
    BY Constants DEF Reserved
  <1>6. RecordStays' BY <1>1, <1>2, <1>5 DEF RecordStays, row, Record
  <1>7. ApartInTime' BY <1>1, <1>2 DEF ApartInTime, After
  <1> QED BY <1>3, <1>4, <1>6, <1>7

(* A restart rolls back what was open and hands nothing over. *)
LEMMA RestartStep ==
    ASSUME Reservations, TypeOK', Restart
    PROVE  Reservations'
  <1> USE DEF Reservations, TypeOK
  <1>1. \A s \in Requests : pc'[s] \in {"idle", "done"}
                            /\ (pc'[s] = "idle" => pc[s] = "idle")
    BY DEF Restart
  <1>2. UNCHANGED <<now, records, handed, created, began>> /\ deleted' = {}
    BY DEF Restart
  <1>3. Reserved' \subseteq Reserved BY <1>1, <1>2 DEF Reserved
  <1>4. RowHeld' BY <1>1, <1>2 DEF RowHeld
  <1>5. ClockRead' /\ NotYetHanded' BY <1>1, <1>2 DEF ClockRead, NotYetHanded
  <1>6. RecordStays' BY <1>2, <1>3 DEF RecordStays, Record
  <1>7. ApartInTime' BY <1>2, <1>3 DEF ApartInTime, After
  <1> QED BY <1>4, <1>5, <1>6, <1>7

(* Reading a record reserves nothing. *)
LEMMA ReadStep ==
    ASSUME Reservations, TypeOK', NEW r \in Requests, Read(r) \/ Reread(r)
    PROVE  Reservations'
  <1>1. r \notin handed /\ UNCHANGED <<now, row, handed, created, began>>
    BY DEF Reservations, NotYetHanded, Read, Reread, transfer
  <1>2. PICK l \in {"insert", "done"} :
          Goto(r, l) /\ (l = "done" => Retained(r) \/ pc[r] = "reread")
    BY DEF Read, Reread, Replay, Answer
  <1>3. r \in deleted => l = "insert"
    BY <1>2 DEF Retained, Exists, Reservations, RowHeld
  <1> QED BY <1>1, <1>2, <1>3, QuietStep

(* A transfer that could not be handed over stays out of the executor. *)
LEMMA HandOffFailsStep ==
    ASSUME Reservations, TypeOK', NEW r \in Requests,
           HandOffFails(r) \/ ReloadFails(r)
    PROVE  Reservations'
  <1>1. r \notin handed /\ r \notin deleted
    BY DEF Reservations, NotYetHanded, RowHeld, HandOffFails, ReloadFails
  <1>2. CASE HandOffFails(r) BY <1>1, <1>2, QuietStep DEF HandOffFails
  <1>3. CASE ReloadFails(r)
    BY <1>1, <1>3, QuietStep DEF ReloadFails, Answer, transfer
  <1> QED BY <1>2, <1>3

(* Every step keeps the transfers of a key apart. *)
LEMMA StepReservations == Reservations /\ [Next]_vars => Reservations'
  <1> SUFFICES ASSUME Reservations, [Next]_vars PROVE Reservations' OBVIOUS
  <1>1. TypeOK' BY TypeStep DEF Reservations
  <1>2. CASE \E r \in Requests : Start(r) \/ ReserveStep(r) \/ SubmitStep(r)
    BY <1>1, <1>2, StartStep, DeleteExpiredStep, ReadStep, InsertStep, CreateStep,
       HandOffStep, HandOffFailsStep, ReleaseStep, CompleteStep
       DEF ReserveStep, SubmitStep
  <1>3. CASE Tick \/ Purge \/ Restart BY <1>1, <1>3, TickStep, PurgeStep, RestartStep
  <1>4. CASE UNCHANGED vars
    BY <1>4 DEF vars, row, transfer, environment, Reservations, TypeOK, RowHeld, ClockRead,
                NotYetHanded, RecordStays, ApartInTime, Reserved, Record, Exists,
                After
  <1> QED BY <1>2, <1>3, <1>4 DEF Next

(* While a transfer's key is retained its record is in the table, and whoever
   inserts a record has found none or deleted an expired one. *)
THEOREM AlwaysReservations == Spec => []Reservations
  <1> QED BY InitReservations, StepReservations, PTL DEF Spec

(* Every variable keeps its type. *)
THEOREM SubmissionTypeCorrect == Spec => []TypeOK
  <1>1. Reservations => TypeOK BY DEF Reservations
  <1> QED BY <1>1, AlwaysReservations, PTL

(* create_package hands one transfer per key to the executor until the
   retention of the key is over, whatever requests overlap, fail or are cut off. *)
THEOREM AlwaysOneTransferPerKey == Spec => []OneTransferPerKey
  <1>1. Reservations => OneTransferPerKey
    BY DEF Reservations, ApartInTime, OneTransferPerKey, Reserved
  <1> QED BY <1>1, AlwaysReservations, PTL

(* The answer a record gives names a transfer that was handed over. *)
LEMMA ReplayAnswers ==
    ASSUME AnswersAgree, NEW r \in Requests, Replay(r), Exists(r),
           UNCHANGED <<records, handed>>
    PROVE  RecordsAgree' /\ AnswerIsHandedOff'
  <1> DEFINE old == Record(r)
  <1>1. old \in Records /\ KeyOf[r] \in Keys /\ KeyOf[old.owner] = KeyOf[r]
    BY Constants, RecordType DEF AnswersAgree, RecordsAgree, Exists, Record, TypeOK
  <1>2. old.owner \in Requests BY <1>1 DEF Records
  <1>3. reply'[r] \in Requests =>
          /\ reply'[r] = old.owner /\ old.owner \in handed
          /\ FingerprintOf[old.owner] = FingerprintOf[r]
    <2>1. reply'[r] = IF FingerprintOf[old.owner] # FingerprintOf[r] THEN "conflict"
                      ELSE IF old.state = "pending" THEN "in_progress" ELSE old.owner
      BY DEF Replay, Answer, AnswersAgree, TypeOK
    <2>2. "conflict" \notin Requests /\ "in_progress" \notin Requests
      BY Constants DEF Outcomes
    <2>3. old.state = "completed" => old.owner \in handed
      BY <1>1, Constants DEF AnswersAgree, RecordsAgree, Exists, Record
    <2>4. old.state \in {"pending", "completed"} BY <1>1 DEF Records
    <2> QED BY <2>1, <2>2, <2>3, <2>4
  <1>4. \A s \in Requests \ {r} : reply'[s] = reply[s]
    BY DEF Replay, Answer, AnswersAgree, TypeOK
  <1>5. AnswerIsHandedOff'
    BY <1>1, <1>3, <1>4 DEF AnswersAgree, AnswerIsHandedOff
  <1>6. \A s \in Requests : pc'[s] = "complete" => pc[s] = "complete"
    BY DEF Replay, Answer, Goto, AnswersAgree, TypeOK
  <1> QED BY <1>5, <1>6 DEF AnswersAgree, RecordsAgree

(* A step that gives no transfer as an answer and changes no record. *)
LEMMA UnansweredStep ==
    ASSUME AnswersAgree, records' = records, handed \subseteq handed',
           \A r \in Requests : reply'[r] \in Requests => reply'[r] = reply[r],
           \A r \in Requests : pc'[r] = "complete" => pc[r] = "complete" \/ r \in handed'
    PROVE  RecordsAgree' /\ AnswerIsHandedOff'
  <1>1. RecordsAgree' BY DEF AnswersAgree, RecordsAgree
  <1>2. AnswerIsHandedOff' BY DEF AnswersAgree, AnswerIsHandedOff
  <1> QED BY <1>1, <1>2

(* A step that takes a record away, or makes it one of its own. *)
LEMMA OneRecordStep ==
    ASSUME AnswersAgree, TypeOK', NEW k \in Keys, handed' = handed,
           \A l \in Keys \ {k} : records'[l] = records[l],
           \/ records'[k] = records[k]
           \/ records'[k] = NoRecord
           \/ /\ records'[k] \in Records
              /\ KeyOf[records'[k].owner] = k
              /\ records'[k].state = "completed" => records'[k].owner \in handed,
           \A r \in Requests : reply'[r] \in Requests =>
               \/ reply'[r] = reply[r]
               \/ reply'[r] = r /\ r \in handed,
           \A r \in Requests : pc'[r] = "complete" => pc[r] = "complete"
    PROVE  RecordsAgree' /\ AnswerIsHandedOff'
  <1>1. RecordsAgree' BY DEF AnswersAgree, RecordsAgree
  <1>2. AnswerIsHandedOff' BY DEF AnswersAgree, AnswerIsHandedOff
  <1> QED BY <1>1, <1>2

(* Every step keeps answers, records and what was handed over in agreement. *)
LEMMA AnswersStep == AnswersAgree /\ [Next]_vars => AnswersAgree'
  <1> SUFFICES ASSUME AnswersAgree, [Next]_vars
               PROVE  TypeOK' /\ RecordsAgree' /\ AnswerIsHandedOff'
    BY DEF AnswersAgree
  <1>1. TypeOK /\ TypeOK' BY TypeStep DEF AnswersAgree
  <1>2. \A o \in Outcomes : o \notin Requests BY Constants
  <1> USE DEF TypeOK, environment
  <1>3. ASSUME NEW r \in Requests, Start(r) \/ DeleteExpired(r) \/ Insert(r)
        PROVE  RecordsAgree' /\ AnswerIsHandedOff'
    <2>1. /\ records' = records /\ handed' = handed /\ reply' = reply
          /\ \A s \in Requests : pc'[s] = "complete" => pc[s] = "complete"
      BY <1>1, <1>3 DEF Start, DeleteExpired, Insert, Goto, row, transfer
    <2> QED BY <2>1, UnansweredStep
  <1>4. ASSUME NEW r \in Requests, Read(r) \/ Reread(r)
        PROVE  RecordsAgree' /\ AnswerIsHandedOff'
    <2>1. records' = records /\ handed' = handed
      BY <1>4 DEF Read, Reread, row, transfer
    <2>2. CASE Retained(r)
      BY <1>4, <2>1, <2>2, ReplayAnswers DEF Read, Reread, Retained
    <2>3. CASE ~ Retained(r)
      <3>1. /\ \A s \in Requests : pc'[s] = "complete" => pc[s] = "complete"
            /\ \A s \in Requests : reply'[s] = reply[s] \/ reply'[s] = "error"
        BY <1>1, <1>4, <2>3 DEF Read, Reread, Goto, Answer
      <3> QED BY <1>2, <2>1, <3>1, UnansweredStep DEF Outcomes
    <2> QED BY <2>2, <2>3
  <1>5. ASSUME NEW r \in Requests, Create(r)
        PROVE  RecordsAgree' /\ AnswerIsHandedOff'
    <2> DEFINE k == KeyOf[r]
    <2>1. k \in Keys BY Constants
    <2>2. \/ records'[k] = records[k]
          \/ records'[k] \in Records /\ records'[k].owner = r
             /\ records'[k].state = "pending"
      BY <1>1, <1>5, <2>1, Constants DEF Create, Records
    <2>3. \A l \in Keys \ {k} : records'[l] = records[l]
      BY <1>1, <1>5 DEF Create
    <2>4. /\ \A s \in Requests : pc'[s] = "complete" => pc[s] = "complete"
          /\ \A s \in Requests : reply'[s] = reply[s] \/ reply'[s] = "error"
          /\ handed' = handed
      BY <1>1, <1>5 DEF Create, Goto, Answer
    <2> HIDE DEF k
    <2>5. k = KeyOf[r] BY DEF k
    <2> QED BY <1>1, <1>2, <2>1, <2>2, <2>3, <2>4, <2>5, OneRecordStep DEF Outcomes
  <1>6. ASSUME NEW r \in Requests, HandOff(r)
        PROVE  RecordsAgree' /\ AnswerIsHandedOff'
    <2>1. /\ records' = records /\ handed' = handed \cup {r} /\ reply' = reply
          /\ \A s \in Requests \ {r} : pc'[s] = pc[s]
      BY <1>1, <1>6 DEF HandOff, Goto, row
    <2> QED BY <2>1, UnansweredStep
  <1>7. ASSUME NEW r \in Requests, ReloadFails(r) \/ HandOffFails(r)
        PROVE  RecordsAgree' /\ AnswerIsHandedOff'
    <2>1. /\ \A s \in Requests : pc'[s] = "complete" => pc[s] = "complete"
          /\ \A s \in Requests : reply'[s] = reply[s] \/ reply'[s] = "error"
          /\ records' = records /\ handed' = handed
      BY <1>1, <1>7 DEF ReloadFails, HandOffFails, Goto, Answer, row, transfer
    <2> QED BY <1>2, <2>1, UnansweredStep DEF Outcomes
  <1>8. ASSUME NEW r \in Requests, Release(r)
        PROVE  RecordsAgree' /\ AnswerIsHandedOff'
    <2>1. /\ \A s \in Requests : pc'[s] = "complete" => pc[s] = "complete"
          /\ \A s \in Requests : reply'[s] = reply[s] \/ reply'[s] = "error"
          /\ handed' = handed
          /\ \A l \in Keys \ {KeyOf[r]} : records'[l] = records[l]
          /\ records'[KeyOf[r]] = records[KeyOf[r]] \/ records'[KeyOf[r]] = NoRecord
      BY <1>1, <1>8, Constants DEF Release, Goto, Answer, transfer
    <2>2. KeyOf[r] \in Keys BY Constants
    <2> QED BY <1>1, <1>2, <2>1, <2>2, OneRecordStep DEF Outcomes
  <1>9. ASSUME NEW r \in Requests, Complete(r)
        PROVE  RecordsAgree' /\ AnswerIsHandedOff'
    <2>1. r \in handed BY <1>9 DEF Complete, AnswersAgree, RecordsAgree
    <2>2. PICK a \in {"error", r} : Answer(r, a)
      BY <1>9 DEF Complete
    <2>3. KeyOf[r] \in Keys BY Constants
    <2>7. \A s \in Requests : pc'[s] = "complete" => pc[s] = "complete"
      BY <1>1, <2>2 DEF Goto, Answer
    <2>8. \A s \in Requests :
             reply'[s] = reply[s] \/ (s = r /\ reply'[s] \in {"error", r})
      BY <1>1, <2>2 DEF Answer
    <2>9. handed' = handed BY <1>9 DEF Complete, transfer
    <2>10. \A l \in Keys \ {KeyOf[r]} : records'[l] = records[l]
      BY <1>1, <1>9 DEF Complete
    <2>11. "error" \notin Requests BY <1>2 DEF Outcomes
    <2>4. \/ records'[KeyOf[r]] = records[KeyOf[r]]
          \/ /\ Pending(r)
             /\ records'[KeyOf[r]] = [Record(r) EXCEPT !.state = "completed"]
      BY <1>1, <1>9, <2>3 DEF Complete, Record
    <2>5. Pending(r) => [Record(r) EXCEPT !.state = "completed"] \in Records
      BY RecordType DEF Pending, Records, AnswersAgree
    <2>6. Pending(r) => [Record(r) EXCEPT !.state = "completed"].owner = r
      BY RecordType DEF Pending, Records, AnswersAgree
    <2>12. \A s \in Requests : reply'[s] \in Requests =>
             reply'[s] = reply[s] \/ (reply'[s] = s /\ s \in handed)
      BY <2>1, <2>8, <2>11
    <2>13. \/ records'[KeyOf[r]] = records[KeyOf[r]]
           \/ /\ records'[KeyOf[r]] \in Records
              /\ records'[KeyOf[r]].owner = r
      BY <2>4, <2>5, <2>6
    <2> QED BY <1>1, <2>1, <2>3, <2>7, <2>9, <2>10, <2>12, <2>13, OneRecordStep
  <1>10. CASE Tick
    <2>1. records' = records /\ handed' = handed /\ reply' = reply /\ pc' = pc
      BY <1>10 DEF Tick, row, transfer
    <2> QED BY <1>1, <2>1, UnansweredStep
  <1>11. CASE Purge
    <2>1. PICK k \in Keys : records' = [records EXCEPT ![k] = NoRecord]
      BY <1>11 DEF Purge
    <2>2. handed' = handed /\ reply' = reply /\ pc' = pc BY <1>11 DEF Purge, transfer
    <2>3. records'[k] = NoRecord /\ \A l \in Keys \ {k} : records'[l] = records[l]
      BY <1>1, <2>1
    <2> QED BY <1>1, <2>2, <2>3, OneRecordStep
  <1>12. CASE Restart
    <2>1. /\ \A s \in Requests : pc'[s] # "complete"
          /\ \A s \in Requests : reply'[s] = reply[s] \/ reply'[s] = "lost"
          /\ records' = records /\ handed' = handed
      BY <1>1, <1>12 DEF Restart
    <2>2. "lost" \notin Requests BY <1>2 DEF Outcomes
    <2>3. \A s \in Requests : reply'[s] \in Requests => reply'[s] = reply[s]
      BY <2>1, <2>2
    <2> QED BY <1>1, <2>1, <2>3, UnansweredStep
  <1>13. CASE UNCHANGED vars
    <2>1. records' = records /\ handed' = handed /\ reply' = reply /\ pc' = pc
      BY <1>13 DEF vars, row, transfer
    <2> QED BY <1>1, <2>1, UnansweredStep
  <1> QED
    BY <1>1, <1>3, <1>4, <1>5, <1>6, <1>7, <1>8, <1>9, <1>10, <1>11, <1>12, <1>13
       DEF Next, ReserveStep, SubmitStep

(* A call is only answered with a transfer that the executor has accepted and
   that was submitted under its key with its payload, whatever calls overlap,
   raise or are cut off. *)
THEOREM AlwaysAnswerIsHandedOff == Spec => []AnswerIsHandedOff
  <1>1. Init => AnswersAgree
    <2> SUFFICES ASSUME Init PROVE AnswersAgree OBVIOUS
    <2>1. TypeOK BY InitReservations DEF Reservations
    <2>2. RecordsAgree BY DEF Init, RecordsAgree
    <2>3. AnswerIsHandedOff
      BY Constants DEF Init, AnswerIsHandedOff, Outcomes
    <2> QED BY <2>1, <2>2, <2>3 DEF AnswersAgree
  <1>2. AnswersAgree => AnswerIsHandedOff BY DEF AnswersAgree
  <1> QED BY <1>1, <1>2, AnswersStep, PTL DEF Spec

(* A transfer is open without having been handed over only while its call may
   still hand it over. *)
LEMMA OpenStep == OpenIsAtWork /\ [Next]_vars => OpenIsAtWork'
  <1> SUFFICES ASSUME OpenIsAtWork, [Next]_vars,
                      failing' \cap {"reload", "mark"} = {},
                      NEW r \in Requests \ handed', status'[r] = "open"
               PROVE  pc'[r] = "handoff"
    BY TypeStep DEF OpenIsAtWork
  <1>1. TypeOK /\ failing' = failing
    BY DEF OpenIsAtWork, Next, ReserveStep, SubmitStep, Start, DeleteExpired, Read,
           Insert, Create, Reread, ReloadFails, HandOff, HandOffFails, Release,
           Complete, Tick, Purge, Restart, environment, vars
  <1>2. r \notin handed /\ status[r] = "open" => pc[r] = "handoff"
    BY <1>1 DEF OpenIsAtWork
  <1> USE DEF TypeOK, Goto, Answer
  <1>3. ASSUME NEW s \in Requests,
               Start(s) \/ DeleteExpired(s) \/ Read(s) \/ Insert(s) \/ Reread(s)
        PROVE  pc'[r] = "handoff"
    BY <1>1, <1>2, <1>3
       DEF Start, DeleteExpired, Read, Replay, Insert, Reread, transfer
  <1>4. ASSUME NEW s \in Requests, Create(s) PROVE pc'[r] = "handoff"
    BY <1>1, <1>2, <1>4 DEF Create
  <1>5. ASSUME NEW s \in Requests, ReloadFails(s) \/ HandOffFails(s)
        PROVE  pc'[r] = "handoff"
    BY <1>1, <1>2, <1>5 DEF ReloadFails, HandOffFails, transfer
  <1>6. ASSUME NEW s \in Requests, HandOff(s) PROVE pc'[r] = "handoff"
    BY <1>1, <1>2, <1>6 DEF HandOff
  <1>7. ASSUME NEW s \in Requests, Release(s) \/ Complete(s) PROVE pc'[r] = "handoff"
    BY <1>1, <1>2, <1>7 DEF Release, Complete, transfer
  <1>8. CASE Tick \/ Purge BY <1>1, <1>2, <1>8 DEF Tick, Purge, transfer
  <1>9. CASE Restart BY <1>1, <1>9 DEF Restart
  <1>10. CASE UNCHANGED vars BY <1>2, <1>10 DEF vars, transfer
  <1> QED
    BY <1>3, <1>4, <1>5, <1>6, <1>7, <1>8, <1>9, <1>10 DEF Next, ReserveStep, SubmitStep

(* A transfer the executor never got is failed, unless its call is still at
   work; only a database error in reading or marking its row leaves it. *)
THEOREM AlwaysNoAbandonedTransfer == Spec => []NoAbandonedTransfer
  <1>1. Init => OpenIsAtWork
    <2> SUFFICES ASSUME Init PROVE OpenIsAtWork OBVIOUS
    <2>1. TypeOK BY InitReservations DEF Reservations
    <2> QED BY <2>1 DEF Init, OpenIsAtWork
  <1>2. OpenIsAtWork => NoAbandonedTransfer
    BY DEF OpenIsAtWork, NoAbandonedTransfer
  <1> QED BY <1>1, <1>2, OpenStep, PTL DEF Spec
=============================================================================
