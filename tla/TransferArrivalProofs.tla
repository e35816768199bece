------------------------ MODULE TransferArrivalProofs ------------------------
(***************************************************************************)
(* What TransferArrival promises to clients that approve transfers, for    *)
(* any number of packages, names, clients, restarts and watch methods.     *)
(*                                                                         *)
(* ArrivalAgrees (TransferArrivalInv) is inductive: InitArrival, and       *)
(* StepArrival from one lemma per kind of step.  The steps of a chain, and *)
(* a decision, all replace one record of chains (Advances) and at most the *)
(* row of its transfer (RowsFollow), so ChainStepAgrees is proved once.    *)
(*                                                                         *)
(* ReportsInv, behind ReportedOnce and OneTransferPerPackage, is inductive *)
(* beside it where no two packages come under one name (NamesApart).       *)
(* Again there is one lemma per kind of step; the reports a package is     *)
(* still owed are counted, and HandleReports is the step that turns one    *)
(* that was owed into a chain.                                             *)
(***************************************************************************)
EXTENDS TransferArrivalInv, SequenceTheorems, FiniteSetTheorems, TLAPS

TransferRows == [location : Locations, status : Statuses]
ChainRecords(n) ==
    [transfer : 1 .. n, about : Packages \cup {NoPackage}, phase : Phases,
     directory : Locations, row : Rows, ours : BOOLEAN]

(* What Append returns, index by index. *)
LEMMA AppendFacts ==
    ASSUME NEW S, NEW s \in Seq(S), NEW x \in S
    PROVE  /\ Append(s, x) \in Seq(S)
           /\ Len(s) \in Nat /\ Len(Append(s, x)) = Len(s) + 1
           /\ \A i \in 1 .. Len(s) : Append(s, x)[i] = s[i]
           /\ Append(s, x)[Len(s) + 1] = x
           /\ DOMAIN Append(s, x) = 1 .. Len(s) + 1 /\ DOMAIN s = 1 .. Len(s)
  BY AppendProperties, LenProperties

(* What replacing an element of a sequence leaves. *)
LEMMA ExceptFacts ==
    ASSUME NEW S, NEW s \in Seq(S), NEW i \in DOMAIN s, NEW x \in S
    PROVE  /\ [s EXCEPT ![i] = x] \in Seq(S)
           /\ Len(s) \in Nat /\ Len([s EXCEPT ![i] = x]) = Len(s)
           /\ DOMAIN [s EXCEPT ![i] = x] = DOMAIN s /\ DOMAIN s = 1 .. Len(s)
           /\ [s EXCEPT ![i] = x][i] = x
           /\ \A k \in DOMAIN s : k # i => [s EXCEPT ![i] = x][k] = s[k]
  BY ExceptSeq, LenProperties

(* The types of rows and chains, index by index. *)
LEMMA ArrivalTypes ==
    ASSUME TypeOK
    PROVE  /\ Len(transfers) \in Nat /\ DOMAIN transfers = 1 .. Len(transfers)
           /\ transfers \in Seq(TransferRows)
           /\ \A t \in DOMAIN transfers : transfers[t] \in TransferRows
           /\ Len(chains) \in Nat /\ Chains = 1 .. Len(chains)
           /\ chains \in Seq(ChainRecords(Len(transfers)))
           /\ \A j \in Chains : chains[j] \in ChainRecords(Len(transfers))
  <1>1. transfers \in Seq(TransferRows) /\ chains \in Seq(ChainRecords(Len(transfers)))
    BY DEF TypeOK, TransferRows, ChainRecords
  <1> QED BY <1>1, LenProperties, ElementOfSeq DEF Chains

\* What a step of the chain j leaves of it, and of the rows.
Advances(j, r) ==
    /\ r \in ChainRecords(Len(transfers))
    /\ r.transfer = chains[j].transfer /\ r.ours = chains[j].ours
    /\ r.phase \notin {"sent", "mv", "ended", "lost"} => r.ours
    /\ up => (r.row = "awaiting" <=> r.phase \in {"marked", "offered"})
    /\ chains[j].phase # "ended"
    /\ r.phase \in {"scheduled", "saved", "marked", "offered"} =>
           chains[j].phase \in {"scheduled", "saved", "marked", "offered"}
RowsFollow(j, r) ==
    /\ transfers' \in Seq(TransferRows)
    /\ Len(transfers') = Len(transfers)
    /\ \A t \in 1 .. Len(transfers) :
           /\ \/ transfers'[t].status = transfers[t].status
              \/ t = r.transfer /\ r.phase = "ended"
           /\ \/ transfers'[t].location = transfers[t].location
              \/ t = r.transfer

(* A step of one chain preserves the invariant. *)
LEMMA ChainStepAgrees ==
    ASSUME ArrivalAgrees, NEW j \in Chains, NEW r, Advances(j, r), RowsFollow(j, r),
           chains' = [chains EXCEPT ![j] = r],
           at' \in [Names -> Packages \cup {NoPackage}],
           client' \in [Clients -> 0 .. Len(chains)],
           \A c \in Clients : client'[c] \in {0, client[c]},
           UNCHANGED <<method, delivery, watcher, up, restarts, early>>
    PROVE  ArrivalAgrees'
  <1> USE DEF Chains
  <1>1. /\ chains' \in Seq(ChainRecords(Len(transfers)))
        /\ Len(chains') = Len(chains) /\ DOMAIN chains' = DOMAIN chains
        /\ chains'[j] = r /\ \A k \in DOMAIN chains : k # j => chains'[k] = chains[k]
    BY ArrivalTypes, ExceptFacts DEF ArrivalAgrees, Advances
  <1>2. Len(transfers') = Len(transfers) BY DEF RowsFollow
  <1>3. TypeOK'
    <2>1. /\ transfers' \in Seq([location : Locations, status : Statuses])
          /\ chains' \in Seq([transfer : 1 .. Len(transfers'),
                              about : Packages \cup {NoPackage},
                              phase : Phases, directory : Locations, row : Rows,
                              ours : BOOLEAN])
      BY <1>1, <1>2 DEF RowsFollow, TransferRows, ChainRecords
    <2>2. \A k \in DOMAIN chains' :
              chains'[k].phase \notin {"sent", "mv", "ended", "lost"} => chains'[k].ours
      BY <1>1 DEF ArrivalAgrees, TypeOK, Advances
    <2>3. \A c \in Clients : client'[c] # 0 => up' /\ chains'[client'[c]].ours
      <3> TAKE c \in Clients
      <3> HAVE client'[c] # 0
      <3>1. client'[c] = client[c] /\ client[c] # 0 OBVIOUS
      <3>2. client[c] \in DOMAIN chains /\ up /\ chains[client[c]].ours
        BY <3>1, ArrivalTypes DEF ArrivalAgrees, TypeOK
      <3> QED BY <1>1, <3>1, <3>2 DEF Advances
    <2> QED
      BY <1>1, <1>2, <2>1, <2>2, <2>3 DEF ArrivalAgrees, TypeOK, delivery, watcher
  <1>4. AwaitingIsOffered'
    BY <1>1 DEF ArrivalAgrees, AwaitingIsOffered, Advances
  <1>5. (~ up => \A k \in Chains : ~ chains[k].ours)'
    BY <1>1 DEF ArrivalAgrees, Advances
  <1>6. DeliveriesAgree'
    <2>1. \A k \in Chains : chains'[k].transfer = chains[k].transfer
      BY <1>1 DEF Advances
    <2>2. r.transfer = chains[j].transfer BY DEF Advances
    <2>3. \A p \in Packages : own[p] # 0 => own[p] \in 1 .. Len(transfers)
      BY ArrivalTypes DEF ArrivalAgrees, TypeOK
    <2> QED
      BY <1>1, <2>1, <2>2, <2>3 DEF ArrivalAgrees, DeliveriesAgree, RowsFollow, delivery
  <1>7. ProcessingAgrees'
    <2> SUFFICES ASSUME NEW k \in Chains,
                        chains'[k].phase \in {"scheduled", "saved", "marked", "offered"}
                 PROVE  \/ transfers'[chains'[k].transfer].status = "processing"
                        \/ \E i \in Chains :
                               /\ chains'[i].transfer = chains'[k].transfer
                               /\ chains'[i].phase = "ended"
      BY <1>1 DEF ProcessingAgrees
    <2>1. /\ chains'[k].transfer = chains[k].transfer
          /\ chains[k].phase \in {"scheduled", "saved", "marked", "offered"}
          /\ chains[k].transfer \in 1 .. Len(transfers)
      BY <1>1, ArrivalTypes DEF Advances, ArrivalAgrees, ChainRecords
    <2>2. CASE \E i \in Chains : /\ chains[i].transfer = chains[k].transfer
                                /\ chains[i].phase = "ended"
      BY <1>1, <2>1, <2>2 DEF Advances
    <2>3. CASE transfers[chains[k].transfer].status = "processing"
      <3>1. CASE transfers'[chains[k].transfer].status = "processing" BY <2>1, <3>1
      <3>2. CASE transfers'[chains[k].transfer].status # "processing"
        <4>1. chains[k].transfer = r.transfer /\ r.phase = "ended"
          BY <2>1, <2>3, <3>2 DEF RowsFollow
        <4> QED BY <1>1, <2>1, <4>1
      <3> QED BY <3>1, <3>2
    <2> QED BY <2>1, <2>2, <2>3 DEF ArrivalAgrees, ProcessingAgrees
  <1> QED BY <1>3, <1>4, <1>5, <1>6, <1>7 DEF ArrivalAgrees

(* The steps of a chain that has been sent on, step by step. *)
LEMMA ChainSteps ==
    ASSUME ArrivalAgrees, NEW j \in Chains,
           \/ SaveRow(j) \/ Preconfigured(j) \/ MarkAwaiting(j) \/ Offer(j)
           \/ SendMove(j) \/ Move(j) \/ Commit(j) \/ EndChain(j)
    PROVE  ArrivalAgrees'
  <1> USE DEF Chains
  <1>1. /\ chains[j] \in ChainRecords(Len(transfers))
        /\ chains[j].transfer \in 1 .. Len(transfers)
        /\ transfers[chains[j].transfer] \in TransferRows
        /\ Len(transfers) \in Nat /\ DOMAIN transfers = 1 .. Len(transfers)
        /\ transfers \in Seq(TransferRows)
        /\ \A t \in 1 .. Len(transfers) : transfers[t] \in TransferRows
    BY ArrivalTypes DEF ArrivalAgrees, ChainRecords
  <1>2. /\ at \in [Names -> Packages \cup {NoPackage}]
        /\ client \in [Clients -> 0 .. Len(chains)]
        /\ chains[j].phase \notin {"sent", "mv", "ended", "lost"} => chains[j].ours
    BY DEF ArrivalAgrees, TypeOK
  <1>3. Elsewhere \in Locations BY DEF Elsewhere, Locations
  <1>4. up => (chains[j].row = "awaiting" <=> chains[j].phase \in {"marked", "offered"})
    BY DEF ArrivalAgrees, AwaitingIsOffered
  <1>5. ASSUME UNCHANGED transfers, NEW r \in ChainRecords(Len(transfers))
        PROVE  RowsFollow(j, r)
    BY <1>1, <1>5 DEF RowsFollow
  <1>6. ASSUME UNCHANGED client
        PROVE  /\ client' \in [Clients -> 0 .. Len(chains)]
               /\ \A c \in Clients : client'[c] \in {0, client[c]}
    BY <1>2, <1>6
  <1>7. CASE SaveRow(j)
    <2> DEFINE r == [chains[j] EXCEPT !.phase = "saved", !.row = "executing",
                         !.directory = transfers[chains[j].transfer].location]
    <2>1. Advances(j, r)
      BY <1>1, <1>2, <1>7 DEF SaveRow, Advances, ChainRecords, TransferRows, Phases, Rows
    <2>2. chains' = [chains EXCEPT ![j] = r] BY <1>1, <1>7 DEF SaveRow
    <2>3. /\ UNCHANGED <<method, delivery, watcher, up, restarts, early>>
          /\ UNCHANGED <<at, transfers, client>>
      BY <1>7 DEF SaveRow, OnlyChains
    <2> HIDE DEF r
    <2> QED BY <1>2, <1>5, <1>6, <2>1, <2>2, <2>3, ChainStepAgrees DEF Advances
  <1>8. CASE Preconfigured(j)
    <2> DEFINE r == [chains[j] EXCEPT !.phase = "approved", !.row = "completed"]
    <2>1. Advances(j, r)
      BY <1>1, <1>2, <1>8 DEF Preconfigured, StepRow, Advances, ChainRecords, Phases, Rows
    <2>2. chains' = [chains EXCEPT ![j] = r] BY <1>1, <1>8 DEF Preconfigured, StepRow
    <2>3. /\ UNCHANGED <<method, delivery, watcher, up, restarts, early>>
          /\ UNCHANGED <<at, transfers, client>>
      BY <1>8 DEF Preconfigured, OnlyChains
    <2> HIDE DEF r
    <2> QED BY <1>2, <1>5, <1>6, <2>1, <2>2, <2>3, ChainStepAgrees DEF Advances
  <1>9. CASE MarkAwaiting(j)
    <2> DEFINE r == [chains[j] EXCEPT !.phase = "marked", !.row = "awaiting"]
    <2>1. Advances(j, r)
      BY <1>1, <1>2, <1>9 DEF MarkAwaiting, StepRow, Advances, ChainRecords, Phases, Rows
    <2>2. chains' = [chains EXCEPT ![j] = r] BY <1>1, <1>9 DEF MarkAwaiting, StepRow
    <2>3. /\ UNCHANGED <<method, delivery, watcher, up, restarts, early>>
          /\ UNCHANGED <<at, transfers, client>>
      BY <1>9 DEF MarkAwaiting, OnlyChains
    <2> HIDE DEF r
    <2> QED BY <1>2, <1>5, <1>6, <2>1, <2>2, <2>3, ChainStepAgrees DEF Advances
  <1>10. CASE Offer(j)
    <2> DEFINE r == [chains[j] EXCEPT !.phase = "offered"]
    <2>1. Advances(j, r)
      BY <1>1, <1>2, <1>4, <1>10 DEF Offer, Step, Advances, ChainRecords, Phases, Rows
    <2>2. chains' = [chains EXCEPT ![j] = r] BY <1>1, <1>10 DEF Offer, Step
    <2>3. /\ UNCHANGED <<method, delivery, watcher, up, restarts, early>>
          /\ UNCHANGED <<at, transfers, client>>
      BY <1>10 DEF Offer, OnlyChains
    <2> HIDE DEF r
    <2> QED BY <1>2, <1>5, <1>6, <2>1, <2>2, <2>3, ChainStepAgrees DEF Advances
  <1>11. CASE SendMove(j)
    <2> DEFINE r == [chains[j] EXCEPT !.phase = "sent",
                         !.directory = transfers[chains[j].transfer].location]
    <2>1. Advances(j, r)
      BY <1>1, <1>2, <1>4, <1>11
         DEF SendMove, Advances, ChainRecords, TransferRows, Phases, Rows
    <2>2. chains' = [chains EXCEPT ![j] = r] BY <1>1, <1>11 DEF SendMove
    <2>3. /\ UNCHANGED <<method, delivery, watcher, up, restarts, early>>
          /\ UNCHANGED <<at, transfers, client>>
      BY <1>11 DEF SendMove, OnlyChains
    <2> HIDE DEF r
    <2> QED BY <1>2, <1>5, <1>6, <2>1, <2>2, <2>3, ChainStepAgrees DEF Advances
  <1>12. CASE Move(j)
    <2> DEFINE r == [chains[j] EXCEPT !.phase = "mv"]
    <2>1. Advances(j, r)
      BY <1>1, <1>2, <1>4, <1>12 DEF Move, Step, Advances, ChainRecords, Phases, Rows
    <2>2. chains' = [chains EXCEPT ![j] = r] BY <1>1, <1>12 DEF Move, Step
    <2>3. /\ UNCHANGED <<method, delivery, watcher, up, restarts, early>>
          /\ UNCHANGED <<transfers, client>>
          /\ at' \in [Names -> Packages \cup {NoPackage}]
      BY <1>2, <1>12 DEF Move
    <2> HIDE DEF r
    <2> QED BY <1>2, <1>5, <1>6, <2>1, <2>2, <2>3, ChainStepAgrees DEF Advances
  <1>13. CASE Commit(j)
    <2> DEFINE r == [chains[j] EXCEPT !.phase = IF chains[j].ours THEN "moved" ELSE "lost"]
    <2>1. Advances(j, r)
      BY <1>1, <1>2, <1>4, <1>13 DEF Commit, Step, Advances, ChainRecords, Phases, Rows
    <2>2. chains' = [chains EXCEPT ![j] = r] BY <1>1, <1>13 DEF Commit, Step
    <2>3. RowsFollow(j, r)
      <3> DEFINE x == [transfers[chains[j].transfer] EXCEPT !.location = Elsewhere]
      <3>1. x \in TransferRows BY <1>1, <1>3 DEF TransferRows
      <3>2. transfers' = [transfers EXCEPT ![chains[j].transfer] = x]
        BY <1>1, <1>13 DEF Commit
      <3>3. x.status = transfers[chains[j].transfer].status BY <1>1 DEF TransferRows
      <3>4. r.transfer = chains[j].transfer BY <2>1 DEF Advances
      <3> HIDE DEF x, r
      <3> QED BY <1>1, <3>1, <3>2, <3>3, <3>4, ExceptFacts DEF RowsFollow
    <2>4. UNCHANGED <<method, delivery, watcher, up, restarts, early, at, client>>
      BY <1>13 DEF Commit
    <2> HIDE DEF r
    <2> QED BY <1>2, <1>6, <2>1, <2>2, <2>3, <2>4, ChainStepAgrees
  <1>14. CASE EndChain(j)
    <2> DEFINE r == [chains[j] EXCEPT !.phase = "ended"]
    <2>1. Advances(j, r)
      BY <1>1, <1>2, <1>4, <1>14 DEF EndChain, Step, Advances, ChainRecords, Phases, Rows
    <2>2. chains' = [chains EXCEPT ![j] = r] BY <1>1, <1>14 DEF EndChain, Step
    <2>3. RowsFollow(j, r)
      <3>1. PICK s \in {"done", "failed"} :
                transfers' = [transfers EXCEPT ![chains[j].transfer].status = s]
        BY <1>14 DEF EndChain
      <3> DEFINE x == [transfers[chains[j].transfer] EXCEPT !.status = s]
      <3>2. x \in TransferRows BY <1>1 DEF TransferRows, Statuses
      <3>3. transfers' = [transfers EXCEPT ![chains[j].transfer] = x] BY <1>1, <3>1
      <3>4. r.transfer = chains[j].transfer /\ r.phase = "ended"
        BY <1>1 DEF ChainRecords
      <3> HIDE DEF x, r
      <3> QED BY <1>1, <3>2, <3>3, <3>4, ExceptFacts DEF RowsFollow
    <2>4. UNCHANGED <<method, delivery, watcher, up, restarts, early, at, client>>
      BY <1>14 DEF EndChain
    <2> HIDE DEF r
    <2> QED BY <1>2, <1>6, <2>1, <2>2, <2>3, <2>4, ChainStepAgrees
  <1> QED BY <1>7, <1>8, <1>9, <1>10, <1>11, <1>12, <1>13, <1>14

(* A client takes a decision, or comes too late. *)
LEMMA DecideAgrees ==
    ASSUME ArrivalAgrees, NEW c \in Clients, Decide(c)
    PROVE  ArrivalAgrees'
  <1> USE DEF Chains
  <1> DEFINE j == client[c]
  <1>1. /\ j \in DOMAIN chains /\ up /\ chains[j].ours
        /\ chains[j] \in ChainRecords(Len(transfers))
        /\ Len(chains) \in Nat
    BY ArrivalTypes DEF Decide, ArrivalAgrees, TypeOK
  <1>2. /\ client' \in [Clients -> 0 .. Len(chains)]
        /\ \A d \in Clients : client'[d] \in {0, client[d]}
    BY <1>1 DEF ArrivalAgrees, TypeOK, Decide
  <1>3. /\ UNCHANGED <<method, delivery, watcher, up, restarts, early>>
        /\ UNCHANGED <<at, transfers>>
    BY DEF Decide
  <1>4. at \in [Names -> Packages \cup {NoPackage}] BY DEF ArrivalAgrees, TypeOK
  <1>5. CASE chains[j].phase = "offered"
    <2> DEFINE r == [chains[j] EXCEPT !.phase = "approved", !.row = "completed"]
    <2>1. Advances(j, r)
      BY <1>1, <1>5 DEF Advances, ChainRecords, Phases, Rows
    <2>2. chains' = [chains EXCEPT ![j] = r] BY <1>1, <1>5 DEF Decide, StepRow
    <2>3. RowsFollow(j, r) BY <1>3, ArrivalTypes DEF RowsFollow, ArrivalAgrees
    <2> HIDE DEF r, j
    <2> QED BY <1>1, <1>2, <1>3, <1>4, <2>1, <2>2, <2>3, ChainStepAgrees
  <1>6. CASE chains[j].phase # "offered"
    <2>1. UNCHANGED chains BY <1>6 DEF Decide
    <2>2. \A d \in Clients : client'[d] # 0 => client'[d] = client[d] BY <1>2
    <2>3. TypeOK' BY <1>2, <1>3, <2>1, <2>2 DEF ArrivalAgrees, TypeOK, delivery, watcher
    <2> QED
      BY <1>3, <2>1, <2>3
         DEF ArrivalAgrees, AwaitingIsOffered, DeliveriesAgree, ProcessingAgrees, delivery
  <1> QED BY <1>5, <1>6

(* Steps of the watching thread and of clients that change no row and no chain. *)
LEMMA QuietAgrees ==
    ASSUME ArrivalAgrees, TypeOK', UNCHANGED <<transfers, chains, delivery, up>>
    PROVE  ArrivalAgrees'
  BY DEF ArrivalAgrees, AwaitingIsOffered, DeliveriesAgree, ProcessingAgrees, delivery, Chains

(* These steps keep the types, and change no row, chain or delivery. *)
LEMMA WatchTypes ==
    ASSUME ArrivalAgrees,
           \/ AddWatch \/ Scan \/ EndScan
           \/ \E n \in Names : SkipKnown(n)
           \/ \E c \in Clients : \E j \in Chains : FindRow(c, j)
    PROVE  TypeOK' /\ UNCHANGED <<transfers, chains, delivery, up>>
  <1> USE DEF TypeOK, Chains, delivery, watcher
  <1>0. TypeOK BY DEF ArrivalAgrees
  <1>1. CASE AddWatch BY <1>0, <1>1 DEF AddWatch, WatchStates
  <1>2. CASE Scan BY <1>0, <1>2 DEF Scan, WatchStates, Present
  <1>3. CASE EndScan BY <1>0, <1>3 DEF EndScan, WatchStates
  <1>4. ASSUME NEW n \in Names, SkipKnown(n)
        PROVE  TypeOK' /\ UNCHANGED <<transfers, chains, delivery, up>>
    BY <1>0, <1>4 DEF SkipKnown
  <1>5. ASSUME NEW c \in Clients, NEW j \in Chains, FindRow(c, j)
        PROVE  TypeOK' /\ UNCHANGED <<transfers, chains, delivery, up>>
    <2>1. chains[j].phase \in {"marked", "offered"}
      BY <1>5 DEF FindRow, ArrivalAgrees, AwaitingIsOffered
    <2>2. chains[j].ours BY <1>0, <2>1
    <2>3. j \in 0 .. Len(chains) BY <1>0, ArrivalTypes
    <2> QED BY <1>0, <1>5, <2>2, <2>3 DEF FindRow
  <1> QED BY <1>1, <1>2, <1>3, <1>4, <1>5

(* A report gives a package a row that is processing, and a chain. *)
LEMMA HandleAgrees ==
    ASSUME ArrivalAgrees, NEW n \in Names, NEW next \in WatchStates, up, Handle(n, next),
           events' \in Seq(Names), found' \in SUBSET Names, current' \in SUBSET Names,
           UNCHANGED <<method, at, delivery, known, client, up, restarts, early>>
    PROVE  ArrivalAgrees'
  <1> USE DEF Chains
  <1> DEFINE path == PathOf(n)
             t == IF Matching(path) = {} THEN Len(transfers) + 1
                  ELSE CHOOSE u \in Matching(path) : TRUE
             new == [transfer |-> t, about |-> at[n], phase |-> "scheduled",
                     directory |-> Elsewhere, row |-> "none", ours |-> TRUE]
  <1>0. TypeOK BY DEF ArrivalAgrees
  <1>1. path \in Locations /\ path # Elsewhere
    BY <1>0, ArrivalAssumption DEF PathOf, Locations, Elsewhere, ArrivalAssumption
  <1>2. CASE Cardinality(Matching(path)) > 1
    <2>1. watch' = "dead" /\ UNCHANGED <<transfers, chains>> BY <1>2 DEF Handle
    <2>2. TypeOK' BY <1>0, <2>1 DEF TypeOK, WatchStates, delivery
    <2> QED BY <2>1, <2>2, QuietAgrees
  <1>3. CASE ~ Cardinality(Matching(path)) > 1
    <2>1. watch' = next /\ chains' = Append(chains, new) BY <1>3 DEF Handle
    <2>2. /\ transfers' \in Seq(TransferRows) /\ Len(transfers') \in Nat
          /\ t \in 1 .. Len(transfers')
          /\ transfers'[t].status = "processing"
          /\ \A u \in 1 .. Len(transfers) :
                 /\ transfers'[u].location = transfers[u].location
                 /\ transfers'[u].status \in {transfers[u].status, "processing"}
          /\ Len(transfers') \in {Len(transfers), Len(transfers) + 1}
          /\ t \in 1 .. Len(transfers) => transfers[t].location # Elsewhere
      <3>1. CASE Matching(path) = {}
        <4>1. t = Len(transfers) + 1 BY <3>1
        <4>2. transfers' = Append(transfers, Transfer(path, "processing"))
          BY <1>3, <3>1 DEF Handle
        <4>3. Transfer(path, "processing") \in TransferRows
          BY <1>1 DEF Transfer, TransferRows, Statuses
        <4>4. Transfer(path, "processing").status = "processing" BY DEF Transfer
        <4> HIDE DEF t, path
        <4> QED BY <1>0, <4>1, <4>2, <4>3, <4>4, ArrivalTypes, AppendFacts
      <3>2. CASE Matching(path) # {}
        <4>1. t \in Matching(path) BY <3>2
        <4>2. t \in DOMAIN transfers /\ transfers[t].location = path
          BY <4>1 DEF Matching
        <4> DEFINE x == [transfers[t] EXCEPT !.status = "processing"]
        <4>3. transfers' = [transfers EXCEPT ![t] = x]
          BY <1>3, <3>2 DEF Handle, Processing
        <4>4. /\ x \in TransferRows /\ x.status = "processing"
              /\ x.location = transfers[t].location
          BY <1>0, <4>2, ArrivalTypes DEF TransferRows, Statuses
        <4> HIDE DEF x, t, path
        <4> QED BY <1>0, <1>1, <4>2, <4>3, <4>4, ArrivalTypes, ExceptFacts
      <3> QED BY <3>1, <3>2
    <2> HIDE DEF t
    <2>3. new \in ChainRecords(Len(transfers'))
      BY <1>0, <2>2 DEF ChainRecords, Phases, Rows, TypeOK, Elsewhere, Locations
    <2>4. chains \in Seq(ChainRecords(Len(transfers')))
      <3>1. ChainRecords(Len(transfers)) \subseteq ChainRecords(Len(transfers'))
        BY <1>0, <2>2, ArrivalTypes DEF ChainRecords
      <3> QED BY <1>0, <3>1, ArrivalTypes, SeqMonotonic
    <2>5. /\ new.transfer = t /\ new.phase = "scheduled" /\ new.row = "none"
          /\ new.ours = TRUE
      OBVIOUS
    <2> HIDE DEF new, path
    <2>6. /\ chains' \in Seq(ChainRecords(Len(transfers')))
          /\ Len(chains) \in Nat /\ Len(chains') = Len(chains) + 1
          /\ DOMAIN chains = 1 .. Len(chains) /\ DOMAIN chains' = 1 .. Len(chains) + 1
          /\ \A k \in 1 .. Len(chains) : chains'[k] = chains[k]
          /\ chains'[Len(chains) + 1] = new
      BY <2>1, <2>3, <2>4, AppendFacts
    <2>7. \A k \in 1 .. Len(chains) : chains[k].transfer \in 1 .. Len(transfers)
      BY <1>0, ArrivalTypes DEF ChainRecords
    <2>8. TypeOK'
      <3>1. own' \in [Packages -> 0 .. Len(transfers')]
        BY <1>0, <2>2, ArrivalTypes DEF TypeOK, delivery
      <3>2. client' \in [Clients -> 0 .. Len(chains')]
        BY <1>0, <2>6 DEF TypeOK
      <3>5. \A k \in DOMAIN chains' :
                chains'[k].phase \notin {"sent", "mv", "ended", "lost"} =>
                    chains'[k].ours
        <4>1. \A k \in DOMAIN chains :
                  chains[k].phase \notin {"sent", "mv", "ended", "lost"} =>
                      chains[k].ours
          BY <1>0 DEF TypeOK
        <4> QED BY <2>5, <2>6, <4>1
      <3>3. \A c \in Clients : client'[c] # 0 => up' /\ chains'[client'[c]].ours
        <4> TAKE c \in Clients
        <4> HAVE client'[c] # 0
        <4>1. client'[c] = client[c] /\ client[c] \in 1 .. Len(chains)
          BY <1>0, <2>6 DEF TypeOK
        <4>2. up /\ chains[client[c]].ours BY <1>0, <4>1 DEF TypeOK
        <4> QED BY <2>6, <4>1, <4>2
      <3>4. /\ transfers' \in Seq([location : Locations, status : Statuses])
            /\ chains' \in Seq([transfer : 1 .. Len(transfers'),
                                about : Packages \cup {NoPackage},
                                phase : Phases, directory : Locations, row : Rows,
                                ours : BOOLEAN])
        BY <2>2, <2>6 DEF TransferRows, ChainRecords
      <3> QED
        BY <1>0, <2>1, <3>1, <3>2, <3>3, <3>4, <3>5 DEF TypeOK, delivery
    <2>9. AwaitingIsOffered'
      BY <2>5, <2>6 DEF ArrivalAgrees, AwaitingIsOffered
    <2>10. DeliveriesAgree'
      <3>1. \A p \in Packages : own[p] \in 0 .. Len(transfers) BY <1>0 DEF TypeOK
      <3>2. \A p \in Packages : own[p] # 0 => own[p] \in 1 .. Len(transfers)
        BY <1>0, <3>1, ArrivalTypes
      <3>3. UNCHANGED <<own, progress, dest, up>> BY DEF delivery
      <3>4. ASSUME NEW p \in Packages, progress[p] \in {"copied", "chosen", "renamed"}
            PROVE  /\ up /\ own[p] # 0
                   /\ transfers'[own[p]].location = Elsewhere
                   /\ \A j \in DOMAIN chains' : chains'[j].transfer # own[p]
        <4>1. /\ up /\ own[p] # 0 /\ transfers[own[p]].location = Elsewhere
              /\ \A j \in DOMAIN chains : chains[j].transfer # own[p]
          BY <3>4 DEF ArrivalAgrees, DeliveriesAgree
        <4>2. t # own[p] BY <2>2, <3>2, <4>1
        <4>3. \A j \in DOMAIN chains' : chains'[j].transfer # own[p]
          BY <2>5, <2>6, <4>1, <4>2
        <4> QED BY <2>2, <3>2, <4>1, <4>3
      <3> QED BY <3>3, <3>4 DEF ArrivalAgrees, DeliveriesAgree
    <2>11. ProcessingAgrees'
      <3> SUFFICES ASSUME NEW k \in DOMAIN chains',
                          chains'[k].phase \in {"scheduled", "saved", "marked", "offered"}
                   PROVE  \/ transfers'[chains'[k].transfer].status = "processing"
                          \/ \E i \in DOMAIN chains' :
                                 /\ chains'[i].transfer = chains'[k].transfer
                                 /\ chains'[i].phase = "ended"
        BY DEF ProcessingAgrees
      <3>1. CASE k = Len(chains) + 1 BY <2>2, <2>5, <2>6, <3>1
      <3>2. CASE k \in 1 .. Len(chains)
        <4>1. \/ transfers[chains[k].transfer].status = "processing"
              \/ \E i \in DOMAIN chains : /\ chains[i].transfer = chains[k].transfer
                                         /\ chains[i].phase = "ended"
          BY <2>6, <3>2 DEF ArrivalAgrees, ProcessingAgrees
        <4> QED BY <2>2, <2>6, <2>7, <3>2, <4>1
      <3> QED BY <2>6, <3>1, <3>2
    <2> QED BY <2>8, <2>9, <2>10, <2>11 DEF ArrivalAgrees
  <1> QED BY <1>2, <1>3

(* Packages come in. *)
LEMMA DropAgrees ==
    ASSUME ArrivalAgrees, NEW p \in Packages, Drop(p)
    PROVE  ArrivalAgrees'
  <1>0. TypeOK BY DEF ArrivalAgrees
  <1>1. NamesOf[p][1] \in Names
    BY ArrivalAssumption, LenProperties, ElementOfSeq DEF ArrivalAssumption
  <1>2. TypeOK'
    BY <1>0, <1>1 DEF TypeOK, Drop, Appear, Chains, Progress
  <1>3. UNCHANGED <<transfers, chains, own, dest, up>>
    BY DEF Drop
  <1>4. \A q \in Packages : progress'[q] \in {"copied", "chosen", "renamed"} =>
            progress'[q] = progress[q]
    BY <1>0 DEF Drop, TypeOK
  <1>5. DeliveriesAgree' BY <1>3, <1>4 DEF ArrivalAgrees, DeliveriesAgree, Chains
  <1> QED
    BY <1>2, <1>3, <1>5 DEF ArrivalAgrees, AwaitingIsOffered, ProcessingAgrees, Chains

(* A submission begins with a row of its own. *)
LEMMA CreateRowAgrees ==
    ASSUME ArrivalAgrees, NEW p \in Packages, CreateRow(p)
    PROVE  ArrivalAgrees'
  <1> USE DEF Chains
  <1> DEFINE x == Transfer(Elsewhere, "unknown")
  <1>0. TypeOK BY DEF ArrivalAgrees
  <1>1. x \in TransferRows /\ x.location = Elsewhere
    BY DEF Transfer, TransferRows, Statuses, Locations, Elsewhere
  <1>2. transfers' = Append(transfers, x) BY DEF CreateRow
  <1> HIDE DEF x
  <1>3. /\ transfers' \in Seq(TransferRows) /\ Len(transfers) \in Nat
        /\ Len(transfers') = Len(transfers) + 1
        /\ \A t \in 1 .. Len(transfers) : transfers'[t] = transfers[t]
        /\ transfers'[Len(transfers) + 1].location = Elsewhere
    BY <1>0, <1>1, <1>2, ArrivalTypes, AppendFacts
  <1>4. /\ \A q \in Packages : own[q] \in 0 .. Len(transfers)
        /\ \A q \in Packages : own'[q] = IF q = p THEN Len(transfers) + 1 ELSE own[q]
        /\ own' \in [Packages -> 0 .. Len(transfers) + 1]
    BY <1>0, <1>3 DEF TypeOK, CreateRow
  <1>5. /\ UNCHANGED <<method, at, dest, chains, watcher, client, up, restarts, early>>
        /\ progress' = [progress EXCEPT ![p] = "copied"] /\ up
    BY DEF CreateRow
  <1>6. /\ \A k \in DOMAIN chains : chains[k].transfer \in 1 .. Len(transfers)
        /\ chains \in Seq(ChainRecords(Len(transfers')))
    <2>1. ChainRecords(Len(transfers)) \subseteq ChainRecords(Len(transfers'))
      BY <1>3 DEF ChainRecords
    <2> QED BY <1>0, <2>1, ArrivalTypes, SeqMonotonic DEF ChainRecords
  <1>7. TypeOK'
    <2>1. /\ transfers' \in Seq([location : Locations, status : Statuses])
          /\ chains' \in Seq([transfer : 1 .. Len(transfers'),
                              about : Packages \cup {NoPackage},
                              phase : Phases, directory : Locations, row : Rows,
                              ours : BOOLEAN])
      BY <1>3, <1>5, <1>6 DEF TransferRows, ChainRecords
    <2>2. own' \in [Packages -> 0 .. Len(transfers')] BY <1>3, <1>4
    <2>3. progress' \in [Packages -> Progress] BY <1>0, <1>5 DEF TypeOK, Progress
    <2> QED BY <1>0, <1>5, <2>1, <2>2, <2>3 DEF TypeOK, watcher
  <1>8. DeliveriesAgree'
    <2>1. \A q, r \in Packages : own'[q] = own'[r] /\ own'[q] # 0 => q = r
      BY <1>3, <1>4 DEF ArrivalAgrees, DeliveriesAgree
    <2>2. ASSUME NEW q \in Packages
          PROVE  /\ progress'[q] \in {"copied", "chosen", "renamed"} =>
                        /\ up' /\ own'[q] # 0
                        /\ transfers'[own'[q]].location = Elsewhere
                        /\ \A j \in DOMAIN chains' : chains'[j].transfer # own'[q]
                 /\ progress'[q] \in {"chosen", "renamed"} => dest'[q] \in Names
      <3>1. CASE q = p
        <4>1. own'[q] = Len(transfers) + 1 BY <1>4, <3>1
        <4>2. \A j \in DOMAIN chains' : chains'[j].transfer # own'[q]
          BY <1>3, <1>5, <1>6, <4>1
        <4>3. progress'[q] = "copied" BY <1>0, <1>5, <3>1 DEF TypeOK
        <4> QED BY <1>3, <1>5, <4>1, <4>2, <4>3
      <3>2. CASE q # p
        <4>1. progress'[q] = progress[q] /\ own'[q] = own[q] /\ dest'[q] = dest[q]
          BY <1>0, <1>4, <1>5, <3>2 DEF TypeOK
        <4> QED BY <1>3, <1>4, <1>5, <4>1 DEF ArrivalAgrees, DeliveriesAgree
      <3> QED BY <3>1, <3>2
    <2> QED BY <2>1, <2>2 DEF DeliveriesAgree
  <1>9. ProcessingAgrees'
    BY <1>3, <1>5, <1>6 DEF ArrivalAgrees, ProcessingAgrees
  <1> QED BY <1>5, <1>7, <1>8, <1>9 DEF ArrivalAgrees, AwaitingIsOffered

(* The free name is chosen, and the package renamed to it. *)
LEMMA RenameAgrees ==
    ASSUME ArrivalAgrees, NEW p \in Packages, ChooseName(p) \/ Rename(p)
    PROVE  ArrivalAgrees'
  <1>0. TypeOK BY DEF ArrivalAgrees
  <1>1. UNCHANGED <<method, transfers, chains, own, up, client, restarts>>
    BY DEF ChooseName, Rename, Appear
  <1>2. /\ TypeOK'
        /\ \A q \in Packages :
               /\ progress'[q] \in {"copied", "chosen", "renamed"} =>
                      progress[q] \in {"copied", "chosen", "renamed"}
               /\ progress'[q] \in {"chosen", "renamed"} => dest'[q] \in Names
    <2>1. CASE ChooseName(p)
      <3>1. PICK i \in DOMAIN NamesOf[p] : dest' = [dest EXCEPT ![p] = NamesOf[p][i]]
        BY <2>1 DEF ChooseName
      <3>2. NamesOf[p][i] \in Names
        BY <3>1, ArrivalAssumption, LenProperties, ElementOfSeq DEF ArrivalAssumption
      <3>3. UNCHANGED <<at, watcher, early>> /\ progress' = [progress EXCEPT ![p] = "chosen"]
            /\ progress[p] = "copied"
        BY <2>1 DEF ChooseName
      <3>4. TypeOK'
        BY <1>0, <1>1, <3>1, <3>2, <3>3 DEF TypeOK, Progress, Chains, watcher
      <3> QED
        BY <1>0, <3>1, <3>2, <3>3, <3>4 DEF TypeOK, ArrivalAgrees, DeliveriesAgree
    <2>2. CASE Rename(p)
      <3>1. dest[p] \in Names /\ progress[p] = "chosen"
        BY <2>2 DEF Rename, ArrivalAgrees, DeliveriesAgree
      <3>2. /\ at' \in [Names -> Packages \cup {NoPackage}]
            /\ events' \in Seq(Names) /\ early' \subseteq Packages
            /\ found' \subseteq Names
        <4>1. /\ at \in [Names -> Packages \cup {NoPackage}]
              /\ events \in Seq(Names) /\ early \subseteq Packages
              /\ found \subseteq Names
          BY <1>0 DEF TypeOK
        <4>2. Append(events, dest[p]) \in Seq(Names) BY <3>1, <4>1, AppendFacts
        <4>3. CASE UNCHANGED <<at, events, found, early>> BY <4>1, <4>3
        <4>4. CASE Appear(p, dest[p]) BY <3>1, <4>1, <4>2, <4>4 DEF Appear
        <4> QED BY <2>2, <4>3, <4>4 DEF Rename
      <3>3. /\ UNCHANGED <<dest, watch, known, current>>
            /\ \/ progress' = [progress EXCEPT ![p] = "lost"]
               \/ progress' = [progress EXCEPT ![p] = "renamed"]
        BY <2>2 DEF Rename
      <3>4. TypeOK' BY <1>0, <1>1, <3>2, <3>3 DEF TypeOK, Progress, Chains
      <3> QED
        BY <1>0, <3>1, <3>3, <3>4 DEF TypeOK, ArrivalAgrees, DeliveriesAgree
    <2> QED BY <2>1, <2>2
  <1>3. DeliveriesAgree' BY <1>1, <1>2 DEF ArrivalAgrees, DeliveriesAgree, Chains
  <1> QED
    BY <1>1, <1>2, <1>3 DEF ArrivalAgrees, AwaitingIsOffered, ProcessingAgrees, Chains

(* The row of a submitted package gets its location. *)
LEMMA SaveLocationAgrees ==
    ASSUME ArrivalAgrees, NEW p \in Packages, SaveLocation(p)
    PROVE  ArrivalAgrees'
  <1> USE DEF Chains
  <1> DEFINE x == Transfer([name |-> dest[p], slash |-> FALSE], "unknown")
  <1>0. TypeOK BY DEF ArrivalAgrees
  <1>1. /\ own[p] \in 1 .. Len(transfers) /\ own[p] \in DOMAIN transfers
        /\ \A j \in DOMAIN chains : chains[j].transfer # own[p]
        /\ dest[p] \in Names
    BY <1>0, ArrivalTypes
       DEF SaveLocation, ArrivalAgrees, DeliveriesAgree, TypeOK
  <1>2. x \in TransferRows BY <1>1 DEF Transfer, TransferRows, Statuses, Locations
  <1>3. transfers' = [transfers EXCEPT ![own[p]] = x] BY DEF SaveLocation
  <1> HIDE DEF x
  <1>4. /\ transfers' \in Seq(TransferRows) /\ Len(transfers) \in Nat
        /\ Len(transfers') = Len(transfers) /\ DOMAIN transfers = 1 .. Len(transfers)
        /\ \A t \in 1 .. Len(transfers) : t # own[p] => transfers'[t] = transfers[t]
    BY <1>0, <1>1, <1>2, <1>3, ArrivalTypes, ExceptFacts
  <1>5. /\ UNCHANGED <<method, at, dest, own, chains, watcher, client, up, restarts, early>>
        /\ progress' = [progress EXCEPT ![p] = "delivered"]
    BY DEF SaveLocation
  <1>6. TypeOK'
    <2>1. transfers' \in Seq([location : Locations, status : Statuses])
      BY <1>4 DEF TransferRows
    <2>2. progress' \in [Packages -> Progress] BY <1>0, <1>5 DEF TypeOK, Progress
    <2> QED BY <1>0, <1>4, <1>5, <2>1, <2>2 DEF TypeOK, watcher
  <1>7. DeliveriesAgree'
    <2>1. \A q \in Packages : own[q] # 0 => own[q] \in 1 .. Len(transfers)
      BY <1>0, <1>4 DEF TypeOK
    <2>2. \A q \in Packages : progress'[q] \in {"copied", "chosen", "renamed"} =>
              q # p /\ progress'[q] = progress[q]
      BY <1>0, <1>5 DEF TypeOK
    <2>3. \A q \in Packages : q # p /\ own[q] # 0 => own[q] # own[p]
      BY DEF ArrivalAgrees, DeliveriesAgree
    <2> QED
      BY <1>4, <1>5, <2>1, <2>2, <2>3 DEF ArrivalAgrees, DeliveriesAgree
  <1>8. ProcessingAgrees'
    <2>1. \A k \in DOMAIN chains : chains[k].transfer \in 1 .. Len(transfers)
      BY <1>0, ArrivalTypes DEF ChainRecords
    <2> QED BY <1>1, <1>4, <1>5, <2>1 DEF ArrivalAgrees, ProcessingAgrees
  <1> QED BY <1>5, <1>6, <1>7, <1>8 DEF ArrivalAgrees, AwaitingIsOffered

(* A crash leaves only chains that a script may still serve. *)
LEMMA CrashAgrees ==
    ASSUME ArrivalAgrees, Crash
    PROVE  ArrivalAgrees'
  <1> USE DEF Chains
  <1>0. TypeOK BY DEF ArrivalAgrees
  <1>1. PICK kept \in BOOLEAN : chains' = [j \in DOMAIN chains |-> Orphan(chains[j], kept)]
    BY DEF Crash
  <1>2. \A j \in DOMAIN chains :
            /\ Orphan(chains[j], kept) \in ChainRecords(Len(transfers))
            /\ ~ Orphan(chains[j], kept).ours
            /\ Orphan(chains[j], kept).transfer = chains[j].transfer
            /\ Orphan(chains[j], kept).phase \in {"sent", "mv", "ended", "lost"}
    <2> TAKE j \in DOMAIN chains
    <2>1. chains[j] \in ChainRecords(Len(transfers)) BY <1>0, ArrivalTypes
    <2> QED BY <2>1 DEF Orphan, ChainRecords, Phases
  <1>3. /\ Len(chains) \in Nat /\ DOMAIN chains = 1 .. Len(chains)
        /\ chains' \in [1 .. Len(chains) -> ChainRecords(Len(transfers))]
    BY <1>0, <1>1, <1>2, ArrivalTypes
  <1>4. /\ chains' \in Seq(ChainRecords(Len(transfers)))
        /\ DOMAIN chains' = 1 .. Len(chains) /\ Len(chains') = Len(chains)
    <2>1. chains' \in Seq(ChainRecords(Len(transfers))) BY <1>3, SeqDef
    <2> QED BY <1>3, <2>1, LenProperties
  <1>5. \A j \in DOMAIN chains' :
            ~ chains'[j].ours /\ chains'[j].phase \in {"sent", "mv", "ended", "lost"}
    BY <1>1, <1>2, <1>3
  <1>6. /\ UNCHANGED <<method, at, dest, own, transfers>> /\ ~ up' /\ watch' = "start"
        /\ restarts < MaxRestarts /\ restarts' = restarts + 1
        /\ events' = <<>> /\ found' = {} /\ known' = {} /\ current' = {} /\ early' = {}
        /\ client' = [c \in Clients |-> 0] /\ up' \in BOOLEAN
    BY DEF Crash
  <1>7. /\ progress' \in [Packages -> Progress]
        /\ \A p \in Packages : progress'[p] \notin {"copied", "chosen", "renamed"}
    BY <1>0 DEF Crash, TypeOK, Progress
  <1>8. TypeOK'
    <2>1. chains' \in Seq([transfer : 1 .. Len(transfers'),
                           about : Packages \cup {NoPackage},
                           phase : Phases, directory : Locations, row : Rows,
                           ours : BOOLEAN])
      BY <1>4, <1>6 DEF ChainRecords
    <2>2. client' \in [Clients -> 0 .. Len(chains')] BY <1>3, <1>4, <1>6
    <2>3. restarts' \in 0 .. MaxRestarts
      BY <1>0, <1>6, ArrivalAssumption DEF TypeOK, ArrivalAssumption
    <2> QED
      BY <1>0, <1>5, <1>6, <1>7, <2>1, <2>2, <2>3 DEF TypeOK, WatchStates
  <1> QED
    BY <1>5, <1>6, <1>7, <1>8
       DEF ArrivalAgrees, AwaitingIsOffered, DeliveriesAgree, ProcessingAgrees

(* The clean-ups of the next start leave no row that awaits a decision. *)
LEMMA CleanUpAgrees ==
    ASSUME ArrivalAgrees, CleanUp
    PROVE  ArrivalAgrees'
  <1> USE DEF Chains
  <1>0. TypeOK BY DEF ArrivalAgrees
  <1> DEFINE cleaned(j) == [chains[j] EXCEPT !.row = CleanRow(@)]
             kept(t) == [transfers[t] EXCEPT !.status = CleanStatus(@)]
  <1>1. /\ chains' = [j \in DOMAIN chains |-> cleaned(j)]
        /\ transfers' = [t \in DOMAIN transfers |-> kept(t)]
        /\ UNCHANGED <<method, at, delivery, watcher, client, restarts, early>>
        /\ ~ up /\ up'
    BY DEF CleanUp
  <1>2. \A j \in DOMAIN chains :
            /\ ~ chains[j].ours
            /\ chains[j].phase \in {"sent", "mv", "ended", "lost"}
            /\ cleaned(j) \in ChainRecords(Len(transfers))
            /\ cleaned(j).transfer = chains[j].transfer
            /\ cleaned(j).ours = chains[j].ours
            /\ cleaned(j).phase = chains[j].phase
            /\ cleaned(j).row # "awaiting"
    <2> TAKE j \in DOMAIN chains
    <2>1. chains[j] \in ChainRecords(Len(transfers)) BY <1>0, ArrivalTypes
    <2>2. CleanRow(chains[j].row) \in Rows /\ CleanRow(chains[j].row) # "awaiting"
      BY <2>1 DEF CleanRow, ChainRecords, Rows
    <2>3. ~ chains[j].ours BY <1>1 DEF ArrivalAgrees
    <2> QED BY <1>0, <2>1, <2>2, <2>3 DEF TypeOK, ChainRecords
  <1>3. \A t \in DOMAIN transfers : kept(t) \in TransferRows
    <2> TAKE t \in DOMAIN transfers
    <2>1. transfers[t] \in TransferRows BY <1>0, ArrivalTypes
    <2> QED BY <2>1 DEF CleanStatus, TransferRows, Statuses
  <1> HIDE DEF cleaned, kept
  <1>4. /\ Len(chains) \in Nat /\ DOMAIN chains = 1 .. Len(chains)
        /\ Len(transfers) \in Nat /\ DOMAIN transfers = 1 .. Len(transfers)
        /\ chains' \in [1 .. Len(chains) -> ChainRecords(Len(transfers))]
        /\ transfers' \in [1 .. Len(transfers) -> TransferRows]
    BY <1>0, <1>1, <1>2, <1>3, ArrivalTypes
  <1>5. /\ chains' \in Seq(ChainRecords(Len(transfers)))
        /\ DOMAIN chains' = 1 .. Len(chains) /\ Len(chains') = Len(chains)
        /\ transfers' \in Seq(TransferRows)
        /\ DOMAIN transfers' = 1 .. Len(transfers) /\ Len(transfers') = Len(transfers)
    <2>1. /\ chains' \in Seq(ChainRecords(Len(transfers)))
          /\ transfers' \in Seq(TransferRows)
      BY <1>4, SeqDef
    <2> QED BY <1>4, <2>1, LenProperties
  <1>6. \A j \in DOMAIN chains' :
            /\ ~ chains'[j].ours /\ chains'[j].row # "awaiting"
            /\ chains'[j].phase \in {"sent", "mv", "ended", "lost"}
    BY <1>1, <1>2, <1>4, <1>5
  <1>7. TypeOK'
    <2>1. /\ transfers' \in Seq([location : Locations, status : Statuses])
          /\ chains' \in Seq([transfer : 1 .. Len(transfers'),
                              about : Packages \cup {NoPackage},
                              phase : Phases, directory : Locations, row : Rows,
                              ours : BOOLEAN])
      BY <1>5 DEF TransferRows, ChainRecords
    <2>2. \A c \in Clients : client[c] = 0 BY <1>0, <1>1 DEF TypeOK
    <2> QED
      BY <1>0, <1>1, <1>5, <1>6, <2>1, <2>2 DEF TypeOK, delivery, watcher
  <1>8. DeliveriesAgree'
    <2>1. \A p \in Packages : progress[p] \notin {"copied", "chosen", "renamed"}
      BY <1>1 DEF ArrivalAgrees, DeliveriesAgree
    <2> QED BY <1>1, <2>1 DEF ArrivalAgrees, DeliveriesAgree, delivery
  <1> QED
    BY <1>1, <1>6, <1>7, <1>8 DEF ArrivalAgrees, AwaitingIsOffered, ProcessingAgrees

(* Nothing has come in yet. *)
LEMMA InitArrival == ASSUME Init PROVE ArrivalAgrees
  <1>1. /\ transfers \in Seq([location : Locations, status : Statuses])
        /\ chains \in Seq([transfer : 1 .. Len(transfers),
                           about : Packages \cup {NoPackage},
                           phase : Phases, directory : Locations, row : Rows,
                           ours : BOOLEAN])
        /\ events \in Seq(Names) /\ Len(transfers) = 0 /\ Len(chains) = 0
        /\ DOMAIN chains = {}
    BY EmptySeq DEF Init
  <1>2. /\ method \in Methods /\ at = [n \in Names |-> NoPackage]
        /\ progress = [p \in Packages |-> "away"] /\ dest = [p \in Packages |-> NoName]
        /\ own = [p \in Packages |-> 0] /\ watch = "start"
        /\ found = {} /\ known = {} /\ current = {} /\ early = {}
        /\ client = [c \in Clients |-> 0] /\ up = TRUE /\ restarts = 0
    BY DEF Init
  <1>3. TypeOK
    BY <1>1, <1>2, ArrivalAssumption
       DEF TypeOK, Chains, Progress, WatchStates, ArrivalAssumption
  <1> QED
    BY <1>1, <1>2, <1>3
       DEF ArrivalAgrees, AwaitingIsOffered, DeliveriesAgree, ProcessingAgrees, Chains

(* Every step preserves the inductive invariant. *)
LEMMA StepArrival == ASSUME ArrivalAgrees, [Next]_vars PROVE ArrivalAgrees'
  <1>1. ASSUME NEW p \in Packages, Drop(p) \/ CreateRow(p) \/ Deliver(p)
        PROVE  ArrivalAgrees'
    BY <1>1, DropAgrees, CreateRowAgrees, RenameAgrees, SaveLocationAgrees DEF Deliver
  <1>2. CASE WatchStep
    <2>0. TypeOK BY DEF ArrivalAgrees
    <2>1. CASE AddWatch \/ Scan \/ EndScan \/ \E n \in Names : SkipKnown(n)
      BY <2>1, WatchTypes, QuietAgrees
    <2>2. CASE ReportEvent
      <3>1. /\ Head(events) \in Names /\ Tail(events) \in Seq(Names)
            /\ events' = Tail(events) /\ Handle(Head(events), "loop") /\ up
            /\ found' = found /\ current' = current
            /\ UNCHANGED <<method, at, delivery, known, client, up, restarts, early>>
        BY <2>0, <2>2, HeadTailProperties DEF ReportEvent, TypeOK
      <3>2. found \subseteq Names /\ current \subseteq Names BY <2>0 DEF TypeOK
      <3> QED BY <3>1, <3>2, HandleAgrees DEF WatchStates
    <2>3. ASSUME NEW n \in Names, ReportFound(n) PROVE ArrivalAgrees'
      <3>1. /\ events' = events /\ Handle(n, "scan") /\ up
            /\ found' = found \ {n} /\ current' = current \cup {n}
            /\ UNCHANGED <<method, at, delivery, known, client, up, restarts, early>>
        BY <2>3 DEF ReportFound
      <3>2. found \subseteq Names /\ current \subseteq Names /\ events \in Seq(Names)
        BY <2>0 DEF TypeOK
      <3> QED BY <3>1, <3>2, HandleAgrees DEF WatchStates
    <2> QED BY <1>2, <2>1, <2>2, <2>3 DEF WatchStep
  <1>3. ASSUME NEW j \in Chains, ChainStep(j) \/ Preconfigured(j) PROVE ArrivalAgrees'
    BY <1>3, ChainSteps DEF ChainStep
  <1>4. ASSUME NEW c \in Clients, Decide(c) PROVE ArrivalAgrees'
    BY <1>4, DecideAgrees
  <1>5. ASSUME NEW c \in Clients, NEW j \in Chains, FindRow(c, j) PROVE ArrivalAgrees'
    BY <1>5, WatchTypes, QuietAgrees
  <1>6. CASE UNCHANGED vars
    <2>1. UNCHANGED <<transfers, chains, delivery, up>> BY <1>6 DEF vars
    <2>2. TypeOK'
      BY <1>6 DEF ArrivalAgrees, TypeOK, vars, delivery, watcher, Chains
    <2> QED BY <2>1, <2>2, QuietAgrees
  <1> QED
    BY <1>1, <1>2, <1>3, <1>4, <1>5, <1>6, CrashAgrees, CleanUpAgrees DEF Next

(* Rows, chains, deliveries and clients agree in every reachable state. *)
THEOREM AlwaysArrivalAgrees == Spec => []ArrivalAgrees
  <1>1. Init => ArrivalAgrees BY InitArrival
  <1>2. ArrivalAgrees /\ [Next]_vars => ArrivalAgrees' BY StepArrival
  <1> QED BY <1>1, <1>2, PTL DEF Spec

(* Every variable has its type, and a job in memory is of the present life. *)
THEOREM ArrivalTypeCorrect == Spec => []TypeOK
  <1>1. ArrivalAgrees => TypeOK BY DEF ArrivalAgrees
  <1> QED BY <1>1, AlwaysArrivalAgrees, PTL

(* The rows that await a decision are those of the jobs that can be decided,  *)
(* whatever clients do meanwhile and whenever MCPServer is restarted.         *)
THEOREM AlwaysAwaitingIsOffered == Spec => []AwaitingIsOffered
  <1>1. ArrivalAgrees => AwaitingIsOffered BY DEF ArrivalAgrees
  <1> QED BY <1>1, AlwaysArrivalAgrees, PTL

(* A transfer that waits for a decision is processing, or another chain of it *)
(* has ended.                                                                 *)
THEOREM AlwaysOfferedIsProcessing == Spec => []OfferedIsProcessing
  <1>1. ArrivalAgrees => OfferedIsProcessing
    BY DEF ArrivalAgrees, ProcessingAgrees, OfferedIsProcessing
  <1> QED BY <1>1, AlwaysArrivalAgrees, PTL

-----------------------------------------------------------------------------
(* What is reported, and for which row                                     *)

(* The names a package can come under are names. *)
LEMMA NamesFacts ==
    \A p \in Packages : NamesFor(p) \subseteq Names /\ NoName \notin NamesFor(p)
  BY ArrivalAssumption, ElementOfSeq DEF ArrivalAssumption, NamesFor

(* A name that the thread has come across, or that is in use, is not one of a *)
(* package that has not come.                                                 *)
LEMMA SeenHasCome ==
    ASSUME EntriesAgree, NamesApart, NEW p \in Packages, NotYet(p),
           at \in [Names -> Packages \cup {NoPackage}]
    PROVE  NamesFor(p) \cap (Seen \cup Present) = {}
  <1> SUFFICES ASSUME NEW n \in NamesFor(p) PROVE n \notin Seen \cup Present
    OBVIOUS
  <1>1. n \notin Seen BY DEF EntriesAgree
  <1>2. ASSUME n \in Present PROVE FALSE
    <2>1. n \in Names /\ at[n] # NoPackage /\ at[n] \in Packages
      BY <1>2 DEF Present
    <2>2. n \in NamesFor(at[n]) BY <2>1 DEF EntriesAgree
    <2>3. at[n] = p BY <2>1, <2>2 DEF NamesApart
    <2> QED BY <2>1, <2>3 DEF EntriesAgree
  <1> QED BY <1>1, <1>2

(* A step in which nothing comes in leaves the entries in agreement, if what  *)
(* the thread, the rows and the chains learn was there already.               *)
LEMMA EntriesFrame ==
    ASSUME EntriesAgree, NamesApart, at \in [Names -> Packages \cup {NoPackage}],
           \A n \in Names : at'[n] \in {at[n], NoPackage},
           \A p \in Packages : NotYet(p)' => NotYet(p),
           \A p \in Packages : progress'[p] \in {"chosen", "renamed"} =>
               dest'[p] \in NamesFor(p),
           Seen' \subseteq Seen \cup Present,
           \A t \in DOMAIN transfers' :
               \/ t \in DOMAIN transfers /\ transfers'[t].location = transfers[t].location
               \/ transfers'[t].location.name \in Seen \cup Present \cup {NoName}
               \/ \E q \in Packages :
                      ~ NotYet(q) /\ transfers'[t].location.name \in NamesFor(q),
           \A j \in DOMAIN chains' :
               \/ j \in Chains /\ chains'[j].about = chains[j].about
               \/ \E n \in Names : chains'[j].about = at[n]
    PROVE  EntriesAgree'
  <1>1. NoPackage \notin Packages BY ArrivalAssumption DEF ArrivalAssumption
  <1>2. \A n \in Names : at'[n] # NoPackage => at'[n] = at[n] OBVIOUS
  <1>3. /\ \A n \in Names : at'[n] # NoPackage => n \in NamesFor(at'[n])
        /\ \A m, n \in Names : at'[m] = at'[n] /\ at'[n] # NoPackage => m = n
    BY <1>2 DEF EntriesAgree
  <1>4. ASSUME NEW p \in Packages, NotYet(p)'
        PROVE  /\ \A n \in Names : at'[n] # p
               /\ NamesFor(p) \cap Seen' = {}
               /\ \A t \in DOMAIN transfers' :
                      transfers'[t].location.name \notin NamesFor(p)
               /\ \A j \in DOMAIN chains' : chains'[j].about # p
    <2>1. NotYet(p) BY <1>4
    <2>2. NamesFor(p) \cap (Seen \cup Present) = {} BY <2>1, SeenHasCome
    <2>3. \A n \in Names : at[n] # p BY <2>1 DEF EntriesAgree
    <2>4. \A n \in Names : at'[n] # p BY <1>1, <2>3
    <2>5. \A t \in DOMAIN transfers' :
              transfers'[t].location.name \notin NamesFor(p)
      <3> TAKE t \in DOMAIN transfers'
      <3>1. CASE t \in DOMAIN transfers /\ transfers'[t].location = transfers[t].location
        BY <2>1, <3>1 DEF EntriesAgree
      <3>2. CASE transfers'[t].location.name \in Seen \cup Present \cup {NoName}
        BY <2>2, <3>2, NamesFacts
      <3>3. ASSUME NEW q \in Packages, ~ NotYet(q),
                   transfers'[t].location.name \in NamesFor(q)
            PROVE  transfers'[t].location.name \notin NamesFor(p)
        BY <2>1, <3>3 DEF NamesApart
      <3> QED BY <3>1, <3>2, <3>3
    <2>6. \A j \in DOMAIN chains' : chains'[j].about # p
      BY <2>1, <2>3 DEF EntriesAgree
    <2> QED BY <2>2, <2>4, <2>5, <2>6
  <1> QED BY <1>3, <1>4 DEF EntriesAgree, Chains, NamesFor

(* The chains of a package are finitely many. *)
LEMMA MineFinite ==
    ASSUME TypeOK, NEW p
    PROVE  /\ Mine(p) \subseteq 1 .. Len(chains) /\ IsFiniteSet(Mine(p))
           /\ Cardinality(Mine(p)) \in Nat
  <1>1. Mine(p) \subseteq 1 .. Len(chains) BY ArrivalTypes DEF Mine
  <1>2. IsFiniteSet(1 .. Len(chains)) BY ArrivalTypes, FS_Interval
  <1> QED BY <1>1, <1>2, FS_Subset, FS_CardinalityType

(* A step that gives no package a chain and makes no report due leaves what   *)
(* is reported in agreement.                                                  *)
LEMMA ReportsFrame ==
    ASSUME TypeOK, ReportsAgree, early \subseteq early',
           method' = "poll" => events' = <<>>,
           method' = "inotify" => known' = {},
           \A i, k \in DOMAIN events' : events'[i] = events'[k] => i = k,
           \A p \in Packages :
               /\ Mine(p)' \subseteq Mine(p)
               /\ Evented(p)' => Evented(p)
               /\ ToScan(p)' => ToScan(p)
    PROVE  ReportsAgree'
  <1>1. ASSUME NEW p \in Packages
        PROVE  Cardinality(Mine(p)') + Owed(Evented(p)') + Owed(ToScan(p)')
                   <= IF p \in early' THEN 2 ELSE 1
    <2> DEFINE now == Cardinality(Mine(p))
               then == Cardinality(Mine(p)')
    <2>1. now \in Nat /\ then \in Nat /\ then <= now
      BY MineFinite, FS_Subset, FS_CardinalityType
    <2>2. now + Owed(Evented(p)) + Owed(ToScan(p)) <= IF p \in early THEN 2 ELSE 1
      BY DEF ReportsAgree
    <2>3. /\ Owed(Evented(p)) \in {0, 1} /\ Owed(ToScan(p)) \in {0, 1}
          /\ Owed(Evented(p)') \in {0, 1} /\ Owed(ToScan(p)') \in {0, 1}
          /\ Owed(Evented(p)') <= Owed(Evented(p)) /\ Owed(ToScan(p)') <= Owed(ToScan(p))
      BY DEF Owed
    <2> HIDE DEF now, then
    <2>4. then + Owed(Evented(p)') + Owed(ToScan(p)') <= IF p \in early' THEN 2 ELSE 1
      BY <2>1, <2>2, <2>3
    <2> QED BY <2>4 DEF then
  <1> QED BY <1>1 DEF ReportsAgree, Owed

(* A step in which nothing comes in or is reported leaves the locations in    *)
(* agreement if a row loses its location only when nothing is left there,     *)
(* and gets one only if no chain has it and no user's package lies there.     *)
LEMMA LocationsFrame ==
    ASSUME TypeOK, LocationsAgree,
           \A n \in Names : at'[n] \in {at[n], NoPackage},
           DOMAIN chains' = Chains,
           \A j \in Chains : /\ chains'[j].about = chains[j].about
                             /\ chains'[j].transfer = chains[j].transfer,
           \A j \in Chains : chains'[j].phase = "sent" =>
               \/ chains[j].phase = "sent" /\ chains'[j].directory = chains[j].directory
               \/ chains'[j].directory = LocationOf(j),
           \A j \in Chains : chains'[j].phase = "mv" =>
               chains[j].phase = "mv" \/ LocationOf(j).name \notin Present',
           DOMAIN transfers \subseteq DOMAIN transfers',
           \A t \in DOMAIN transfers' :
               \/ t \in DOMAIN transfers /\ transfers'[t].location = transfers[t].location
               \/ /\ transfers'[t].location = Elsewhere
                  /\ t \in DOMAIN transfers => transfers[t].location.name \notin Present
               \/ /\ \A j \in Chains : chains[j].transfer # t
                  /\ \A n \in Names : at[n] \in Packages \ Submitted =>
                         transfers'[t].location.name # n
    PROVE  LocationsAgree'
  <1>0. NoPackage \notin Packages /\ NoName \notin Names
    BY ArrivalAssumption DEF ArrivalAssumption
  <1>1. \A n \in Names : at'[n] # NoPackage => at'[n] = at[n] OBVIOUS
  <1>2. Present' \subseteq Present BY <1>1 DEF Present
  <1>3. Elsewhere.name = NoName BY DEF Elsewhere
  <1>4. \A j \in Chains : chains[j].transfer \in DOMAIN transfers
    BY ArrivalTypes DEF ChainRecords
  <1>5. \A j \in Chains :
            \/ LocationOf(j)' = LocationOf(j)
            \/ LocationOf(j)' = Elsewhere /\ LocationOf(j).name \notin Present
    <2> TAKE j \in Chains
    <2>1. chains[j].transfer \in DOMAIN transfers' /\ chains[j].transfer \in DOMAIN transfers
      BY <1>4
    <2>2. chains'[j].transfer = chains[j].transfer OBVIOUS
    <2> QED BY <2>1, <2>2 DEF LocationOf
  <1>6. \A j \in Chains : chains'[j].phase = "sent" =>
            LocationOf(j)'.name \in {chains'[j].directory.name, NoName}
    BY <1>3, <1>5 DEF LocationsAgree
  <1>7. \A j \in Chains : chains'[j].phase = "mv" => LocationOf(j)'.name \notin Present'
    <2>1. NoName \notin Present' BY <1>0 DEF Present
    <2> QED BY <1>2, <1>3, <1>5, <2>1 DEF LocationsAgree
  <1>8. ASSUME NEW n \in Names, at'[n] \in Packages \ Submitted
        PROVE  /\ \A j \in Chains : chains'[j].about = at'[n] => LocationOf(j)' = PathOf(n)'
               /\ \A t, u \in Matching(PathOf(n))' : t = u
    <2>1. at'[n] = at[n] /\ at[n] # NoPackage BY <1>0, <1>1, <1>8
    <2>2. /\ n \in Present /\ n \in Present' /\ PathOf(n)' = PathOf(n)
          /\ PathOf(n).name = n
      BY <2>1 DEF Present, PathOf
    <2>3. ASSUME NEW j \in Chains, chains'[j].about = at'[n]
          PROVE  LocationOf(j)' = PathOf(n)'
      <3>1. LocationOf(j) = PathOf(n) BY <1>8, <2>1, <2>3 DEF LocationsAgree
      <3> QED BY <1>5, <2>2, <3>1
    <2>4. Matching(PathOf(n))' \subseteq Matching(PathOf(n))
      <3> SUFFICES ASSUME NEW t \in DOMAIN transfers',
                          transfers'[t].location = PathOf(n)
                   PROVE  t \in DOMAIN transfers /\ transfers[t].location = PathOf(n)
        BY <2>2 DEF Matching
      <3>1. transfers'[t].location.name = n BY <2>2
      <3>2. n # NoName BY <1>0
      <3> QED BY <1>3, <1>8, <2>1, <3>1, <3>2
    <2> QED BY <1>8, <2>1, <2>3, <2>4 DEF LocationsAgree
  <1>9. OneTransferPerPackage' BY DEF LocationsAgree, OneTransferPerPackage, Chains
  <1>10. Chains' = Chains BY DEF Chains
  <1> HIDE DEF Chains
  <1> QED BY <1>6, <1>7, <1>8, <1>9, <1>10 DEF LocationsAgree

(* A step of a chain, and a decision: a chain keeps its package and its row, *)
(* learns the directory when its script is sent, and the row loses its       *)
(* location after the move.                                                  *)
LEMMA ChainMoves ==
    ASSUME TypeOK,
           \/ \E j \in Chains : ChainStep(j) \/ Preconfigured(j)
           \/ \E c \in Clients : Decide(c)
    PROVE  /\ UNCHANGED <<method, delivery, watcher, early>>
           /\ \A n \in Names : at'[n] \in {at[n], NoPackage}
           /\ DOMAIN chains' = Chains
           /\ \A k \in Chains : /\ chains'[k].about = chains[k].about
                                /\ chains'[k].transfer = chains[k].transfer
                                /\ chains'[k].ours = chains[k].ours
           /\ \A k \in Chains : chains'[k].phase = "sent" =>
                  \/ chains[k].phase = "sent" /\ chains'[k].directory = chains[k].directory
                  \/ chains'[k].directory = LocationOf(k)
           /\ \A k \in Chains : chains'[k].phase = "mv" =>
                  \/ chains[k].phase = "mv"
                  \/ chains[k].phase = "sent" /\ chains[k].directory.name \notin Present'
           /\ DOMAIN transfers' = DOMAIN transfers
           /\ \A t \in DOMAIN transfers :
                  \/ transfers'[t].location = transfers[t].location
                  \/ /\ transfers'[t].location = Elsewhere
                     /\ \E k \in Chains : chains[k].phase = "mv" /\ chains[k].transfer = t
  <1>1. /\ \A k \in Chains : chains[k] \in ChainRecords(Len(transfers))
        /\ \A t \in DOMAIN transfers : transfers[t] \in TransferRows
        /\ at \in [Names -> Packages \cup {NoPackage}]
        /\ \A k \in Chains : chains[k].transfer \in DOMAIN transfers
    BY ArrivalTypes DEF TypeOK, ChainRecords
  <1>2. CASE \E j \in Chains : ChainStep(j) \/ Preconfigured(j)
    <2>1. PICK j \in Chains : ChainStep(j) \/ Preconfigured(j) BY <1>2
    <2>2. CASE SaveRow(j) \/ Preconfigured(j) \/ MarkAwaiting(j) \/ Offer(j)
      <3>1. UNCHANGED <<method, delivery, watcher, early, at, transfers>>
        BY <2>2 DEF SaveRow, Preconfigured, MarkAwaiting, Offer, OnlyChains
      <3>2. \E ph \in {"saved", "approved", "marked", "offered"} :
                chains'[j].phase = ph
        BY <1>1, <2>2
           DEF SaveRow, Preconfigured, MarkAwaiting, Offer, Step, StepRow, Chains,
               ChainRecords
      <3>3. /\ DOMAIN chains' = Chains
            /\ \A k \in Chains : k # j => chains'[k] = chains[k]
            /\ chains'[j].about = chains[j].about
            /\ chains'[j].transfer = chains[j].transfer /\ chains'[j].ours = chains[j].ours
        <4>1. CASE SaveRow(j) BY <1>1, <4>1 DEF SaveRow, Chains, ChainRecords
        <4>2. CASE Preconfigured(j)
          BY <1>1, <4>2 DEF Preconfigured, StepRow, Chains, ChainRecords
        <4>3. CASE MarkAwaiting(j)
          BY <1>1, <4>3 DEF MarkAwaiting, StepRow, Chains, ChainRecords
        <4>4. CASE Offer(j) BY <1>1, <4>4 DEF Offer, Step, Chains, ChainRecords
        <4> QED BY <2>2, <4>1, <4>2, <4>3, <4>4
      <3> QED BY <1>1, <3>1, <3>2, <3>3
    <2>3. CASE SendMove(j)
      BY <1>1, <2>3 DEF SendMove, OnlyChains, Chains, ChainRecords, LocationOf
    <2>4. CASE Move(j)
      <3>1. /\ at' = [n \in Names |-> IF n = chains[j].directory.name THEN NoPackage
                                      ELSE at[n]]
            /\ chains[j].phase = "sent"
            /\ chains' = [chains EXCEPT ![j].phase = "mv"]
            /\ UNCHANGED <<method, delivery, transfers, watcher, early>>
        BY <2>4 DEF Move, Step
      <3>2. chains[j].directory.name \notin Present' BY <3>1 DEF Present
      <3> QED BY <1>1, <3>1, <3>2 DEF Chains, ChainRecords
    <2>5. CASE Commit(j)
      <3>1. /\ chains[j].phase = "mv"
            /\ chains' = [chains EXCEPT ![j].phase =
                              IF chains[j].ours THEN "moved" ELSE "lost"]
            /\ transfers' = [transfers EXCEPT ![chains[j].transfer].location = Elsewhere]
            /\ UNCHANGED <<method, at, delivery, watcher, early>>
        BY <2>5 DEF Commit, Step
      <3>2. \A t \in DOMAIN transfers :
                \/ transfers'[t].location = transfers[t].location
                \/ transfers'[t].location = Elsewhere /\ t = chains[j].transfer
        BY <1>1, <3>1 DEF TransferRows
      <3> QED BY <1>1, <3>1, <3>2 DEF Chains, ChainRecords
    <2>6. CASE EndChain(j)
      <3>1. /\ chains[j].phase = "moved"
            /\ chains' = [chains EXCEPT ![j].phase = "ended"]
            /\ UNCHANGED <<method, at, delivery, watcher, early>>
        BY <2>6 DEF EndChain, Step
      <3>2. PICK s \in {"done", "failed"} :
                transfers' = [transfers EXCEPT ![chains[j].transfer].status = s]
        BY <2>6 DEF EndChain
      <3>3. /\ DOMAIN transfers' = DOMAIN transfers
            /\ \A t \in DOMAIN transfers : transfers'[t].location = transfers[t].location
        BY <1>1, <3>2 DEF TransferRows
      <3> QED BY <1>1, <3>1, <3>3 DEF Chains, ChainRecords
    <2> QED BY <2>1, <2>2, <2>3, <2>4, <2>5, <2>6 DEF ChainStep
  <1>3. ASSUME NEW c \in Clients, Decide(c)
        PROVE  /\ UNCHANGED <<method, delivery, watcher, early, at, transfers>>
               /\ \/ UNCHANGED chains
                  \/ chains' = [chains EXCEPT ![client[c]].phase = "approved",
                                              ![client[c]].row = "completed"]
    BY <1>3 DEF Decide, StepRow
  <1>4. CASE \E c \in Clients : Decide(c)
    <2>1. PICK c \in Clients : Decide(c) BY <1>4
    <2>2. client[c] \in Chains BY <2>1, ArrivalTypes DEF Decide, TypeOK
    <2>3. CASE UNCHANGED chains BY <1>1, <1>3, <2>1, <2>3 DEF Chains
    <2>4. CASE chains' = [chains EXCEPT ![client[c]].phase = "approved",
                                        ![client[c]].row = "completed"]
      BY <1>1, <1>3, <2>1, <2>2, <2>4 DEF Chains, ChainRecords
    <2> QED BY <1>3, <2>1, <2>3, <2>4
  <1> QED BY <1>2, <1>4

\* What is reported, and for which row, agree.
ReportsInv == EntriesAgree /\ ReportsAgree /\ LocationsAgree

(* What a report is due to shrinks with the watched directory. *)
LEMMA DueShrinks ==
    ASSUME NEW p \in Packages, UNCHANGED <<method, watcher>>,
           \A n \in Names : at'[n] \in {at[n], NoPackage}, events \in Seq(Names)
    PROVE  (Evented(p)' => Evented(p)) /\ (ToScan(p)' => ToScan(p))
  <1>1. NoPackage # p BY ArrivalAssumption DEF ArrivalAssumption
  <1>2. \A n \in Names : at'[n] = p => at[n] = p BY <1>1
  <1>3. \A i \in DOMAIN events : events[i] \in Names BY ElementOfSeq, LenProperties
  <1>4. Evented(p)' => Evented(p) BY <1>2, <1>3 DEF Evented, watcher
  <1>5. \A n \in Names : Scanned(n)' <=> Scanned(n) BY DEF Scanned, watcher
  <1>6. ToScan(p)' => ToScan(p) BY <1>2, <1>5 DEF ToScan
  <1> QED BY <1>4, <1>6

(* Steps of chains and decisions. *)
LEMMA ChainReports ==
    ASSUME ArrivalAgrees, NamesApart, ReportsInv,
           \/ \E j \in Chains : ChainStep(j) \/ Preconfigured(j)
           \/ \E c \in Clients : Decide(c)
    PROVE  ReportsInv'
  <1>0. TypeOK BY DEF ArrivalAgrees
  <1>1. /\ at \in [Names -> Packages \cup {NoPackage}] /\ events \in Seq(Names)
        /\ NoName \notin Names
    BY <1>0, ArrivalAssumption DEF TypeOK, ArrivalAssumption
  <1>2. /\ UNCHANGED <<method, delivery, watcher, early>>
        /\ UNCHANGED <<progress, dest, events, found, known, current>>
    BY <1>0, ChainMoves DEF delivery, watcher
  <1>3. EntriesAgree'
    <2>1. Seen' = Seen BY <1>2 DEF Seen
    <2>2. Elsewhere.name = NoName BY DEF Elsewhere
    <2>3. \A p \in Packages : NotYet(p)' <=> NotYet(p) BY <1>2 DEF NotYet
    <2>4. \A p \in Packages : progress'[p] \in {"chosen", "renamed"} =>
              dest'[p] \in NamesFor(p)
      BY <1>2 DEF ReportsInv, EntriesAgree
    <2>5. /\ \A n \in Names : at'[n] \in {at[n], NoPackage}
          /\ \A j \in DOMAIN chains' : j \in Chains /\ chains'[j].about = chains[j].about
          /\ \A t \in DOMAIN transfers' :
                 \/ t \in DOMAIN transfers /\ transfers'[t].location = transfers[t].location
                 \/ transfers'[t].location.name = NoName
      BY <1>0, <2>2, ChainMoves
    <2> QED BY <1>1, <2>1, <2>3, <2>4, <2>5, EntriesFrame DEF ReportsInv
  <1>4. ReportsAgree'
    <2>1. \A p : Mine(p)' = Mine(p)
      <3>1. DOMAIN chains' = Chains BY <1>0, ChainMoves
      <3>2. \A k \in Chains : chains'[k].about = chains[k].about
                           /\ chains'[k].ours = chains[k].ours
        BY <1>0, ChainMoves
      <3> QED BY <3>1, <3>2 DEF Mine, Chains
    <2>2. \A n \in Names : at'[n] \in {at[n], NoPackage} BY <1>0, ChainMoves
    <2>3. ASSUME NEW p \in Packages
          PROVE  (Evented(p)' => Evented(p)) /\ (ToScan(p)' => ToScan(p))
      BY <1>1, <1>2, <2>2, DueShrinks
    <2>4. /\ early \subseteq early' /\ (method' = "poll" => events' = <<>>)
          /\ (method' = "inotify" => known' = {})
          /\ \A i, k \in DOMAIN events' : events'[i] = events'[k] => i = k
      BY <1>2 DEF ReportsInv, ReportsAgree
    <2>5. \A p \in Packages : /\ Mine(p)' \subseteq Mine(p)
                              /\ Evented(p)' => Evented(p)
                              /\ ToScan(p)' => ToScan(p)
      BY <2>1, <2>3
    <2> QED BY <1>0, <2>4, <2>5, ReportsFrame DEF ReportsInv
  <1>5. LocationsAgree'
    <2>1. \A j \in Chains : chains'[j].phase = "mv" =>
              chains[j].phase = "mv" \/ LocationOf(j).name \notin Present'
      <3>1. NoName \notin Present' BY <1>1 DEF Present
      <3>2. \A k \in Chains : chains'[k].phase = "mv" =>
                \/ chains[k].phase = "mv"
                \/ chains[k].phase = "sent" /\ chains[k].directory.name \notin Present'
        BY <1>0, ChainMoves
      <3> QED BY <3>1, <3>2 DEF ReportsInv, LocationsAgree
    <2>2. \A t \in DOMAIN transfers' :
              \/ t \in DOMAIN transfers /\ transfers'[t].location = transfers[t].location
              \/ /\ transfers'[t].location = Elsewhere
                 /\ t \in DOMAIN transfers => transfers[t].location.name \notin Present
      <3>1. \A t \in DOMAIN transfers' :
                \/ t \in DOMAIN transfers /\ transfers'[t].location = transfers[t].location
                \/ /\ transfers'[t].location = Elsewhere
                   /\ \E k \in Chains : chains[k].phase = "mv" /\ chains[k].transfer = t
        BY <1>0, ChainMoves
      <3> QED BY <3>1 DEF ReportsInv, LocationsAgree, LocationOf
    <2>3. /\ \A n \in Names : at'[n] \in {at[n], NoPackage}
          /\ DOMAIN chains' = Chains /\ DOMAIN transfers' = DOMAIN transfers
          /\ \A k \in Chains : /\ chains'[k].about = chains[k].about
                               /\ chains'[k].transfer = chains[k].transfer
          /\ \A k \in Chains : chains'[k].phase = "sent" =>
                 \/ chains[k].phase = "sent" /\ chains'[k].directory = chains[k].directory
                 \/ chains'[k].directory = LocationOf(k)
      BY <1>0, ChainMoves
    <2> QED BY <1>0, <2>1, <2>2, <2>3, LocationsFrame DEF ReportsInv
  <1> QED BY <1>3, <1>4, <1>5 DEF ReportsInv

(* Steps in which nothing moves and nothing is reported: a row is created    *)
(* without a location, or gets that of a package that was submitted.         *)
LEMMA QuietReports ==
    ASSUME TypeOK, NamesApart, ReportsInv,
           UNCHANGED <<method, at, events, found, known, current, early>>,
           watch' = watch \/ (watch = "start" /\ watch' = "watching"),
           DOMAIN chains' = Chains,
           \A k \in Chains : /\ chains'[k].about = chains[k].about
                             /\ chains'[k].transfer = chains[k].transfer
                             /\ chains'[k].phase = chains[k].phase
                             /\ chains'[k].directory = chains[k].directory
                             /\ chains'[k].ours = chains[k].ours,
           \A p \in Packages : NotYet(p)' => NotYet(p),
           \A p \in Packages : progress'[p] \in {"chosen", "renamed"} =>
               dest'[p] \in NamesFor(p),
           DOMAIN transfers \subseteq DOMAIN transfers',
           \A t \in DOMAIN transfers' :
               \/ t \in DOMAIN transfers /\ transfers'[t].location = transfers[t].location
               \/ t \notin DOMAIN transfers /\ transfers'[t].location = Elsewhere
               \/ /\ \A j \in Chains : chains[j].transfer # t
                  /\ \E q \in Submitted :
                         ~ NotYet(q) /\ transfers'[t].location.name \in NamesFor(q)
    PROVE  ReportsInv'
  <1>0. /\ at \in [Names -> Packages \cup {NoPackage}] /\ events \in Seq(Names)
        /\ Submitted \subseteq Packages
    BY ArrivalAssumption DEF TypeOK, ArrivalAssumption
  <1>1. Seen' = Seen /\ Present' = Present BY DEF Seen, Present
  <1>2. Elsewhere.name = NoName BY DEF Elsewhere
  <1>3. EntriesAgree'
    <2>1. \A t \in DOMAIN transfers' :
              \/ t \in DOMAIN transfers /\ transfers'[t].location = transfers[t].location
              \/ transfers'[t].location.name \in Seen \cup Present \cup {NoName}
              \/ \E q \in Packages :
                     ~ NotYet(q) /\ transfers'[t].location.name \in NamesFor(q)
      BY <1>0, <1>2
    <2>2. \A j \in DOMAIN chains' : j \in Chains /\ chains'[j].about = chains[j].about
      OBVIOUS
    <2> QED BY <1>0, <1>1, <2>1, <2>2, EntriesFrame DEF ReportsInv
  <1>4. ReportsAgree'
    <2>1. \A n \in Names : Scanned(n)' => Scanned(n) BY DEF Scanned
    <2>2. \A p \in Packages : /\ Mine(p)' \subseteq Mine(p)
                              /\ Evented(p)' => Evented(p)
                              /\ ToScan(p)' => ToScan(p)
      <3> TAKE p \in Packages
      <3>1. Mine(p)' \subseteq Mine(p) BY DEF Mine, Chains
      <3>2. Evented(p)' => Evented(p) BY DEF Evented
      <3>3. ToScan(p)' => ToScan(p) BY <2>1 DEF ToScan
      <3> QED BY <3>1, <3>2, <3>3
    <2>3. /\ early \subseteq early' /\ (method' = "poll" => events' = <<>>)
          /\ (method' = "inotify" => known' = {})
          /\ \A i, k \in DOMAIN events' : events'[i] = events'[k] => i = k
      BY DEF ReportsInv, ReportsAgree
    <2> QED BY <2>2, <2>3, ReportsFrame DEF ReportsInv
  <1>5. LocationsAgree'
    <2>1. \A t \in DOMAIN transfers' :
              \/ t \in DOMAIN transfers /\ transfers'[t].location = transfers[t].location
              \/ /\ transfers'[t].location = Elsewhere
                 /\ t \in DOMAIN transfers => transfers[t].location.name \notin Present
              \/ /\ \A j \in Chains : chains[j].transfer # t
                 /\ \A n \in Names : at[n] \in Packages \ Submitted =>
                        transfers'[t].location.name # n
      <3> TAKE t \in DOMAIN transfers'
      <3>1. ASSUME NEW q \in Submitted, transfers'[t].location.name \in NamesFor(q)
            PROVE  \A n \in Names : at[n] \in Packages \ Submitted =>
                       transfers'[t].location.name # n
        <4> SUFFICES ASSUME NEW n \in Names, at[n] \in Packages \ Submitted,
                            transfers'[t].location.name = n
                     PROVE  FALSE
          OBVIOUS
        <4>1. n \in NamesFor(at[n])
          BY ArrivalAssumption DEF ReportsInv, EntriesAgree, ArrivalAssumption
        <4>2. at[n] = q BY <1>0, <3>1, <4>1 DEF NamesApart
        <4> QED BY <4>2
      <3> QED BY <3>1
    <2>2. \A j \in Chains : chains'[j].phase = "sent" =>
              \/ chains[j].phase = "sent" /\ chains'[j].directory = chains[j].directory
              \/ chains'[j].directory = LocationOf(j)
      OBVIOUS
    <2>3. \A j \in Chains : chains'[j].phase = "mv" =>
              chains[j].phase = "mv" \/ LocationOf(j).name \notin Present'
      OBVIOUS
    <2>4. \A n \in Names : at'[n] \in {at[n], NoPackage} OBVIOUS
    <2> QED BY <2>1, <2>2, <2>3, <2>4, LocationsFrame DEF ReportsInv
  <1> QED BY <1>3, <1>4, <1>5 DEF ReportsInv

(* Steps of a scan that report nothing. *)
LEMMA ScanReports ==
    ASSUME TypeOK, NamesApart, ReportsInv,
           UNCHANGED <<method, at, delivery, transfers, chains, events, early>>,
           Seen' \subseteq Seen \cup Present,
           method' = "inotify" => known' = {},
           \A n \in Present : Scanned(n)' => Scanned(n)
    PROVE  ReportsInv'
  <1>0. at \in [Names -> Packages \cup {NoPackage}] /\ NoPackage \notin Packages
    BY ArrivalAssumption DEF TypeOK, ArrivalAssumption
  <1>1. UNCHANGED <<progress, dest>> BY DEF delivery
  <1>2. EntriesAgree'
    <2>1. \A p \in Packages : NotYet(p)' <=> NotYet(p) BY <1>1 DEF NotYet
    <2>2. \A p \in Packages : progress'[p] \in {"chosen", "renamed"} =>
              dest'[p] \in NamesFor(p)
      BY <1>1 DEF ReportsInv, EntriesAgree
    <2>3. \A n \in Names : at'[n] \in {at[n], NoPackage} OBVIOUS
    <2>4. \A j \in DOMAIN chains' : j \in Chains /\ chains'[j].about = chains[j].about
      BY DEF Chains
    <2> QED BY <1>0, <2>1, <2>2, <2>3, <2>4, EntriesFrame DEF ReportsInv
  <1>3. ReportsAgree'
    <2>1. ASSUME NEW p \in Packages
          PROVE  /\ Mine(p)' \subseteq Mine(p)
                 /\ Evented(p)' => Evented(p)
                 /\ ToScan(p)' => ToScan(p)
      <3>1. Mine(p)' \subseteq Mine(p) BY DEF Mine, Chains
      <3>2. Evented(p)' => Evented(p) BY DEF Evented
      <3>3. ToScan(p)' => ToScan(p) BY <1>0 DEF ToScan, Present
      <3> QED BY <3>1, <3>2, <3>3
    <2>2. /\ early \subseteq early' /\ (method' = "poll" => events' = <<>>)
          /\ \A i, k \in DOMAIN events' : events'[i] = events'[k] => i = k
      BY DEF ReportsInv, ReportsAgree
    <2> QED BY <2>1, <2>2, ReportsFrame DEF ReportsInv
  <1>4. LocationsAgree'
    <2>1. DOMAIN chains' = Chains BY DEF Chains
    <2> QED BY <2>1, LocationsFrame DEF ReportsInv
  <1> QED BY <1>2, <1>3, <1>4 DEF ReportsInv

(* The watching thread begins to watch, scans and skips what it knows. *)
LEMMA WatchReports ==
    ASSUME ArrivalAgrees, NamesApart, ReportsInv,
           AddWatch \/ Scan \/ EndScan \/ \E n \in Names : SkipKnown(n)
    PROVE  ReportsInv'
  <1>0. TypeOK BY DEF ArrivalAgrees
  <1>1. method = "inotify" => known = {} BY DEF ReportsInv, ReportsAgree
  <1>2. CASE AddWatch
    <2>1. /\ UNCHANGED <<method, at, delivery, transfers, chains, events, early>>
          /\ UNCHANGED <<found, known, current>>
          /\ watch = "start"
      BY <1>2 DEF AddWatch
    <2>2. Seen' \subseteq Seen \cup Present BY <2>1 DEF Seen
    <2>3. \A n \in Present : Scanned(n)' => Scanned(n) BY <2>1 DEF Scanned
    <2> QED BY <1>0, <1>1, <2>1, <2>2, <2>3, ScanReports
  <1>3. CASE Scan
    <2>1. /\ UNCHANGED <<method, at, delivery, transfers, chains, events, known, early>>
          /\ found' = Present /\ current' = {} /\ watch' = "scan"
          /\ \/ method = "inotify" /\ watch = "watching"
             \/ method = "poll" /\ watch \in {"start", "loop"}
      BY <1>3 DEF Scan
    <2>2. Seen' \subseteq Seen \cup Present BY <2>1 DEF Seen
    <2>3. \A n \in Present : Scanned(n)' => Scanned(n) BY <2>1 DEF Scanned
    <2> QED BY <1>0, <1>1, <2>1, <2>2, <2>3, ScanReports
  <1>4. CASE EndScan
    <2>1. /\ UNCHANGED <<method, at, delivery, transfers, chains, events, early>>
          /\ UNCHANGED <<found, current>>
          /\ found = {} /\ watch = "scan" /\ watch' = "loop"
          /\ known' = IF method = "poll" THEN current ELSE known
      BY <1>4 DEF EndScan
    <2>2. Seen' \subseteq Seen \cup Present BY <2>1 DEF Seen
    <2>3. \A n \in Present : Scanned(n)' => Scanned(n) BY <2>1 DEF Scanned
    <2>4. method' = "inotify" => known' = {} BY <1>1, <2>1
    <2> QED BY <1>0, <2>1, <2>2, <2>3, <2>4, ScanReports
  <1>5. ASSUME NEW n \in Names, SkipKnown(n) PROVE ReportsInv'
    <2>1. /\ UNCHANGED <<method, at, delivery, transfers, chains, events, early>>
          /\ UNCHANGED <<known, watch>>
          /\ watch = "scan" /\ n \in found \cap known
          /\ found' = found \ {n} /\ current' = current \cup {n}
      BY <1>5 DEF SkipKnown
    <2>2. Seen' \subseteq Seen \cup Present BY <2>1 DEF Seen
    <2>3. \A m \in Present : Scanned(m)' => Scanned(m) BY <2>1 DEF Scanned
    <2>4. method' = "inotify" => known' = {} BY <1>1, <2>1
    <2> QED BY <1>0, <2>1, <2>2, <2>3, <2>4, ScanReports
  <1> QED BY <1>2, <1>3, <1>4, <1>5

(* Steps of a submission before and after its package comes in. *)
LEMMA SubmissionReports ==
    ASSUME ArrivalAgrees, NamesApart, ReportsInv, OnlySubmitted, NEW p \in Packages,
           \/ CreateRow(p) \/ ChooseName(p) \/ SaveLocation(p)
           \/ Rename(p) /\ dest[p] \in Present /\ IsDir
    PROVE  ReportsInv'
  <1>0. /\ TypeOK /\ progress \in [Packages -> Progress]
        /\ dest \in [Packages -> Names \cup {NoName}]
        /\ Len(transfers) \in Nat /\ DOMAIN transfers = 1 .. Len(transfers)
        /\ transfers \in Seq(TransferRows)
    BY ArrivalTypes DEF ArrivalAgrees, TypeOK
  <1>1. \A q \in Packages : progress[q] \in {"chosen", "renamed"} => dest[q] \in NamesFor(q)
    BY DEF ReportsInv, EntriesAgree
  <1>2. UNCHANGED <<chains, method, at, events, found, known, current, watch, early>>
    BY DEF CreateRow, ChooseName, SaveLocation, Rename, watcher
  <1>3. /\ DOMAIN chains' = Chains
        /\ \A k \in Chains : /\ chains'[k].about = chains[k].about
                             /\ chains'[k].transfer = chains[k].transfer
                             /\ chains'[k].phase = chains[k].phase
                             /\ chains'[k].directory = chains[k].directory
                             /\ chains'[k].ours = chains[k].ours
        /\ watch' = watch \/ (watch = "start" /\ watch' = "watching")
    BY <1>2 DEF Chains
  <1>4. CASE CreateRow(p)
    <2>1. /\ transfers' = Append(transfers, Transfer(Elsewhere, "unknown"))
          /\ progress' = [progress EXCEPT ![p] = "copied"] /\ dest' = dest
          /\ progress[p] = "away"
      BY <1>4 DEF CreateRow, Ready
    <2>2. /\ Transfer(Elsewhere, "unknown") \in TransferRows
          /\ Transfer(Elsewhere, "unknown").location = Elsewhere
      BY DEF Transfer, TransferRows, Statuses, Locations, Elsewhere
    <2>3. /\ DOMAIN transfers' = 1 .. Len(transfers) + 1
          /\ \A t \in DOMAIN transfers : transfers'[t] = transfers[t]
          /\ transfers'[Len(transfers) + 1].location = Elsewhere
      BY <1>0, <2>1, <2>2, AppendFacts
    <2>4. DOMAIN transfers \subseteq DOMAIN transfers' BY <1>0, <2>3
    <2>6. \A t \in DOMAIN transfers' :
              \/ t \in DOMAIN transfers /\ transfers'[t].location = transfers[t].location
              \/ t \notin DOMAIN transfers /\ transfers'[t].location = Elsewhere
              \/ /\ \A j \in Chains : chains[j].transfer # t
                 /\ \E q \in Submitted :
                        ~ NotYet(q) /\ transfers'[t].location.name \in NamesFor(q)
      <3> TAKE t \in DOMAIN transfers'
      <3>1. CASE t \in DOMAIN transfers BY <2>3, <3>1
      <3>2. CASE t \notin DOMAIN transfers BY <1>0, <2>3, <3>2
      <3> QED BY <3>1, <3>2
    <2>5. /\ \A q \in Packages : NotYet(q)' => NotYet(q)
          /\ \A q \in Packages : progress'[q] \in {"chosen", "renamed"} =>
                 dest'[q] \in NamesFor(q)
      BY <1>0, <1>1, <2>1 DEF NotYet
    <2> QED BY <1>0, <1>2, <1>3, <2>4, <2>5, <2>6, QuietReports
  <1>5. CASE ChooseName(p)
    <2>1. /\ progress' = [progress EXCEPT ![p] = "chosen"] /\ transfers' = transfers
          /\ progress[p] = "copied"
      BY <1>5 DEF ChooseName
    <2>2. PICK i \in DOMAIN NamesOf[p] : dest' = [dest EXCEPT ![p] = NamesOf[p][i]]
      BY <1>5 DEF ChooseName
    <2>3. NamesOf[p][i] \in NamesFor(p) BY DEF NamesFor
    <2>4. /\ \A q \in Packages : NotYet(q)' => NotYet(q)
          /\ \A q \in Packages : progress'[q] \in {"chosen", "renamed"} =>
                 dest'[q] \in NamesFor(q)
      BY <1>0, <1>1, <2>1, <2>2, <2>3 DEF NotYet
    <2>5. /\ DOMAIN transfers \subseteq DOMAIN transfers'
          /\ \A t \in DOMAIN transfers' :
                 \/ t \in DOMAIN transfers /\ transfers'[t].location = transfers[t].location
                 \/ t \notin DOMAIN transfers /\ transfers'[t].location = Elsewhere
                 \/ /\ \A j \in Chains : chains[j].transfer # t
                    /\ \E q \in Submitted :
                           ~ NotYet(q) /\ transfers'[t].location.name \in NamesFor(q)
      BY <2>1
    <2> QED BY <1>0, <1>2, <1>3, <2>4, <2>5, QuietReports
  <1>6. CASE SaveLocation(p)
    <2> DEFINE x == Transfer([name |-> dest[p], slash |-> FALSE], "unknown")
    <2>1. /\ progress' = [progress EXCEPT ![p] = "delivered"] /\ dest' = dest
          /\ progress[p] = "renamed" /\ transfers' = [transfers EXCEPT ![own[p]] = x]
      BY <1>6 DEF SaveLocation
    <2>2. x.location.name = dest[p] BY DEF Transfer
    <2> HIDE DEF x
    <2>3. /\ DOMAIN transfers' = DOMAIN transfers
          /\ \A t \in DOMAIN transfers :
                 \/ transfers'[t] = transfers[t]
                 \/ t = own[p] /\ transfers'[t] = x
      BY <1>0, <2>1
    <2>4. /\ \A j \in Chains : chains[j].transfer # own[p]
          /\ p \in Submitted /\ ~ NotYet(p) /\ dest[p] \in NamesFor(p)
      BY <1>1, <2>1 DEF ArrivalAgrees, DeliveriesAgree, OnlySubmitted, NotYet
    <2>5. \A t \in DOMAIN transfers' :
              \/ t \in DOMAIN transfers /\ transfers'[t].location = transfers[t].location
              \/ t \notin DOMAIN transfers /\ transfers'[t].location = Elsewhere
              \/ /\ \A j \in Chains : chains[j].transfer # t
                 /\ \E q \in Submitted :
                        ~ NotYet(q) /\ transfers'[t].location.name \in NamesFor(q)
      BY <2>2, <2>3, <2>4
    <2>7. DOMAIN transfers \subseteq DOMAIN transfers' BY <2>3
    <2>6. /\ \A q \in Packages : NotYet(q)' => NotYet(q)
          /\ \A q \in Packages : progress'[q] \in {"chosen", "renamed"} =>
                 dest'[q] \in NamesFor(q)
      BY <1>0, <1>1, <2>1 DEF NotYet
    <2> QED BY <1>0, <1>2, <1>3, <2>5, <2>6, <2>7, QuietReports
  <1>7. CASE Rename(p) /\ dest[p] \in Present /\ IsDir
    <2>1. /\ progress' = [progress EXCEPT ![p] = "lost"] /\ dest' = dest
          /\ transfers' = transfers
      BY <1>7 DEF Rename
    <2>2. /\ \A q \in Packages : NotYet(q)' => NotYet(q)
          /\ \A q \in Packages : progress'[q] \in {"chosen", "renamed"} =>
                 dest'[q] \in NamesFor(q)
      BY <1>0, <1>1, <2>1 DEF NotYet
    <2>5. /\ DOMAIN transfers \subseteq DOMAIN transfers'
          /\ \A t \in DOMAIN transfers' :
                 \/ t \in DOMAIN transfers /\ transfers'[t].location = transfers[t].location
                 \/ t \notin DOMAIN transfers /\ transfers'[t].location = Elsewhere
                 \/ /\ \A j \in Chains : chains[j].transfer # t
                    /\ \E q \in Submitted :
                           ~ NotYet(q) /\ transfers'[t].location.name \in NamesFor(q)
      BY <2>1
    <2> QED BY <1>0, <1>2, <1>3, <2>2, <2>5, QuietReports
  <1> QED BY <1>4, <1>5, <1>6, <1>7

(* A crash ends all chains and forgets what was seen. *)
LEMMA CrashReports ==
    ASSUME ArrivalAgrees, NamesApart, ReportsInv, Crash
    PROVE  ReportsInv'
  <1>0. /\ TypeOK /\ progress \in [Packages -> Progress]
        /\ at \in [Names -> Packages \cup {NoPackage}]
    BY DEF ArrivalAgrees, TypeOK
  <1>1. PICK kept \in BOOLEAN : chains' = [j \in Chains |-> Orphan(chains[j], kept)]
    BY DEF Crash
  <1>2. \A j \in Chains : chains[j] \in ChainRecords(Len(transfers))
    BY <1>0, ArrivalTypes
  <1>3. /\ DOMAIN chains' = Chains
        /\ \A j \in Chains : /\ chains'[j].about = chains[j].about
                             /\ chains'[j].transfer = chains[j].transfer
                             /\ chains'[j].directory = chains[j].directory
                             /\ chains'[j].phase \in {chains[j].phase, "lost"}
                             /\ ~ chains'[j].ours
    BY <1>1, <1>2 DEF Orphan, ChainRecords
  <1>4. /\ UNCHANGED <<method, at, dest, own, transfers>> /\ watch' = "start"
        /\ events' = <<>> /\ found' = {} /\ known' = {} /\ current' = {} /\ early' = {}
        /\ progress' = [p \in Packages |->
                            IF progress[p] \in {"copied", "chosen", "renamed"} THEN "lost"
                            ELSE progress[p]]
    BY DEF Crash
  <1>5. /\ \A q \in Packages : NotYet(q)' => NotYet(q)
        /\ \A q \in Packages : progress'[q] \notin {"chosen", "renamed"}
    BY <1>0, <1>4 DEF NotYet
  <1>6. EntriesAgree'
    <2>1. Seen' = {} BY <1>4 DEF Seen
    <2>2. \A j \in DOMAIN chains' : j \in Chains /\ chains'[j].about = chains[j].about
      BY <1>3
    <2> QED BY <1>0, <1>4, <1>5, <2>1, <2>2, EntriesFrame DEF ReportsInv
  <1>7. ReportsAgree'
    <2>1. ASSUME NEW p \in Packages
          PROVE  Cardinality(Mine(p)') + Owed(Evented(p)') + Owed(ToScan(p)') <= 1
      <3>1. Mine(p)' = {} BY <1>3 DEF Mine, Chains
      <3>2. ~ Evented(p)' BY <1>4 DEF Evented
      <3> QED BY <3>1, <3>2, FS_EmptySet DEF Owed
    <2> QED BY <1>4, <2>1 DEF ReportsAgree, Owed
  <1>8. LocationsAgree'
    <2>1. \A n \in Names : at'[n] \in {at[n], NoPackage} BY <1>4
    <2>2. \A j \in Chains : chains'[j].phase = "sent" =>
              \/ chains[j].phase = "sent" /\ chains'[j].directory = chains[j].directory
              \/ chains'[j].directory = LocationOf(j)
      BY <1>3
    <2>3. \A j \in Chains : chains'[j].phase = "mv" =>
              chains[j].phase = "mv" \/ LocationOf(j).name \notin Present'
      BY <1>3
    <2> QED BY <1>0, <1>3, <1>4, <2>1, <2>2, <2>3, LocationsFrame DEF ReportsInv
  <1> QED BY <1>6, <1>7, <1>8 DEF ReportsInv

(* The clean-ups change no location and no chain but its row. *)
LEMMA CleanUpReports ==
    ASSUME ArrivalAgrees, NamesApart, ReportsInv, CleanUp
    PROVE  ReportsInv'
  <1>0. TypeOK BY DEF ArrivalAgrees
  <1>1. /\ \A j \in Chains : chains[j] \in ChainRecords(Len(transfers))
        /\ \A t \in DOMAIN transfers : transfers[t] \in TransferRows
    BY <1>0, ArrivalTypes
  <1>2. /\ UNCHANGED <<method, at, delivery, watcher, early>>
        /\ UNCHANGED <<progress, dest, events, found, known, current, watch>>
        /\ transfers' = [t \in DOMAIN transfers |->
                             [transfers[t] EXCEPT !.status = CleanStatus(@)]]
        /\ chains' = [j \in Chains |-> [chains[j] EXCEPT !.row = CleanRow(@)]]
    BY DEF CleanUp, delivery, watcher
  <1>3. /\ DOMAIN chains' = Chains
        /\ \A j \in Chains : /\ chains'[j].about = chains[j].about
                             /\ chains'[j].transfer = chains[j].transfer
                             /\ chains'[j].directory = chains[j].directory
                             /\ chains'[j].phase = chains[j].phase
                             /\ chains'[j].ours = chains[j].ours
    BY <1>1, <1>2 DEF ChainRecords
  <1>4. /\ DOMAIN transfers' = DOMAIN transfers
        /\ \A t \in DOMAIN transfers : transfers'[t].location = transfers[t].location
    BY <1>1, <1>2 DEF TransferRows
  <1>6. /\ DOMAIN transfers \subseteq DOMAIN transfers'
        /\ \A t \in DOMAIN transfers' :
               \/ t \in DOMAIN transfers /\ transfers'[t].location = transfers[t].location
               \/ t \notin DOMAIN transfers /\ transfers'[t].location = Elsewhere
               \/ /\ \A j \in Chains : chains[j].transfer # t
                  /\ \E q \in Submitted :
                         ~ NotYet(q) /\ transfers'[t].location.name \in NamesFor(q)
    BY <1>4
  <1>7. /\ \A k \in Chains : /\ chains'[k].about = chains[k].about
                             /\ chains'[k].transfer = chains[k].transfer
                             /\ chains'[k].phase = chains[k].phase
                             /\ chains'[k].directory = chains[k].directory
                             /\ chains'[k].ours = chains[k].ours
        /\ watch' = watch \/ (watch = "start" /\ watch' = "watching")
    BY <1>2, <1>3
  <1>5. /\ \A q \in Packages : NotYet(q)' => NotYet(q)
        /\ \A q \in Packages : progress'[q] \in {"chosen", "renamed"} =>
               dest'[q] \in NamesFor(q)
    BY <1>2 DEF NotYet, ReportsInv, EntriesAgree
  <1> QED BY <1>0, <1>2, <1>3, <1>5, <1>6, <1>7, QuietReports

(* A package that comes in is not known, and has one report due, or two.     *)
LEMMA AppearReports ==
    ASSUME TypeOK, NamesApart, ReportsInv, NEW p \in Packages, NEW n \in NamesFor(p),
           NotYet(p), Appear(p, n),
           UNCHANGED <<method, dest, transfers, chains, watch, known, current>>,
           ~ NotYet(p)',
           \A q \in Packages : q # p => progress'[q] = progress[q],
           progress'[p] \in {"chosen", "renamed"} => progress[p] = "chosen"
    PROVE  ReportsInv'
  <1>0. /\ at \in [Names -> Packages \cup {NoPackage}] /\ events \in Seq(Names)
        /\ NoPackage \notin Packages /\ n \in Names /\ early \subseteq Packages
    BY NamesFacts, ArrivalAssumption DEF TypeOK, ArrivalAssumption
  <1>1. /\ at' = [at EXCEPT ![n] = p]
        /\ \/ events' = events
           \/ /\ events' = Append(events, n) /\ method = "inotify"
              /\ watch \in {"watching", "scan", "loop"}
        /\ found' \in {found, found \cup {n}}
        /\ early' = IF method = "inotify" /\ watch \in {"watching", "scan"}
                    THEN early \cup {p} ELSE early
    BY DEF Appear
  <1>2. /\ at'[n] = p /\ \A m \in Names : m # n => at'[m] = at[m]
    BY <1>0, <1>1
  <1>3. /\ n \notin Seen /\ at[n] = NoPackage
        /\ \A m \in Names : at[m] # p
        /\ \A t \in DOMAIN transfers : transfers[t].location.name # n
        /\ \A j \in Chains : chains[j].about # p
    <2>1. n \notin Seen \cup Present BY <1>0, SeenHasCome DEF ReportsInv
    <2> QED BY <1>0, <2>1 DEF ReportsInv, EntriesAgree, Present
  <1>4. /\ Len(events) \in Nat /\ DOMAIN events = 1 .. Len(events)
        /\ \A i \in DOMAIN events : events[i] \in Names /\ events[i] # n
    BY <1>0, <1>3, ElementOfSeq, LenProperties DEF Seen
  <1>5. \/ DOMAIN events' = DOMAIN events /\ \A i \in DOMAIN events : events'[i] = events[i]
        \/ /\ DOMAIN events' = 1 .. Len(events) + 1 /\ events'[Len(events) + 1] = n
           /\ \A i \in DOMAIN events : events'[i] = events[i]
    BY <1>0, <1>1, <1>4, AppendFacts
  <1>6. Seen' \subseteq Seen \cup {n}
    <2>1. \A i \in DOMAIN events' : events'[i] \in Seen \cup {n}
      BY <1>4, <1>5 DEF Seen
    <2>2. found' \cup known' \cup current' \subseteq Seen \cup {n} BY <1>1 DEF Seen
    <2> QED BY <2>1, <2>2 DEF Seen
  <1>7. EntriesAgree'
    <2>1. /\ \A m \in Names : at'[m] # NoPackage => m \in NamesFor(at'[m])
          /\ \A l, m \in Names : at'[l] = at'[m] /\ at'[l] # NoPackage => l = m
      BY <1>0, <1>2, <1>3 DEF ReportsInv, EntriesAgree
    <2>2. \A q \in Packages : progress'[q] \in {"chosen", "renamed"} =>
              dest'[q] \in NamesFor(q)
      BY DEF ReportsInv, EntriesAgree
    <2>3. ASSUME NEW q \in Packages, NotYet(q)'
          PROVE  /\ \A m \in Names : at'[m] # q
                 /\ NamesFor(q) \cap Seen' = {}
                 /\ \A t \in DOMAIN transfers' :
                        transfers'[t].location.name \notin NamesFor(q)
                 /\ \A j \in Chains' : chains'[j].about # q
      <3>1. q # p /\ NotYet(q) BY <2>3 DEF NotYet
      <3>2. n \notin NamesFor(q) BY <3>1 DEF NamesApart
      <3>3. /\ \A m \in Names : at[m] # q
            /\ NamesFor(q) \cap Seen = {}
            /\ \A t \in DOMAIN transfers : transfers[t].location.name \notin NamesFor(q)
            /\ \A j \in Chains : chains[j].about # q
        BY <3>1 DEF ReportsInv, EntriesAgree
      <3>4. \A m \in Names : at'[m] # q BY <1>2, <3>1, <3>3
      <3>5. NamesFor(q) \cap Seen' = {} BY <1>6, <3>2, <3>3
      <3> QED BY <3>3, <3>4, <3>5 DEF Chains
    <2> QED BY <2>1, <2>2, <2>3 DEF EntriesAgree, NamesFor
  <1>8. ReportsAgree'
    <2>1. method' = "poll" => events' = <<>>
      BY <1>1 DEF ReportsInv, ReportsAgree
    <2>2. method' = "inotify" => known' = {} BY DEF ReportsInv, ReportsAgree
    <2>3. \A i, k \in DOMAIN events' : events'[i] = events'[k] => i = k
      <3>1. \A i, k \in DOMAIN events : events[i] = events[k] => i = k
        BY DEF ReportsInv, ReportsAgree
      <3> QED BY <1>4, <1>5, <3>1
    <2>4. ASSUME NEW q \in Packages
          PROVE  Cardinality(Mine(q)') + Owed(Evented(q)') + Owed(ToScan(q)')
                     <= IF q \in early' THEN 2 ELSE 1
      <3>1. Mine(q)' = Mine(q) BY DEF Mine, Chains
      <3>2. CASE q = p
        <4>1. Cardinality(Mine(q)') = 0
          <5>1. Mine(q) = {} BY <1>3, <3>2 DEF Mine
          <5> QED BY <3>1, <5>1, FS_EmptySet
        <4>2. Evented(q)' => method = "inotify" /\ watch \in {"watching", "scan", "loop"}
          <5> SUFFICES ASSUME Evented(q)'
                       PROVE  method = "inotify" /\ watch \in {"watching", "scan", "loop"}
            OBVIOUS
          <5>1. PICK i \in DOMAIN events' : at'[events'[i]] = p BY <3>2 DEF Evented
          <5>2. CASE events' = events BY <1>2, <1>3, <1>4, <5>1, <5>2
          <5> QED BY <1>1, <5>2
        <4>3. ToScan(q)' => method = "poll" \/ watch \in {"start", "watching", "scan"}
          BY DEF ToScan, Scanned
        <4>4. Evented(q)' /\ ToScan(q)' => q \in early'
          <5>1. "inotify" # "poll" OBVIOUS
          <5> QED BY <1>1, <3>2, <4>2, <4>3, <5>1
        <4> QED BY <4>1, <4>4 DEF Owed
      <3>3. CASE q # p
        <4>1. Evented(q)' => Evented(q)
          <5> SUFFICES ASSUME NEW i \in DOMAIN events', at'[events'[i]] = q
                       PROVE  Evented(q)
            BY DEF Evented
          <5>1. events'[i] # n BY <1>2, <3>3
          <5>2. i \in DOMAIN events /\ events'[i] = events[i] BY <1>4, <1>5, <5>1
          <5> QED BY <1>2, <1>4, <5>2 DEF Evented
        <4>2. ToScan(q)' => ToScan(q)
          <5> SUFFICES ASSUME NEW m \in Names, at'[m] = q, Scanned(m)'
                       PROVE  ToScan(q)
            BY DEF ToScan
          <5>1. m # n BY <1>2, <3>3
          <5>2. Scanned(m) BY <1>1, <5>1 DEF Scanned
          <5> QED BY <1>2, <5>1, <5>2 DEF ToScan
        <4>3. Cardinality(Mine(q)) + Owed(Evented(q)) + Owed(ToScan(q))
                  <= IF q \in early THEN 2 ELSE 1
          BY DEF ReportsInv, ReportsAgree
        <4>4. Cardinality(Mine(q)) \in Nat BY MineFinite
        <4>5. q \in early' <=> q \in early BY <1>1, <3>3
        <4>6. /\ Owed(Evented(q)) \in {0, 1} /\ Owed(ToScan(q)) \in {0, 1}
              /\ Owed(Evented(q)') \in {0, 1} /\ Owed(ToScan(q)') \in {0, 1}
              /\ Owed(Evented(q)') <= Owed(Evented(q))
              /\ Owed(ToScan(q)') <= Owed(ToScan(q))
          BY <4>1, <4>2 DEF Owed
        <4>7. Cardinality(Mine(q)') = Cardinality(Mine(q)) BY <3>1
        <4> QED BY <4>3, <4>4, <4>5, <4>6, <4>7
      <3> QED BY <3>2, <3>3
    <2> QED BY <2>1, <2>2, <2>3, <2>4 DEF ReportsAgree, Owed
  <1>9. LocationsAgree'
    <2>1. Chains' = Chains /\ \A j \in Chains : LocationOf(j)' = LocationOf(j)
      BY DEF Chains, LocationOf
    <2>2. Present' \subseteq Present \cup {n} BY <1>2 DEF Present
    <2>3. \A j \in Chains : chains[j].transfer \in DOMAIN transfers
      BY ArrivalTypes DEF ChainRecords
    <2>4. \A j \in Chains : LocationOf(j).name # n BY <1>3, <2>3 DEF LocationOf
    <2>5. \A j \in Chains' : chains'[j].phase = "mv" => LocationOf(j)'.name \notin Present'
      BY <2>1, <2>2, <2>4 DEF ReportsInv, LocationsAgree
    <2>6. ASSUME NEW m \in Names, at'[m] \in Packages \ Submitted
          PROVE  /\ \A j \in Chains' : chains'[j].about = at'[m] =>
                        LocationOf(j)' = PathOf(m)'
                 /\ \A t, u \in Matching(PathOf(m))' : t = u
      <3>1. CASE m = n
        <4>1. \A j \in Chains' : chains'[j].about # at'[m] BY <1>2, <1>3, <2>1, <3>1
        <4>2. PathOf(m)'.name = n BY <3>1 DEF PathOf
        <4>3. Matching(PathOf(m))' = {} BY <1>3, <4>2 DEF Matching
        <4> QED BY <4>1, <4>3
      <3>2. CASE m # n
        <4>1. at'[m] = at[m] BY <1>2, <3>2
        <4>2. PathOf(m)' = PathOf(m)
          BY <1>0, <2>6, <4>1 DEF PathOf, Present
        <4>3. Matching(PathOf(m))' = Matching(PathOf(m)) BY <4>2 DEF Matching
        <4> QED BY <2>1, <2>6, <4>1, <4>2, <4>3 DEF ReportsInv, LocationsAgree
      <3> QED BY <3>1, <3>2
    <2>7. OneTransferPerPackage'
      BY DEF ReportsInv, LocationsAgree, OneTransferPerPackage, Chains
    <2>8. \A j \in Chains' : chains'[j].phase = "sent" =>
              LocationOf(j)'.name \in {chains'[j].directory.name, NoName}
      BY <2>1 DEF ReportsInv, LocationsAgree
    <2> QED BY <2>5, <2>6, <2>7, <2>8 DEF LocationsAgree
  <1> QED BY <1>7, <1>8, <1>9 DEF ReportsInv

(* Packages are dropped and renamed into the watched directory. *)
LEMMA ArrivalReports ==
    ASSUME ArrivalAgrees, NamesApart, ReportsInv, NEW p \in Packages,
           Drop(p) \/ (Rename(p) /\ ~ (dest[p] \in Present /\ IsDir))
    PROVE  ReportsInv'
  <1>0. TypeOK /\ progress \in [Packages -> Progress] BY DEF ArrivalAgrees, TypeOK
  <1>1. CASE Drop(p)
    <2>1. NamesOf[p][1] \in NamesFor(p)
      BY ArrivalAssumption, LenProperties DEF ArrivalAssumption, NamesFor
    <2>2. /\ UNCHANGED <<method, dest, transfers, chains, watch, known, current>>
          /\ progress[p] = "away" /\ progress' = [progress EXCEPT ![p] = "delivered"]
          /\ Appear(p, NamesOf[p][1])
      BY <1>1 DEF Drop, Ready
    <2>3. NotYet(p) /\ ~ NotYet(p)' BY <1>0, <2>2 DEF NotYet
    <2>4. /\ \A q \in Packages : q # p => progress'[q] = progress[q]
          /\ progress'[p] = "delivered"
      BY <1>0, <2>2
    <2> QED BY <1>0, <2>1, <2>2, <2>3, <2>4, AppearReports
  <1>2. CASE Rename(p) /\ ~ (dest[p] \in Present /\ IsDir)
    <2>1. /\ UNCHANGED <<method, dest, transfers, chains, watch, known, current>>
          /\ progress[p] = "chosen" /\ progress' = [progress EXCEPT ![p] = "renamed"]
          /\ Appear(p, dest[p])
      BY <1>2 DEF Rename
    <2>2. dest[p] \in NamesFor(p) BY <2>1 DEF ReportsInv, EntriesAgree
    <2>3. NotYet(p) /\ ~ NotYet(p)' BY <1>0, <2>1 DEF NotYet
    <2>4. \A q \in Packages : q # p => progress'[q] = progress[q] BY <1>0, <2>1
    <2> QED BY <1>0, <2>1, <2>2, <2>3, <2>4, AppearReports
  <1> QED BY <1>1, <1>2

(* A report either ends the thread or gives the package that is there, if    *)
(* any, a chain for the row of its path, which is found or new.              *)
LEMMA HandleFacts ==
    ASSUME TypeOK, NEW n \in Names, NEW next, Handle(n, next)
    PROVE  \/ watch' = "dead" /\ UNCHANGED <<transfers, chains>>
           \/ /\ watch' = next /\ Len(chains) + 1 \notin Chains
              /\ DOMAIN chains' = Chains \cup {Len(chains) + 1}
              /\ \A k \in Chains : chains'[k] = chains[k]
              /\ chains'[Len(chains) + 1].about = at[n]
              /\ chains'[Len(chains) + 1].phase = "scheduled"
              /\ \E t \in DOMAIN transfers' :
                     /\ chains'[Len(chains) + 1].transfer = t
                     /\ DOMAIN transfers' = DOMAIN transfers \cup {t}
                     /\ transfers'[t].location = PathOf(n)
                     /\ t \in DOMAIN transfers \/ Matching(PathOf(n)) = {}
              /\ \A u \in DOMAIN transfers :
                     transfers'[u].location = transfers[u].location
  <1> DEFINE path == PathOf(n)
             t == IF Matching(path) = {} THEN Len(transfers) + 1
                  ELSE CHOOSE u \in Matching(path) : TRUE
             new == [transfer |-> t, about |-> at[n], phase |-> "scheduled",
                     directory |-> Elsewhere, row |-> "none", ours |-> TRUE]
  <1>1. CASE Cardinality(Matching(path)) > 1 BY <1>1 DEF Handle
  <1>2. CASE ~ Cardinality(Matching(path)) > 1
    <2>1. watch' = next /\ chains' = Append(chains, new) BY <1>2 DEF Handle
    <2>2. /\ t \in DOMAIN transfers' /\ DOMAIN transfers' = DOMAIN transfers \cup {t}
          /\ transfers'[t].location = path
          /\ t \in DOMAIN transfers \/ Matching(path) = {}
          /\ \A u \in DOMAIN transfers : transfers'[u].location = transfers[u].location
      <3>1. CASE Matching(path) = {}
        <4>1. t = Len(transfers) + 1 BY <3>1
        <4>2. transfers' = Append(transfers, Transfer(path, "processing"))
          BY <1>2, <3>1 DEF Handle
        <4>3. /\ Transfer(path, "processing") \in TransferRows
              /\ Transfer(path, "processing").location = path
          <5>1. path \in Locations
            BY ArrivalAssumption DEF PathOf, Locations, ArrivalAssumption
          <5> QED BY <5>1 DEF Transfer, TransferRows, Statuses
        <4> HIDE DEF t, path
        <4> QED BY <3>1, <4>1, <4>2, <4>3, ArrivalTypes, AppendFacts
      <3>2. CASE Matching(path) # {}
        <4>1. t \in Matching(path) BY <3>2
        <4>2. t \in DOMAIN transfers /\ transfers[t].location = path
          BY <4>1 DEF Matching
        <4> DEFINE x == [transfers[t] EXCEPT !.status = "processing"]
        <4>3. transfers' = [transfers EXCEPT ![t] = x]
          BY <1>2, <3>2 DEF Handle, Processing
        <4>4. x \in TransferRows /\ x.location = transfers[t].location
          BY <4>2, ArrivalTypes DEF TransferRows, Statuses
        <4> HIDE DEF x, t, path
        <4> QED BY <4>2, <4>3, <4>4, ArrivalTypes, ExceptFacts
      <3> QED BY <3>1, <3>2
    <2> HIDE DEF t
    <2>3. new.transfer = t /\ new.about = at[n] /\ new.phase = "scheduled" OBVIOUS
    <2> HIDE DEF new
    <2>4. /\ Len(chains) + 1 \notin Chains
          /\ DOMAIN chains' = Chains \cup {Len(chains) + 1}
          /\ \A k \in Chains : chains'[k] = chains[k]
          /\ chains'[Len(chains) + 1] = new
      <3> DEFINE S == {chains[k] : k \in Chains} \cup {new}
      <3>1. Len(chains) \in Nat /\ Chains = 1 .. Len(chains) BY ArrivalTypes
      <3>2. chains \in Seq(S)
        <4>1. chains \in [1 .. Len(chains) -> S]
          BY <3>1, ArrivalTypes, SeqDef, LenProperties DEF Chains
        <4> QED BY <3>1, <4>1, SeqDef
      <3>3. new \in S OBVIOUS
      <3> HIDE DEF S
      <3> QED BY <2>1, <3>1, <3>2, <3>3, AppendFacts DEF Chains
    <2> QED BY <2>1, <2>2, <2>3, <2>4
  <1> QED BY <1>1, <1>2

(* A report of what is under the name n, when a scan or an event owed it.    *)
LEMMA HandleReports ==
    ASSUME TypeOK, NamesApart, ReportsInv, NEW n \in Names, NEW next, Handle(n, next),
           n \in Seen, UNCHANGED <<method, at, delivery, known, early>>,
           found' \subseteq found, current' \subseteq current \cup {n},
           events' \in Seq(Names),
           events' = events \/ \A i \in DOMAIN events' :
                                   i + 1 \in DOMAIN events /\ events'[i] = events[i + 1],
           \A m \in Names : Scanned(m)' => Scanned(m),
           \/ Scanned(n) /\ ~ Scanned(n)'
           \/ /\ 1 \in DOMAIN events /\ events[1] = n
              /\ events' # events
    PROVE  ReportsInv'
  <1>0. /\ at \in [Names -> Packages \cup {NoPackage}] /\ events \in Seq(Names)
        /\ NoPackage \notin Packages /\ NoName \notin Names
        /\ UNCHANGED <<progress, dest>>
        /\ Len(events) \in Nat /\ DOMAIN events = 1 .. Len(events)
        /\ Len(events') \in Nat /\ DOMAIN events' = 1 .. Len(events')
        /\ \A i \in DOMAIN events : events[i] \in Names
    BY ArrivalAssumption, LenProperties, ElementOfSeq
       DEF TypeOK, ArrivalAssumption, delivery
  <1>1. /\ \A i, k \in DOMAIN events : events[i] = events[k] => i = k
        /\ method = "poll" => events = <<>>
        /\ method = "inotify" => known = {}
    BY DEF ReportsInv, ReportsAgree
  <1>2. \A i \in DOMAIN events' : \E k \in DOMAIN events : events'[i] = events[k]
    OBVIOUS
  <1>3. Seen' \subseteq Seen
    <2>1. \A i \in DOMAIN events' : events'[i] \in Seen BY <1>2 DEF Seen
    <2>2. found' \cup known' \cup current' \subseteq Seen BY DEF Seen
    <2> QED BY <2>1, <2>2 DEF Seen
  <1>4. \A j \in DOMAIN chains' :
            \/ j \in Chains /\ chains'[j].about = chains[j].about
            \/ \E m \in Names : chains'[j].about = at[m]
    BY HandleFacts DEF Chains
  <1>5. \A t \in DOMAIN transfers' :
            \/ t \in DOMAIN transfers /\ transfers'[t].location = transfers[t].location
            \/ transfers'[t].location.name \in Seen \cup Present \cup {NoName}
    <2>1. PathOf(n).name = n BY DEF PathOf
    <2>2. CASE UNCHANGED transfers BY <2>2
    <2>3. CASE ~ UNCHANGED transfers
      <3>1. PICK t \in DOMAIN transfers' :
                /\ DOMAIN transfers' = DOMAIN transfers \cup {t}
                /\ transfers'[t].location = PathOf(n)
        BY <2>3, HandleFacts
      <3>2. \A u \in DOMAIN transfers : transfers'[u].location = transfers[u].location
        BY <2>3, HandleFacts
      <3> QED BY <2>1, <3>1, <3>2
    <2> QED BY <2>2, <2>3
  <1>6. EntriesAgree'
    <2>1. \A p \in Packages : NotYet(p)' <=> NotYet(p) BY <1>0 DEF NotYet
    <2>2. \A p \in Packages : progress'[p] \in {"chosen", "renamed"} =>
              dest'[p] \in NamesFor(p)
      BY <1>0 DEF ReportsInv, EntriesAgree
    <2>3. \A m \in Names : at'[m] \in {at[m], NoPackage} OBVIOUS
    <2>4. Seen' \subseteq Seen \cup Present BY <1>3
    <2> QED BY <1>0, <1>4, <1>5, <2>1, <2>2, <2>3, <2>4, EntriesFrame DEF ReportsInv
  <1>7. ReportsAgree'
    <2>1. /\ method' = "poll" => events' = <<>>
          /\ method' = "inotify" => known' = {}
          /\ \A i, k \in DOMAIN events' : events'[i] = events'[k] => i = k
      <3>1. \A i, k \in DOMAIN events' : events'[i] = events'[k] => i = k
        BY <1>0, <1>1
      <3>2. method' = "poll" => events' = <<>>
        <4> SUFFICES ASSUME method' = "poll" PROVE events' = <<>> OBVIOUS
        <4>1. events = <<>> /\ DOMAIN events = {} BY <1>1
        <4>2. DOMAIN events' = {} BY <1>2, <4>1
        <4>3. Len(events') = 0 BY <1>0, <4>2
        <4> QED BY <4>3, EmptySeq
      <3> QED BY <1>1, <3>1, <3>2
    <2>2. ASSUME NEW p \in Packages
          PROVE  /\ Evented(p)' => Evented(p)
                 /\ ToScan(p)' => ToScan(p)
      BY <1>2 DEF Evented, ToScan
    <2>3. \A m \in Names : at[m] = at[n] /\ at[n] # NoPackage => m = n
      BY DEF ReportsInv, EntriesAgree
    <2>4. ASSUME at[n] \in Packages
          PROVE  \/ ToScan(at[n]) /\ ~ ToScan(at[n])'
                 \/ Evented(at[n]) /\ ~ Evented(at[n])'
      <3>1. CASE Scanned(n) /\ ~ Scanned(n)'
        <4>1. ToScan(at[n]) BY <3>1 DEF ToScan
        <4>2. ~ ToScan(at[n])' BY <1>0, <2>3, <2>4, <3>1 DEF ToScan
        <4> QED BY <4>1, <4>2
      <3>2. CASE 1 \in DOMAIN events /\ events[1] = n /\ events' # events
        <4>1. Evented(at[n]) BY <3>2 DEF Evented
        <4>2. ~ Evented(at[n])'
          <5> SUFFICES ASSUME NEW i \in DOMAIN events', at[events'[i]] = at[n]
                       PROVE  FALSE
            BY DEF Evented
          <5>1. i + 1 \in DOMAIN events /\ events'[i] = events[i + 1] /\ i \in Nat /\ i > 0
            BY <1>0, <3>2
          <5>2. events[i + 1] = n BY <1>0, <2>3, <2>4, <5>1
          <5>3. i + 1 = 1 BY <1>1, <3>2, <5>1, <5>2
          <5> QED BY <5>1, <5>3
        <4> QED BY <4>1, <4>2
      <3> QED BY <3>1, <3>2
    <2>5. ASSUME NEW p \in Packages
          PROVE  Cardinality(Mine(p)') + Owed(Evented(p)') + Owed(ToScan(p)')
                     <= IF p \in early' THEN 2 ELSE 1
      <3>1. Cardinality(Mine(p)) + Owed(Evented(p)) + Owed(ToScan(p))
                <= IF p \in early THEN 2 ELSE 1
        BY DEF ReportsInv, ReportsAgree
      <3>2. IsFiniteSet(Mine(p)) /\ Cardinality(Mine(p)) \in Nat BY MineFinite
      <3>3. \/ Mine(p)' = Mine(p)
            \/ p = at[n] /\ Mine(p)' \subseteq Mine(p) \cup {Len(chains) + 1}
        BY HandleFacts DEF Mine, Chains
      <3>4. /\ Cardinality(Mine(p)') \in Nat
            /\ Cardinality(Mine(p)') <= Cardinality(Mine(p)) + (IF p = at[n] THEN 1 ELSE 0)
        <4>1. CASE Mine(p)' = Mine(p) BY <3>2, <4>1
        <4>2. CASE p = at[n] /\ Mine(p)' \subseteq Mine(p) \cup {Len(chains) + 1}
          <5> DEFINE M == Mine(p) \cup {Len(chains) + 1}
          <5>1. /\ IsFiniteSet(M) /\ Cardinality(M) \in Nat
                /\ Cardinality(M) <= Cardinality(Mine(p)) + 1
            <6>1. /\ IsFiniteSet(M)
                  /\ Cardinality(M) = Cardinality(Mine(p))
                         \/ Cardinality(M) = Cardinality(Mine(p)) + 1
              BY <3>2, FS_AddElement
            <6> QED BY <3>2, <6>1, FS_CardinalityType
          <5>2. IsFiniteSet(Mine(p)') /\ Cardinality(Mine(p)') <= Cardinality(M)
            BY <4>2, <5>1, FS_Subset
          <5>3. Cardinality(Mine(p)') \in Nat BY <5>2, FS_CardinalityType
          <5> HIDE DEF M
          <5> QED BY <3>2, <4>2, <5>1, <5>2, <5>3
        <4> QED BY <3>3, <4>1, <4>2
      <3>5. /\ Owed(Evented(p)) \in {0, 1} /\ Owed(ToScan(p)) \in {0, 1}
            /\ Owed(Evented(p)') \in {0, 1} /\ Owed(ToScan(p)') \in {0, 1}
            /\ Owed(Evented(p)') <= Owed(Evented(p)) /\ Owed(ToScan(p)') <= Owed(ToScan(p))
        BY <2>2 DEF Owed
      <3>6. p = at[n] => Owed(Evented(p)') + Owed(ToScan(p)') + 1
                             <= Owed(Evented(p)) + Owed(ToScan(p))
        BY <2>2, <2>4 DEF Owed
      <3>7. early' = early OBVIOUS
      <3> DEFINE c == Cardinality(Mine(p))
                 d == Cardinality(Mine(p)')
                 e == Owed(Evented(p))
                 f == Owed(Evented(p)')
                 g == Owed(ToScan(p))
                 h == Owed(ToScan(p)')
      <3>8. /\ c \in Nat /\ d \in Nat /\ d <= c + (IF p = at[n] THEN 1 ELSE 0)
            /\ e \in {0, 1} /\ f \in {0, 1} /\ g \in {0, 1} /\ h \in {0, 1}
            /\ f <= e /\ h <= g /\ (p = at[n] => f + h + 1 <= e + g)
            /\ c + e + g <= IF p \in early THEN 2 ELSE 1
        BY <3>1, <3>2, <3>4, <3>5, <3>6
      <3> HIDE DEF c, d, e, f, g, h
      <3>9. d + f + h <= IF p \in early' THEN 2 ELSE 1 BY <3>7, <3>8
      <3> QED BY <3>9 DEF d, f, h
    <2> QED BY <2>1, <2>5 DEF ReportsAgree, Owed
  <1>8. CASE watch' = "dead" /\ UNCHANGED <<transfers, chains>>
    <2>1. DOMAIN chains' = Chains BY <1>8 DEF Chains
    <2>2. LocationsAgree' BY <1>8, <2>1, LocationsFrame DEF ReportsInv
    <2> QED BY <1>6, <1>7, <2>2 DEF ReportsInv
  <1>9. CASE ~ (watch' = "dead" /\ UNCHANGED <<transfers, chains>>)
    <2>0. PICK new : new = Len(chains) + 1 OBVIOUS
    <2>1. /\ new \notin Chains /\ DOMAIN chains' = Chains \cup {new}
          /\ \A k \in Chains : chains'[k] = chains[k]
          /\ chains'[new].about = at[n] /\ chains'[new].phase = "scheduled"
          /\ \A u \in DOMAIN transfers : transfers'[u].location = transfers[u].location
      BY <1>9, <2>0, HandleFacts
    <2>2. PICK t \in DOMAIN transfers' :
              /\ chains'[new].transfer = t
              /\ DOMAIN transfers' = DOMAIN transfers \cup {t}
              /\ transfers'[t].location = PathOf(n)
              /\ t \in DOMAIN transfers \/ Matching(PathOf(n)) = {}
      BY <1>9, <2>0, HandleFacts
    <2>3. \A j \in Chains : chains[j].transfer \in DOMAIN transfers
      BY ArrivalTypes DEF ChainRecords
    <2>4. /\ \A j \in Chains : LocationOf(j)' = LocationOf(j)
          /\ LocationOf(new)' = PathOf(n)
      BY <2>1, <2>2, <2>3 DEF LocationOf
    <2>5. Present' = Present /\ \A m \in Names : PathOf(m)' = PathOf(m)
      BY DEF Present, PathOf
    <2>6. \A j \in Chains' : /\ chains'[j].phase = "sent" =>
                                    LocationOf(j)'.name \in {chains'[j].directory.name, NoName}
                             /\ chains'[j].phase = "mv" =>
                                    LocationOf(j)'.name \notin Present'
      BY <2>1, <2>4, <2>5 DEF ReportsInv, LocationsAgree, Chains
    <2>7. ASSUME NEW m \in Names, at[m] \in Packages \ Submitted
          PROVE  /\ \A j \in Chains' : chains'[j].about = at[m] =>
                        LocationOf(j)' = PathOf(m)
                 /\ \A v, u \in Matching(PathOf(m))' : v = u
      <3>1. /\ \A j \in Chains : chains[j].about = at[m] => LocationOf(j) = PathOf(m)
            /\ \A v, u \in Matching(PathOf(m)) : v = u
        BY <2>7 DEF ReportsInv, LocationsAgree
      <3>2. at[n] = at[m] => n = m BY <1>0, <2>7 DEF ReportsInv, EntriesAgree
      <3>3. \A j \in Chains' : chains'[j].about = at[m] => LocationOf(j)' = PathOf(m)
        BY <2>1, <2>4, <3>1, <3>2 DEF Chains
      <3>4. \A v \in DOMAIN transfers' :
                transfers'[v].location = PathOf(m) =>
                    \/ v \in DOMAIN transfers /\ transfers[v].location = PathOf(m)
                    \/ v = t /\ Matching(PathOf(m)) = {}
        <4>1. PathOf(n).name = n /\ PathOf(m).name = m BY DEF PathOf
        <4> QED BY <2>1, <2>2, <4>1
      <3>5. \A v, u \in Matching(PathOf(m))' : v = u
        BY <2>5, <3>1, <3>4 DEF Matching
      <3> QED BY <3>3, <3>5
    <2>8. OneTransferPerPackage'
      <3> SUFFICES ASSUME NEW j \in Chains', NEW k \in Chains',
                          chains'[j].about = chains'[k].about,
                          chains'[j].about \in Packages \ Submitted
                   PROVE  chains'[j].transfer = chains'[k].transfer
        BY DEF OneTransferPerPackage
      <3>1. ASSUME NEW i \in Chains, chains[i].about = at[n], at[n] \in Packages \ Submitted
            PROVE  chains[i].transfer = t
        <4>1. LocationOf(i) = PathOf(n) BY <3>1 DEF ReportsInv, LocationsAgree
        <4>2. chains[i].transfer \in Matching(PathOf(n))
          BY <2>3, <4>1 DEF Matching, LocationOf
        <4>3. t \in Matching(PathOf(n)) BY <2>1, <2>2, <4>2 DEF Matching
        <4> QED BY <3>1, <4>2, <4>3 DEF ReportsInv, LocationsAgree
      <3>2. CASE j \in Chains /\ k \in Chains
        BY <2>1, <3>2 DEF ReportsInv, LocationsAgree, OneTransferPerPackage
      <3>3. CASE j = new \/ k = new
        BY <2>1, <2>2, <3>1, <3>3 DEF Chains
      <3> QED BY <2>1, <3>2, <3>3 DEF Chains
    <2>9. LocationsAgree' BY <2>5, <2>6, <2>7, <2>8 DEF LocationsAgree
    <2> QED BY <1>6, <1>7, <2>9 DEF ReportsInv
  <1> QED BY <1>8, <1>9

(* A scan or an event reports an entry. *)
LEMMA ReportReports ==
    ASSUME ArrivalAgrees, NamesApart, ReportsInv,
           ReportEvent \/ \E n \in Names : ReportFound(n)
    PROVE  ReportsInv'
  <1>0. /\ TypeOK /\ events \in Seq(Names)
        /\ Len(events) \in Nat /\ DOMAIN events = 1 .. Len(events)
    BY LenProperties DEF ArrivalAgrees, TypeOK
  <1>1. method = "poll" => events = <<>> BY DEF ReportsInv, ReportsAgree
  <1>2. ASSUME NEW n \in Names, ReportFound(n) PROVE ReportsInv'
    <2>1. /\ watch = "scan" /\ n \in found \ known /\ Handle(n, "scan")
          /\ found' = found \ {n} /\ current' = current \cup {n}
          /\ UNCHANGED <<method, at, delivery, known, early>> /\ UNCHANGED events
      BY <1>2 DEF ReportFound
    <2>2. watch' \in {"scan", "dead"} BY <1>0, <2>1, HandleFacts
    <2>3. \A m \in Names : Scanned(m)' => Scanned(m) BY <2>1, <2>2 DEF Scanned
    <2>4. Scanned(n) /\ ~ Scanned(n)' BY <2>1, <2>2 DEF Scanned
    <2>5. n \in Seen BY <2>1 DEF Seen
    <2>6. /\ found' \subseteq found /\ current' \subseteq current \cup {n}
          /\ events' \in Seq(Names) /\ events' = events
      BY <1>0, <2>1
    <2> QED BY <1>0, <2>1, <2>3, <2>4, <2>5, <2>6, HandleReports
  <1>3. CASE ReportEvent
    <2> DEFINE n == Head(events)
    <2>1. /\ watch = "loop" /\ events # <<>> /\ Handle(n, "loop")
          /\ events' = Tail(events)
          /\ UNCHANGED <<method, at, delivery, known, early>>
          /\ UNCHANGED <<found, current>>
      BY <1>3 DEF ReportEvent
    <2>2. /\ n \in Names /\ n = events[1] /\ 1 \in DOMAIN events
          /\ events' \in Seq(Names)
          /\ Len(events') = Len(events) - 1 /\ DOMAIN events' = 1 .. Len(events')
          /\ \A i \in DOMAIN events' : i + 1 \in DOMAIN events /\ events'[i] = events[i + 1]
      <3>1. /\ n \in Names /\ n = events[1] /\ events' \in Seq(Names)
            /\ Len(events') = Len(events) - 1
            /\ \A i \in 1 .. Len(events') : events'[i] = events[i + 1]
        BY <1>0, <2>1, HeadTailProperties
      <3>2. Len(events) # 0 BY <1>0, <2>1, EmptySeq
      <3>3. Len(events') \in Nat /\ DOMAIN events' = 1 .. Len(events')
        BY <3>1, LenProperties
      <3> QED BY <1>0, <3>1, <3>2, <3>3
    <2>3. events' # events BY <1>0, <2>2
    <2>4. watch' \in {"loop", "dead"} BY <1>0, <2>1, <2>2, HandleFacts
    <2>5. \A m \in Names : Scanned(m)' => Scanned(m) BY <2>1, <2>4 DEF Scanned
    <2>6. n \in Seen BY <2>2 DEF Seen
    <2>7. found' \subseteq found /\ current' \subseteq current \cup {n} BY <2>1
    <2> HIDE DEF n
    <2>8. 1 \in DOMAIN events /\ events[1] = n /\ events' # events BY <2>2, <2>3
    <2> QED BY <1>0, <2>1, <2>2, <2>5, <2>6, <2>7, <2>8, HandleReports
  <1> QED BY <1>2, <1>3

(* Nothing has been seen yet. *)
LEMMA InitReports == ASSUME Init PROVE ReportsInv /\ OnlySubmitted
  <1>0. NoPackage \notin Packages BY ArrivalAssumption DEF ArrivalAssumption
  <1>1. /\ \A n \in Names : at[n] = NoPackage
        /\ \A p \in Packages : progress[p] = "away"
        /\ Chains = {} /\ DOMAIN transfers = {} /\ DOMAIN events = {}
        /\ events = <<>> /\ found = {} /\ known = {} /\ current = {}
    BY DEF Init, Chains
  <1>2. Seen = {} BY <1>1 DEF Seen
  <1>3. EntriesAgree BY <1>0, <1>1, <1>2 DEF EntriesAgree
  <1>4. ASSUME NEW p \in Packages
        PROVE  Cardinality(Mine(p)) + Owed(Evented(p)) + Owed(ToScan(p))
                   <= IF p \in early THEN 2 ELSE 1
    <2>1. Mine(p) = {} BY <1>1 DEF Mine
    <2>2. ~ Evented(p) BY <1>1 DEF Evented
    <2> QED BY <2>1, <2>2, FS_EmptySet DEF Owed
  <1>5. ReportsAgree BY <1>1, <1>4 DEF ReportsAgree
  <1>6. LocationsAgree
    BY <1>0, <1>1 DEF LocationsAgree, OneTransferPerPackage
  <1> QED BY <1>1, <1>3, <1>5, <1>6 DEF ReportsInv, OnlySubmitted

(* The staging directory is used by submissions only. *)
LEMMA StepOnlySubmitted ==
    ASSUME TypeOK, OnlySubmitted, [Next]_vars PROVE OnlySubmitted'
  <1>0. progress \in [Packages -> Progress] BY DEF TypeOK
  <1>1. ASSUME NEW p \in Packages, Drop(p) \/ CreateRow(p) \/ Deliver(p)
        PROVE  OnlySubmitted'
    <2>1. CASE Drop(p) BY <1>0, <2>1 DEF Drop, OnlySubmitted
    <2>2. CASE CreateRow(p) BY <1>0, <2>2 DEF CreateRow, OnlySubmitted
    <2>3. CASE ChooseName(p) BY <1>0, <2>3 DEF ChooseName, OnlySubmitted
    <2>4. CASE Rename(p) BY <1>0, <2>4 DEF Rename, OnlySubmitted
    <2>5. CASE SaveLocation(p) BY <1>0, <2>5 DEF SaveLocation, OnlySubmitted
    <2> QED BY <1>1, <2>1, <2>2, <2>3, <2>4, <2>5 DEF Deliver
  <1>2. CASE Crash BY <1>0, <1>2 DEF Crash, OnlySubmitted
  <1>3. ASSUME UNCHANGED progress PROVE OnlySubmitted' BY <1>3 DEF OnlySubmitted
  <1>4. CASE WatchStep
    BY <1>3, <1>4
       DEF WatchStep, AddWatch, Scan, EndScan, ReportEvent, ReportFound, SkipKnown, delivery
  <1>5. ASSUME \/ \E j \in Chains : ChainStep(j) \/ Preconfigured(j)
               \/ \E c \in Clients : Decide(c)
        PROVE  OnlySubmitted'
    BY <1>3, <1>5, ChainMoves DEF delivery
  <1>6. ASSUME NEW c \in Clients, NEW j \in Chains, FindRow(c, j) PROVE OnlySubmitted'
    BY <1>3, <1>6 DEF FindRow, delivery
  <1>7. CASE CleanUp BY <1>3, <1>7 DEF CleanUp, delivery
  <1>8. CASE UNCHANGED vars BY <1>3, <1>8 DEF vars, delivery
  <1> QED BY <1>1, <1>2, <1>4, <1>5, <1>6, <1>7, <1>8 DEF Next

(* Every step keeps reports, entries and locations in agreement. *)
LEMMA StepReports ==
    ASSUME ArrivalAgrees, NamesApart, ReportsInv, OnlySubmitted, [Next]_vars
    PROVE  ReportsInv'
  <1>0. TypeOK BY DEF ArrivalAgrees
  <1>1. ASSUME NEW p \in Packages, Drop(p) \/ CreateRow(p) \/ Deliver(p)
        PROVE  ReportsInv'
    <2>1. CASE Drop(p) BY <2>1, ArrivalReports
    <2>2. CASE CreateRow(p) \/ ChooseName(p) \/ SaveLocation(p)
      BY <2>2, SubmissionReports
    <2>3. CASE Rename(p) BY <2>3, ArrivalReports, SubmissionReports
    <2> QED BY <1>1, <2>1, <2>2, <2>3 DEF Deliver
  <1>2. CASE WatchStep
    <2>1. CASE AddWatch \/ Scan \/ EndScan \/ \E n \in Names : SkipKnown(n)
      BY <2>1, WatchReports
    <2>2. CASE ReportEvent \/ \E n \in Names : ReportFound(n) BY <2>2, ReportReports
    <2> QED BY <1>2, <2>1, <2>2 DEF WatchStep
  <1>3. CASE \/ \E j \in Chains : ChainStep(j) \/ Preconfigured(j)
             \/ \E c \in Clients : Decide(c)
    BY <1>3, ChainReports
  <1>4. ASSUME UNCHANGED <<method, at, delivery, transfers, chains, watcher, early>>
        PROVE  ReportsInv'
    <2>1. /\ UNCHANGED <<method, at, delivery, transfers, chains, events, early>>
          /\ UNCHANGED <<found, known, current, watch>>
      BY <1>4 DEF watcher
    <2>2. Seen' \subseteq Seen \cup Present BY <2>1 DEF Seen
    <2>3. \A n \in Present : Scanned(n)' => Scanned(n) BY <2>1 DEF Scanned
    <2>4. method' = "inotify" => known' = {} BY <2>1 DEF ReportsInv, ReportsAgree
    <2> QED BY <1>0, <2>1, <2>2, <2>3, <2>4, ScanReports
  <1>5. ASSUME NEW c \in Clients, NEW j \in Chains, FindRow(c, j) PROVE ReportsInv'
    BY <1>4, <1>5 DEF FindRow
  <1>6. CASE UNCHANGED vars BY <1>4, <1>6 DEF vars
  <1> QED
    BY <1>1, <1>2, <1>3, <1>5, <1>6, CrashReports, CleanUpReports DEF Next

(* Entries, reports and locations agree in every reachable state, if no two  *)
(* packages can come under one name.                                         *)
THEOREM AlwaysReportsAgree == ASSUME NamesApart PROVE Spec => []ReportsInv
  <1>1. Init => ReportsInv /\ OnlySubmitted BY InitReports
  <1>2. ArrivalAgrees /\ ReportsInv /\ OnlySubmitted /\ [Next]_vars =>
            ReportsInv' /\ OnlySubmitted'
    <2> SUFFICES ASSUME ArrivalAgrees, ReportsInv, OnlySubmitted, [Next]_vars
                 PROVE  ReportsInv' /\ OnlySubmitted'
      OBVIOUS
    <2>1. TypeOK BY DEF ArrivalAgrees
    <2> QED BY <2>1, StepReports, StepOnlySubmitted
  <1> QED BY <1>1, <1>2, AlwaysArrivalAgrees, PTL DEF Spec

(* While MCPServer runs, a package gets one chain; it gets two at most when   *)
(* it came in between the registration of the inotify watch and the end of    *)
(* the scan after it: for polling and inotify, and any number of packages and *)
(* restarts.                                                                  *)
THEOREM AlwaysReportedOnce == ASSUME NamesApart PROVE Spec => []ReportedOnce
  <1>1. ArrivalAgrees /\ ReportsInv => ReportedOnce
    <2> SUFFICES ASSUME ArrivalAgrees, ReportsInv, NEW p \in Packages
                 PROVE  Cardinality(Mine(p)) <= IF p \in early THEN 2 ELSE 1
      BY DEF ReportedOnce, Mine
    <2>1. Cardinality(Mine(p)) + Owed(Evented(p)) + Owed(ToScan(p))
              <= IF p \in early THEN 2 ELSE 1
      BY DEF ReportsInv, ReportsAgree
    <2>2. Cardinality(Mine(p)) \in Nat BY MineFinite DEF ArrivalAgrees
    <2>3. Owed(Evented(p)) \in {0, 1} /\ Owed(ToScan(p)) \in {0, 1} BY DEF Owed
    <2> QED BY <2>1, <2>2, <2>3
  <1> QED BY <1>1, AlwaysArrivalAgrees, AlwaysReportsAgree, PTL

(* However often a package that a user dropped is reported, and MCPServer is  *)
(* restarted, its chains are for one row.                                     *)
THEOREM AlwaysOneTransfer == ASSUME NamesApart PROVE Spec => []OneTransferPerPackage
  <1>1. ReportsInv => OneTransferPerPackage BY DEF ReportsInv, LocationsAgree
  <1> QED BY <1>1, AlwaysReportsAgree, PTL
=============================================================================
