-------------------------- MODULE TransferArrivalInv -------------------------
(***************************************************************************)
(* The inductive invariants of TransferArrival.                            *)
(*                                                                         *)
(* ArrivalAgrees is behind AwaitingIsOffered and OfferedIsProcessing.  A   *)
(* row that a submission is still to write is used by no chain             *)
(* (DeliveriesAgree), so saving its location cannot take a transfer that   *)
(* waits for a decision out of "processing"; nothing else but the end of a *)
(* chain and a restart changes a status (ProcessingAgrees), and a restart  *)
(* leaves no job that waits.                                               *)
(*                                                                         *)
(* ReportsAgree and LocationsAgree, with EntriesAgree, are behind          *)
(* ReportedOnce and OneTransferPerPackage.  A package is owed a bounded    *)
(* number of reports, those it had included, and until it is moved away    *)
(* the row of the first is found by the next one.                          *)
(***************************************************************************)
EXTENDS TransferArrival

\* Deliveries of submitted packages that are under way have a row of their
\* own, which no chain has found.
DeliveriesAgree ==
    /\ \A p, q \in Packages : own[p] = own[q] /\ own[p] # 0 => p = q
    /\ \A p \in Packages :
           /\ progress[p] \in {"copied", "chosen", "renamed"} =>
                  /\ up /\ own[p] # 0
                  /\ transfers[own[p]].location = Elsewhere
                  /\ \A j \in Chains : chains[j].transfer # own[p]
           /\ progress[p] \in {"chosen", "renamed"} => dest[p] \in Names

\* Until its decision is taken a chain finds its transfer processing.
ProcessingAgrees ==
    \A j \in Chains :
        chains[j].phase \in {"scheduled", "saved", "marked", "offered"} =>
            \/ transfers[chains[j].transfer].status = "processing"
            \/ \E k \in Chains : /\ chains[k].transfer = chains[j].transfer
                                 /\ chains[k].phase = "ended"

\* The inductive invariant: rows, chains, deliveries and clients agree.
ArrivalAgrees ==
    /\ TypeOK
    /\ AwaitingIsOffered
    /\ ~ up => \A j \in Chains : ~ chains[j].ours
    /\ DeliveriesAgree
    /\ ProcessingAgrees

-----------------------------------------------------------------------------
(* The inductive invariant behind ReportedOnce and OneTransferPerPackage,  *)
(* where no two packages can come under one name (NamesApart): an archive   *)
(* that replaces another one is reported by the event of that one too.      *)

NamesFor(p) == {NamesOf[p][i] : i \in DOMAIN NamesOf[p]}
NamesApart == \A p, q \in Packages : NamesFor(p) \cap NamesFor(q) # {} => p = q

\* p has not been in the watched directory.
NotYet(p) == progress[p] \in {"away", "copied", "chosen"}
\* The names the watching thread has come across and not forgotten.
Seen == found \cup known \cup current \cup {events[i] : i \in DOMAIN events}

\* Entries are packages under one of their names, each once; of a package
\* that has not come neither the thread, a row nor a chain knows.
EntriesAgree ==
    /\ \A n \in Names : at[n] # NoPackage => n \in NamesFor(at[n])
    /\ \A m, n \in Names : at[m] = at[n] /\ at[n] # NoPackage => m = n
    /\ \A p \in Packages : progress[p] \in {"chosen", "renamed"} => dest[p] \in NamesFor(p)
    /\ \A p \in Packages : NotYet(p) =>
           /\ \A n \in Names : at[n] # p
           /\ NamesFor(p) \cap Seen = {}
           /\ \A t \in DOMAIN transfers : transfers[t].location.name \notin NamesFor(p)
           /\ \A j \in Chains : chains[j].about # p

\* Only submitted packages come in by way of a staging directory.
OnlySubmitted ==
    \A p \in Packages : progress[p] \in {"copied", "chosen", "renamed"} => p \in Submitted

\* The chains p has got while MCPServer runs; whether an event is still to
\* report it; and whether a scan is, this one or the next one.
Mine(p) == {j \in Chains : chains[j].ours /\ chains[j].about = p}
Evented(p) == \E i \in DOMAIN events : at[events[i]] = p
Scanned(n) ==
    \/ watch \in {"start", "watching"}
    \/ watch = "scan" /\ n \in found \ known
    \/ watch = "scan" /\ method = "poll" /\ n \notin found \cup current
    \/ watch = "loop" /\ method = "poll" /\ n \notin known
ToScan(p) == \E n \in Names : at[n] = p /\ Scanned(n)
Owed(b) == IF b THEN 1 ELSE 0

\* The chains of a package, and the reports of it that are still to come.
ReportsAgree ==
    /\ method = "poll" => events = <<>>
    /\ method = "inotify" => known = {}
    /\ \A i, k \in DOMAIN events : events[i] = events[k] => i = k
    /\ \A p \in Packages :
           Cardinality(Mine(p)) + Owed(Evented(p)) + Owed(ToScan(p))
               <= IF p \in early THEN 2 ELSE 1

LocationOf(j) == transfers[chains[j].transfer].location

\* A row loses its location only when the package has been moved away, so
\* until then the next report finds it again.
LocationsAgree ==
    /\ \A j \in Chains : chains[j].phase = "sent" =>
           LocationOf(j).name \in {chains[j].directory.name, NoName}
    /\ \A j \in Chains : chains[j].phase = "mv" => LocationOf(j).name \notin Present
    /\ \A n \in Names : at[n] \in Packages \ Submitted =>
           /\ \A j \in Chains : chains[j].about = at[n] => LocationOf(j) = PathOf(n)
           /\ \A t, u \in Matching(PathOf(n)) : t = u
    /\ OneTransferPerPackage
=============================================================================
