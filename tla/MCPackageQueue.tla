--------------------------- MODULE MCPackageQueue ---------------------------
(* Scenarios of PackageQueue for TLC.  Jobs and packages are strings; the  *)
(* job named "none" is NoJob.                                              *)
EXTENDS PackageQueueInv, TLC

WorkerSymmetry == Permutations(Workers)
None == {}

\* Chains: a transfer of two jobs and a SIP that stops at a decision; both lie
\* in watched directories, or the transfer is created by a client.
ChainsJobs == {"a1", "a2", "b1", "b2"}
ChainsPackages == {"A", "B"}
ChainsPackageOf == [a1 |-> "A", a2 |-> "A", b1 |-> "B", b2 |-> "B"]
ChainsTypeOf ==
    [a1 |-> "Transfer", a2 |-> "Transfer", b1 |-> "SIP", b2 |-> "SIP"]
ChainsKindOf ==
    [a1 |-> "script", a2 |-> "done", b1 |-> "decision", b2 |-> "failed"]
ChainsNextOf == [a1 |-> "a2", a2 |-> "none", b1 |-> "b2", b2 |-> "none"]
ChainsDropsOf == [j \in ChainsJobs |-> {}]
ChainsArrivals == {"a1", "b1"}
ChainsWatched == {"b1"}
ChainsCreated == {"a1"}
ChainsMayRaise == {"a1", "a2"}

\* Burst: packages of every type, one with a decision; two transfers share a
\* queue, and one of them is created by a client.
BurstJobs == {"a1", "b1", "c1", "c2", "d1"}
BurstPackages == {"A", "B", "C", "D"}
BurstPackageOf == [a1 |-> "A", b1 |-> "B", c1 |-> "C", c2 |-> "C", d1 |-> "D"]
BurstTypeOf ==
    [a1 |-> "Transfer", b1 |-> "Transfer", c1 |-> "SIP", c2 |-> "SIP", d1 |-> "DIP"]
BurstKindOf ==
    [a1 |-> "done", b1 |-> "done", c1 |-> "decision", c2 |-> "done", d1 |-> "done"]
BurstNextOf ==
    [a1 |-> "none", b1 |-> "none", c1 |-> "c2", c2 |-> "none", d1 |-> "none"]
BurstDropsOf == [j \in BurstJobs |-> {}]
BurstArrivals == {"a1", "c1", "d1"}
BurstSubmissions == {"b1"}

\* Handoff: the script of a SIP leaves a DIP with the same UUID in a watched
\* directory and the SIP goes on; the SIP then moves itself to a watched
\* directory, which ends its chain without ending the package.  Either script may
\* raise, before or after it has moved its packages.
HandoffJobs == {"s1", "s2", "s3", "d1", "d2"}
HandoffPackages == {"S"}
HandoffPackageOf == [j \in HandoffJobs |-> "S"]
HandoffTypeOf ==
    [s1 |-> "SIP", s2 |-> "SIP", s3 |-> "SIP", d1 |-> "DIP", d2 |-> "DIP"]
HandoffKindOf ==
    [s1 |-> "script", s2 |-> "script", s3 |-> "done", d1 |-> "decision", d2 |-> "done"]
HandoffNextOf ==
    [s1 |-> "s2", s2 |-> "none", s3 |-> "none", d1 |-> "d2", d2 |-> "none"]
HandoffDropsOf ==
    [s1 |-> {"d1"}, s2 |-> {"s3"}, s3 |-> {}, d1 |-> {}, d2 |-> {}]
HandoffArrivals == {"s1"}
HandoffMayRaise == {"s1", "s2"}
=============================================================================
