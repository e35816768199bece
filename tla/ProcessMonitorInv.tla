--------------------------- MODULE ProcessMonitorInv ---------------------------
(***************************************************************************)
(* The inductive invariant of ProcessMonitor: at most one request for the  *)
(* summaries and one for the jobs of each unit, and what is displayed,     *)
(* what a request read and what the server knows in the order of time.     *)
(***************************************************************************)
EXTENDS ProcessMonitor

\* isRefreshing tells that a request for the summaries is under way, and there
\* is never a second one.
OneRefresh ==
    /\ isRefreshing <=> refreshes # {}
    /\ \A r, s \in refreshes : r = s

\* loadingUnitGroupUuids tells the units with a request for their jobs under
\* way, and there is never a second one for a unit.
OneLoadPerUnit ==
    /\ loading = {r.unit : r \in loads}
    /\ \A r, s \in loads : r.unit = s.unit => r = s

\* The summaries displayed, those that were read since and what the server
\* would answer now.
SummariesInOrder ==
    /\ \A j \in Jobs : seen[j] <= Summary(status[j])
    /\ \A r \in refreshes : r.read =>
          \A j \in Jobs : UnitOf[j] \in r.said.units =>
              seen[j] <= r.said.seen[j] /\ r.said.seen[j] <= Summary(status[j])
    /\ \A r \in refreshes : \A j \in Jobs :
          UnitOf[j] \notin r.said.units => r.said.seen[j] = None

\* The jobs displayed, those that were read since and what the server knows.
RowsInOrder ==
    /\ \A j \in Jobs : rows[j] <= status[j]
    /\ \A r \in loads : \A j \in DOMAIN r.said :
          j \in Jobs /\ UnitOf[j] = r.unit
          /\ rows[j] <= r.said[j] /\ r.said[j] <= status[j]

\* All of it, the invariant every step keeps.
MonitorAgrees == OneRefresh /\ OneLoadPerUnit /\ SummariesInOrder /\ RowsInOrder
=============================================================================
