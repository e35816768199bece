---------------------------- MODULE MCProcessMonitor ---------------------------
(***************************************************************************)
(* ProcessMonitor for TLC: one unit with one decision and another job, on  *)
(* a page of either type, opened at any moment of theirs.                  *)
(* ProcessMonitorProofs proves the safety properties for any number of     *)
(* units and of decisions.                                                 *)
(***************************************************************************)
EXTENDS ProcessMonitorInv

CONSTANTS u, a

MCUnits == {u}
MCJobs == {a}
MCUnitOf == [j \in MCJobs |-> u]
MCTypes == {"Transfer", "SIP"}
=============================================================================
