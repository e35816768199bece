-------------------------- MODULE MCTransferArrival -------------------------
(* A scenario of TransferArrival for TLC: a user drops package "a", a      *)
(* client submits package "s"; no name is used twice.                      *)
EXTENDS TransferArrivalInv

MCNamesOf == [a |-> <<"n">>, s |-> <<"m">>]
=============================================================================
