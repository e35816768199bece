----------------------- MODULE MCTransferSubmission -------------------------
(* Calls of TransferSubmission for TLC: two retries of one submission, and a  *)
(* call that reuses their key with another payload.                           *)
EXTENDS TransferSubmissionInv

Calls == {"a1", "a2", "b"}
KeyOfCalls == [c \in Calls |-> "k"]
PayloadOfCalls == [a1 |-> "p", a2 |-> "p", b |-> "q"]

\* Without and with the errors that leave a row behind
SomeFaults == {{"create", "release", "complete"}, {"reload", "mark"}}
=============================================================================
