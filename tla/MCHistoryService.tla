-------------------------- MODULE MCHistoryService --------------------------
(***************************************************************************)
(* Instances of HistoryService for TLC.  What one request leaves behind is *)
(* one error, so three requests in a row show all there is to see.         *)
(***************************************************************************)
EXTENDS HistoryService

CONSTANTS q1, q2, q3

MCRequests == {q1, q2, q3}
=============================================================================
