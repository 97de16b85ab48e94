-------------------------- MODULE MCHistoryRecords --------------------------
(***************************************************************************)
(* Instances of HistoryRecords for TLC.  Three records per collection over *)
(* two identities and two copies give every pattern of duplicates; two     *)
(* timestamps and none give every tie.                                     *)
(***************************************************************************)
EXTENDS HistoryRecords

MCIds    == {1, 2}
MCCopies == {1, 2}
OneCopy  == {1}
MCTimes  == {1, 2}
MCLimits == {1, 2, 3}
=============================================================================
