------------------------ MODULE MCSnapshotPublisher ------------------------
(***************************************************************************)
(* Instances of SnapshotPublisher for TLC: a period of three has a full    *)
(* cycle, an increment after it and one before the next; two portfolios    *)
(* tell a real one from the empty list, and one that the script converts   *)
(* from one on which it stops.                                             *)
(***************************************************************************)
EXTENDS SnapshotPublisher

CONSTANTS empty, open

MCPortfolios == {empty, open}

MCUnreadable == {open}
MCReadable == {}
=============================================================================
