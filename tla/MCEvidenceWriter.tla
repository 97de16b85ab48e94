-------------------------- MODULE MCEvidenceWriter --------------------------
(***************************************************************************)
(* Instances of EvidenceWriter for TLC: the four documents of the stage,   *)
(* and two or three runs over the directory.                               *)
(***************************************************************************)
EXTENDS EvidenceWriter

CONSTANTS w1, w2, w3

TwoWriters   == {w1, w2}
ThreeWriters == {w1, w2, w3}
=============================================================================
