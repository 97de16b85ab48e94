------------------------- MODULE MCTimestampAlignment -------------------------
(***************************************************************************)
(* Instances of TimestampAlignment for TLC.  A minute has two instants and *)
(* an hour two minutes, so that an offset can be no whole minute, a minute *)
(* that is not approved, or an hour; candles are shorter than the hour.    *)
(***************************************************************************)
EXTENDS TimestampAlignment, TLC

CONSTANTS M5, H1

TwoTimeframes == {M5, H1}
Lengths == (M5 :> 2) @@ (H1 :> 3)
SourceTimes == 0..1
BarEpochs == {1, 3, 4}
=============================================================================
