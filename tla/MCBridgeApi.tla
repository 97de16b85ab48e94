----------------------------- MODULE MCBridgeApi -----------------------------
(***************************************************************************)
(* Instances of BridgeApi for TLC: the one worker that the application     *)
(* starts, and up to three bars of two times, in any order, one of which   *)
(* may have a time or prices that are refused.                             *)
(***************************************************************************)
EXTENDS BridgeApi

CONSTANT t1

OneThread == {t1}
NoDiags   == {}

SomeBars ==
    UNION {{raw \in [1..n -> [time : 0..2, ok : BOOLEAN, serial : 1..n]] :
               \A i \in 1..n : raw[i].serial = i} : n \in 0..3}
=============================================================================
