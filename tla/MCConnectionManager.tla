------------------------- MODULE MCConnectionManager -------------------------
(***************************************************************************)
(* Instances of ConnectionManager for TLC.  Two thread identities are      *)
(* enough to have a second worker while the first is still alive; a third  *)
(* one adds nothing, since a finished identity is used again.              *)
(***************************************************************************)
EXTENDS ConnectionManager

CONSTANTS t1, t2, d1

MCThreads == {t1, t2}
NoDiags   == {}
OneDiag   == {d1}
=============================================================================
