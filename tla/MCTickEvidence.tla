---------------------------- MODULE MCTickEvidence ----------------------------
(***************************************************************************)
(* Instances of TickEvidence for TLC: two runs of each command, of which   *)
(* one is enough where no second one can change what is asked.             *)
(***************************************************************************)
EXTENDS TickEvidence, TLC

CONSTANTS e1, e2, t1, t2, d1, d2

TwoExports    == {e1, e2}
TwoTickAudits == {t1, t2}
OneDealAudit  == {d1}

Symmetry == Permutations(TwoExports) \cup Permutations(TwoTickAudits)

\* A tick near but off the price, one with the price but far, one with both.
ThreeOutcomes == {
    [ticks |-> TRUE, near |-> TRUE, match |-> FALSE],
    [ticks |-> TRUE, near |-> FALSE, match |-> TRUE],
    [ticks |-> TRUE, near |-> TRUE, match |-> TRUE]}
=============================================================================
