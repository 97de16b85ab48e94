----------------------------- MODULE Arrangement -----------------------------
(***************************************************************************)
(* What sorted(), list.sort(), a filter and a dict make of a sequence,     *)
(* without recursion: the k-th element taken from it is the one that k - 1 *)
(* others of those taken come before.  An order is a set of pairs of       *)
(* positions, so that a fact about it can be stated for all orders.        *)
(***************************************************************************)
EXTENDS Integers, Sequences, FiniteSets

Rank(P, order, i) == Cardinality({j \in P : <<j, i>> \in order})

\* The elements of s at the positions P, in the order.
Picked(s, P, order) ==
    LET ranked == {<<Rank(P, order, i), s[i]>> : i \in P}
    IN  [k \in 1..Cardinality(P) |-> (CHOOSE r \in ranked : r[1] = k - 1)[2]]

Upwards(P) == {p \in P \X P : p[1] < p[2]}

\* The elements of s at the positions P, where they were.
Subsequence(s, P) == Picked(s, P, Upwards(P))
=============================================================================
