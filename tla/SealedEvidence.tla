---------------------------- MODULE SealedEvidence ----------------------------
(***************************************************************************)
(* What the evidence writers of the repository promise to a reader of      *)
(* their directory ("refusing to overwrite evidence"): the documents of a  *)
(* set appear in their order, each once and complete, all from one run of  *)
(* the command, and none is ever replaced.  A medium that is Lossy can     *)
(* damage a document, but never makes it another run's.                    *)
(***************************************************************************)
EXTENDS Naturals

CONSTANTS Last, Runs, Absent, Lossy

VARIABLE sealed

Documents == 1..Last

Sealed(r) == [by |-> r, whole |-> TRUE]

Init == sealed = [d \in Documents |-> Absent]

Seal(d, r) ==
    /\ sealed[d] = Absent
    /\ \A e \in 1..(d - 1) : sealed[e] # Absent /\ sealed[e].by = r
    /\ sealed' = [sealed EXCEPT ![d] = Sealed(r)]

Damage(lost) ==
    /\ Lossy
    /\ sealed' = [d \in Documents |->
                     IF d \in lost /\ sealed[d] # Absent
                     THEN [by |-> sealed[d].by, whole |-> FALSE]
                     ELSE sealed[d]]

Next ==
    \/ \E d \in Documents, r \in Runs : Seal(d, r)
    \/ \E lost \in SUBSET Documents : Damage(lost)

Spec == Init /\ [][Next]_sealed
=============================================================================
