-------------------------- MODULE ArrangementProofs --------------------------
(***************************************************************************)
(* What Picked takes from a sequence, for every sequence, finite set of    *)
(* positions and strict total order on them: it is the sequence itself     *)
(* along a list of the positions that holds each once, in the order.  That *)
(* there is such a list is counting and not induction: ranks are distinct  *)
(* and below the number of positions, so that every one is taken.          *)
(***************************************************************************)
EXTENDS Arrangement, FiniteSetTheorems, TLAPS

StrictOrder(P, order) ==
    /\ \A i \in P : <<i, i>> \notin order
    /\ \A i, j, k \in P : <<i, j>> \in order /\ <<j, k>> \in order => <<i, k>> \in order
    /\ \A i, j \in P : i # j => <<i, j>> \in order \/ <<j, i>> \in order

\* `at' lists the elements of P in the order, each once.
Lists(at, P, order) ==
    /\ at \in [1..Cardinality(P) -> P]
    /\ \A k, l \in 1..Cardinality(P) : k < l => <<at[k], at[l]>> \in order
    /\ \A i \in P : \E k \in 1..Cardinality(P) : at[k] = i

Along(s, at) == [k \in DOMAIN at |-> s[at[k]]]

-----------------------------------------------------------------------------
\* A part of a finite set that lacks an element of it is smaller.
LEMMA SmallerPart ==
    ASSUME NEW S, IsFiniteSet(S), NEW T \in SUBSET S, NEW x \in S, x \notin T
    PROVE  Cardinality(T) \in Nat /\ Cardinality(S) \in Nat /\ Cardinality(T) < Cardinality(S)
<1>1. IsFiniteSet(T) /\ Cardinality(T) <= Cardinality(S) /\ Cardinality(T) # Cardinality(S)
  BY FS_Subset
<1>2. Cardinality(T) \in Nat /\ Cardinality(S) \in Nat
  BY <1>1, FS_CardinalityType
<1> QED
  BY <1>1, <1>2

\* A rank is below the number of positions, and grows along the order.
LEMMA RankIncreases ==
    ASSUME NEW P, IsFiniteSet(P), NEW order, StrictOrder(P, order)
    PROVE  /\ \A i \in P : Rank(P, order, i) \in 0..(Cardinality(P) - 1)
           /\ \A i, j \in P : <<i, j>> \in order => Rank(P, order, i) < Rank(P, order, j)
<1> DEFINE Before(i) == {j \in P : <<j, i>> \in order}
<1>1. \A i : Before(i) \in SUBSET P /\ IsFiniteSet(Before(i))
  BY FS_Subset
<1>2. \A i \in P : i \notin Before(i)
  BY DEF StrictOrder
<1>3. ASSUME NEW i \in P, NEW j \in P, <<i, j>> \in order
      PROVE  Before(i) \in SUBSET Before(j) /\ i \in Before(j)
  BY <1>3 DEF StrictOrder
<1>4. \A i : Rank(P, order, i) = Cardinality(Before(i))
  BY DEF Rank
<1> HIDE DEF Before
<1>5. \A i \in P : Rank(P, order, i) \in 0..(Cardinality(P) - 1)
  <2> TAKE i \in P
  <2>1. /\ Cardinality(Before(i)) \in Nat /\ Cardinality(P) \in Nat
        /\ Cardinality(Before(i)) < Cardinality(P)
    BY <1>1, <1>2, SmallerPart
  <2> QED
    BY <1>4, <2>1
<1>6. ASSUME NEW i \in P, NEW j \in P, <<i, j>> \in order
      PROVE  Rank(P, order, i) < Rank(P, order, j)
  <2>1. Cardinality(Before(i)) < Cardinality(Before(j))
    BY <1>1, <1>2, <1>3, <1>6, SmallerPart
  <2> QED
    BY <1>4, <2>1
<1> QED
  BY <1>5, <1>6

\* Every number below the number of positions is a rank.
LEMMA RanksAreTaken ==
    ASSUME NEW P, IsFiniteSet(P), NEW order, StrictOrder(P, order),
           NEW k \in 0..(Cardinality(P) - 1)
    PROVE  \E i \in P : Rank(P, order, i) = k
<1> DEFINE n == Cardinality(P)
           ranks == {Rank(P, order, i) : i \in P}
           rank == [i \in P |-> Rank(P, order, i)]
<1>1. n \in Nat /\ IsFiniteSet(0..(n - 1)) /\ Cardinality(0..(n - 1)) = n
  BY FS_CardinalityType, FS_Interval
<1>2. ranks \in SUBSET (0..(n - 1))
  BY RankIncreases
<1>3. \A i, j \in P : Rank(P, order, i) = Rank(P, order, j) => i = j
  <2> SUFFICES ASSUME NEW i \in P, NEW j \in P, i # j
               PROVE  Rank(P, order, i) # Rank(P, order, j)
    OBVIOUS
  <2>1. <<i, j>> \in order \/ <<j, i>> \in order
    BY DEF StrictOrder
  <2>2. Rank(P, order, i) \in Int /\ Rank(P, order, j) \in Int
    BY RankIncreases
  <2> QED
    BY <2>1, <2>2, RankIncreases
<1>4. rank \in Bijection(P, ranks)
  BY <1>3 DEF Bijection, Injection, Surjection, IsInjective
<1>5. Cardinality(ranks) = n
  BY <1>4, FS_Bijection DEF ExistsBijection
<1>6. ranks = 0..(n - 1)
  BY <1>1, <1>2, <1>5, FS_Subset
<1> QED
  BY <1>6

\* What is picked is the sequence along such a list.
LEMMA PickedAlong ==
    ASSUME NEW s, NEW P, IsFiniteSet(P), NEW order, StrictOrder(P, order)
    PROVE  \E at : Lists(at, P, order) /\ Picked(s, P, order) = Along(s, at)
<1> DEFINE n == Cardinality(P)
           at == [k \in 1..n |-> CHOOSE i \in P : Rank(P, order, i) = k - 1]
           ranked == {<<Rank(P, order, i), s[i]>> : i \in P}
<1>1. n \in Nat
  BY FS_CardinalityType
<1>2. \A k \in 1..n : at[k] \in P /\ Rank(P, order, at[k]) = k - 1
  <2> TAKE k \in 1..n
  <2>1. k - 1 \in 0..(n - 1)
    BY <1>1
  <2>2. \E i \in P : Rank(P, order, i) = k - 1
    BY <2>1, RanksAreTaken
  <2> QED
    BY <2>2
<1>3. \A i, j \in P : Rank(P, order, i) = Rank(P, order, j) => i = j
  <2> SUFFICES ASSUME NEW i \in P, NEW j \in P, i # j
               PROVE  Rank(P, order, i) # Rank(P, order, j)
    OBVIOUS
  <2>1. <<i, j>> \in order \/ <<j, i>> \in order
    BY DEF StrictOrder
  <2>2. Rank(P, order, i) \in Int /\ Rank(P, order, j) \in Int
    BY RankIncreases
  <2> QED
    BY <2>1, <2>2, RankIncreases
<1> HIDE DEF at
<1>4. at \in [1..n -> P]
  BY <1>2 DEF at
<1>5. \A k, l \in 1..n : k < l => <<at[k], at[l]>> \in order
  <2> SUFFICES ASSUME NEW k \in 1..n, NEW l \in 1..n, k < l, <<at[k], at[l]>> \notin order
               PROVE  FALSE
    OBVIOUS
  <2>1. at[k] # at[l]
    BY <1>1, <1>2
  <2>2. <<at[l], at[k]>> \in order
    BY <1>2, <2>1 DEF StrictOrder
  <2>3. Rank(P, order, at[l]) < Rank(P, order, at[k])
    BY <1>2, <2>2, RankIncreases
  <2> QED
    BY <1>1, <1>2, <2>3
<1>6. \A i \in P : \E k \in 1..n : at[k] = i
  <2> TAKE i \in P
  <2>1. Rank(P, order, i) \in 0..(n - 1)
    BY RankIncreases
  <2>2. Rank(P, order, i) + 1 \in 1..n /\ (Rank(P, order, i) + 1) - 1 = Rank(P, order, i)
    BY <1>1, <2>1
  <2>3. at[Rank(P, order, i) + 1] = i
    BY <1>2, <1>3, <2>2
  <2> QED
    BY <2>2, <2>3
<1>7. \A k \in 1..n : (CHOOSE r \in ranked : r[1] = k - 1)[2] = s[at[k]]
  <2> TAKE k \in 1..n
  <2>1. <<Rank(P, order, at[k]), s[at[k]]>> \in ranked
    BY <1>2
  <2>2. \A r \in ranked : r[1] = k - 1 => r[2] = s[at[k]]
    BY <1>2, <1>3
  <2>3. \E r \in ranked : r[1] = k - 1
    BY <1>2, <2>1
  <2> HIDE DEF ranked
  <2> QED
    BY <2>2, <2>3
<1>8. Picked(s, P, order) = Along(s, at)
  BY <1>4, <1>7 DEF Picked, Along
<1> QED
  BY <1>4, <1>5, <1>6, <1>8 DEF Lists

\* Positions upwards are in a strict order.
LEMMA UpwardsIsStrict ==
    ASSUME NEW P \in SUBSET Nat
    PROVE  StrictOrder(P, Upwards(P))
BY DEF StrictOrder, Upwards

\* A part of a sequence: its elements at the positions P, upwards.
LEMMA SubsequenceAlong ==
    ASSUME NEW T, NEW s \in Seq(T), NEW P \in SUBSET DOMAIN s
    PROVE  \E at : /\ at \in [1..Cardinality(P) -> P]
                   /\ \A k, l \in 1..Cardinality(P) : k < l => at[k] < at[l]
                   /\ \A i \in P : \E k \in 1..Cardinality(P) : at[k] = i
                   /\ Subsequence(s, P) = Along(s, at)
<1>1. IsFiniteSet(P) /\ P \in SUBSET Nat
  <2>1. DOMAIN s = 1..Len(s) /\ Len(s) \in Nat
    OBVIOUS
  <2>2. IsFiniteSet(1..Len(s))
    BY <2>1, FS_Interval
  <2> QED
    BY <2>1, <2>2, FS_Subset
<1>2. PICK at : Lists(at, P, Upwards(P)) /\ Picked(s, P, Upwards(P)) = Along(s, at)
  BY <1>1, UpwardsIsStrict, PickedAlong
<1>3. \A k, l \in 1..Cardinality(P) : k < l => at[k] < at[l]
  BY <1>2 DEF Lists, Upwards
<1> QED
  BY <1>2, <1>3 DEF Lists, Subsequence

\* Elements and positions of a sequence.
LEMMA ElementType ==
    ASSUME NEW S, NEW s \in Seq(S), NEW i \in DOMAIN s
    PROVE  s[i] \in S /\ DOMAIN s = 1..Len(s) /\ Len(s) \in Nat /\ i \in Nat
OBVIOUS

\* A function on 1..n is a sequence.
LEMMA FunctionIsSequence ==
    ASSUME NEW S, NEW n \in Nat, NEW f \in [1..n -> S]
    PROVE  f \in Seq(S) /\ Len(f) = n
OBVIOUS

\* A sequence over a set is one over every larger set.
LEMMA SequenceOfMore ==
    ASSUME NEW S, NEW T, S \subseteq T, NEW s \in Seq(S)
    PROVE  s \in Seq(T)
<1>1. Len(s) \in Nat /\ s \in [1..Len(s) -> T]
  OBVIOUS
<1> QED
  BY <1>1, FunctionIsSequence

\* A sequence along a list of positions is one of the same type.
LEMMA AlongIsSequence ==
    ASSUME NEW T, NEW s \in Seq(T), NEW n \in Nat, NEW at \in [1..n -> DOMAIN s]
    PROVE  /\ Along(s, at) \in Seq(T) /\ Len(Along(s, at)) = n
           /\ DOMAIN Along(s, at) = 1..n
           /\ \A k \in 1..n : Along(s, at)[k] = s[at[k]]
<1>1. \A k \in 1..n : s[at[k]] \in T
  OBVIOUS
<1>2. Along(s, at) \in [1..n -> T]
  BY <1>1 DEF Along
<1>3. Along(s, at) \in Seq(T) /\ Len(Along(s, at)) = n
  BY <1>2
<1> QED
  BY <1>3 DEF Along

\* A set of positions that is not empty has a first and a last one.
LEMMA FirstAndLast ==
    ASSUME NEW n \in Nat, NEW P \in SUBSET (1..n), P # {}
    PROVE  /\ \E m \in P : \A i \in P : m <= i
           /\ \E m \in P : \A i \in P : i <= m
<1>1. IsFiniteSet(P) /\ Cardinality(P) \in Nat /\ P \in SUBSET Nat
  <2>1. IsFiniteSet(1..n)
    BY FS_Interval
  <2>2. IsFiniteSet(P)
    BY <2>1, FS_Subset
  <2> QED
    BY <2>2, FS_CardinalityType
<1>2. PICK at : Lists(at, P, Upwards(P))
  BY <1>1, UpwardsIsStrict, PickedAlong
<1>3. PICK c \in Nat : c = Cardinality(P)
  BY <1>1
<1>4. at \in [1..c -> P] /\ \A i \in P : \E k \in 1..c : at[k] = i
  BY <1>2, <1>3 DEF Lists
<1>5. \A k, l \in 1..c : k < l => at[k] < at[l]
  BY <1>2, <1>3 DEF Lists, Upwards
<1>6. c >= 1 /\ 1 \in 1..c /\ c \in 1..c
  <2>1. PICK i \in P : TRUE
    OBVIOUS
  <2>2. PICK k \in 1..c : at[k] = i
    BY <1>4, <2>1
  <2> QED
    BY <1>3, <2>2
<1>7. at[1] \in P /\ at[c] \in P
  BY <1>4, <1>6
<1>8. ASSUME NEW i \in P PROVE at[1] <= i /\ i <= at[c]
  <2>1. PICK k \in 1..c : at[k] = i
    BY <1>4
  <2>2. at[1] \in Nat /\ at[c] \in Nat /\ i \in Nat
    BY <1>1, <1>7, Zenon
  <2>3. k = 1 \/ 1 < k
    BY <1>3
  <2>4. k = c \/ k < c
    BY <1>3
  <2>5. at[1] <= i
    BY <1>5, <1>6, <2>1, <2>2, <2>3
  <2>6. i <= at[c]
    BY <1>5, <1>6, <2>1, <2>2, <2>4
  <2> QED
    BY <2>5, <2>6
<1> QED
  BY <1>7, <1>8
=============================================================================
