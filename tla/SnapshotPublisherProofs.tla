----------------------- MODULE SnapshotPublisherProofs -----------------------
(***************************************************************************)
(* Proofs about SnapshotPublisher, for every period and every set of       *)
(* portfolios.  FullEveryPeriod is not inductive: ArchiveInv relates the   *)
(* number of increments to the cycle count, and keeps the cycle in which   *)
(* the archive is due a complete one until it has been confirmed.          *)
(***************************************************************************)
EXTENDS SnapshotPublisher, TLAPS

ArchiveInv ==
    /\ IF cycle = 0 THEN since < Period ELSE since < cycle
    /\ cycle = 0 /\ pc # "pause" => full

Inv == TypeOK /\ ArchiveInv

LEMMA InitInv == Init => Inv
<1> SUFFICES ASSUME Init PROVE Inv
  OBVIOUS
<1>1. TypeOK
  <2>1. full \in BOOLEAN /\ priced \in BOOLEAN /\ honest \in BOOLEAN
    BY Zenon DEF Init
  <2>2. cycle \in 0..(Period - 1) /\ since \in Nat
    BY PublisherAssumption DEF Init
  <2>3. positions \in Portfolios /\ pc \in Pcs
    BY PublisherAssumption DEF Init, Pcs
  <2>4. QED
    BY <2>1, <2>2, <2>3 DEF Init, TypeOK
<1>2. ArchiveInv
  BY PublisherAssumption DEF Init, ArchiveInv
<1>3. QED
  BY <1>1, <1>2 DEF Inv

\* The steps that read leave everything but pc, the answers and outcome alone.
LEMMA ReadStep ==
    ASSUME Inv,
           UNCHANGED <<full, cycle, since, portfolio, connected, backend, broker, supply,
                       relay, base>>,
           pc # "pause", pc' \in Pcs, positions' \in Portfolios, honest' \in BOOLEAN,
           priced' \in BOOLEAN,
           outcome' \in {"none", "accepted", "failed"}
    PROVE  Inv'
BY DEF Inv, TypeOK, ArchiveInv

LEMMA StepInv == Inv /\ [Next]_vars => Inv'
<1> SUFFICES ASSUME Inv, [Next]_vars PROVE Inv'
  OBVIOUS
<1> USE PublisherAssumption DEF bridge, server, read, vars, Goto, Throw, Ask
<1>1. CASE ReadHealth
  BY <1>1, ReadStep DEF ReadHealth, HealthAnswered, Pcs, Inv, TypeOK
<1>2. CASE ReadAccount
  BY <1>2, ReadStep DEF ReadAccount, AccountAnswered, Pcs, Inv, TypeOK
<1>3. CASE PositionsGate
  BY <1>3, ReadStep DEF PositionsGate, Pcs, Inv, TypeOK
<1>4. CASE ReadPositions
  BY <1>4, ReadStep DEF ReadPositions, Pcs, Inv, TypeOK
<1>5. CASE ReadTick \/ ReadInfo \/ ReadBars \/ ConvertPositions
  BY <1>5, ReadStep DEF ReadTick, ReadInfo, ReadBars, ConvertPositions, Pcs, Inv, TypeOK
<1>6. CASE ReadResearch
  BY <1>6, ReadStep DEF ReadResearch, Pcs, Inv, TypeOK
<1>7. CASE PostAccepted
  <2>1. CASE relay = "up"
    <3>1. since' = (IF full THEN 0 ELSE since + 1) /\ cycle' = Following(cycle)
      BY <1>7, <2>1 DEF PostAccepted, Confirmed
    <3>2. ArchiveInv'
      <4>1. pc' = "pause"
        BY <1>7, <2>1 DEF PostAccepted, Confirmed
      <4>2. CASE full
        BY <3>1, <4>1, <4>2 DEF Following, Inv, TypeOK, ArchiveInv
      <4>3. CASE ~full
        <5>1. cycle # 0 /\ since < cycle
          BY <1>7, <4>3 DEF PostAccepted, Inv, ArchiveInv
        <5>2. QED
          BY <3>1, <4>1, <4>3, <5>1 DEF Following, Inv, TypeOK, ArchiveInv
      <4>4. QED
        BY <4>2, <4>3
    <3>3. TypeOK'
      BY <1>7, <2>1, <3>1 DEF PostAccepted, Confirmed, Following, Inv, TypeOK, Pcs
    <3>4. QED
      BY <3>2, <3>3 DEF Inv
  <2>2. CASE relay # "up"
    BY <1>7, <2>2 DEF PostAccepted, Confirmed, Inv, TypeOK, ArchiveInv, Pcs
  <2>3. QED
    BY <2>1, <2>2
<1>8. CASE PostRefused
  BY <1>8 DEF PostRefused, Inv, TypeOK, ArchiveInv, Pcs
<1>9. CASE NextCycle
  BY <1>9 DEF NextCycle, Inv, TypeOK, ArchiveInv, Pcs
<1>10. CASE BridgeChanges
  BY <1>10 DEF BridgeChanges, Inv, TypeOK, ArchiveInv
<1>11. CASE RelayChanges
  BY <1>11 DEF RelayChanges, Inv, TypeOK, ArchiveInv
<1>12. CASE UNCHANGED vars
  BY <1>12 DEF Inv, TypeOK, ArchiveInv
<1>13. QED
  BY <1>1, <1>2, <1>3, <1>4, <1>5, <1>6, <1>7, <1>8, <1>9, <1>10, <1>11, <1>12 DEF Next, Step

\* Type correctness.
THEOREM TypeCorrect == Spec => []TypeOK
<1>1. Inv => TypeOK
  BY DEF Inv
<1>2. QED
  BY InitInv, StepInv, <1>1, PTL DEF Spec

\* For every period, the complete archive is confirmed once in each: a failed,
\* refused or unanswered publication never makes the worker skip it.
THEOREM ArchiveInTime == Spec => []FullEveryPeriod
<1>1. Inv => FullEveryPeriod
  BY PublisherAssumption DEF Inv, TypeOK, ArchiveInv, FullEveryPeriod
<1>2. QED
  BY InitInv, StepInv, <1>1, PTL DEF Spec
=============================================================================
