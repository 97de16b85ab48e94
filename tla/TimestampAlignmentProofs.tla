----------------------- MODULE TimestampAlignmentProofs -----------------------
(***************************************************************************)
(* Theorems about TimestampAlignment, for any timeframes and any bounds on *)
(* ledger, bars and times: the lookup by bisection misses no candle, and a *)
(* certification decided by counting is one of the whole corpus.           *)
(***************************************************************************)
EXTENDS TimestampAlignment, ArrangementProofs

\* A set of naturals has a least element.
LEMMA LeastElement ==
    ASSUME NEW T \in SUBSET Nat, T # {}
    PROVE  \E m \in T : \A k \in T : m <= k
<1> DEFINE R == OpToRel(<, Nat)
<1>1. IsWellFoundedOn(R, Nat)
  BY NatLessThanWellFounded, Zenon
<1>2. \A x, y \in Nat : x < y => <<x, y>> \in R
  BY DEF OpToRel
<1> HIDE DEF R
<1>3. PICK m \in T : \A k \in T : ~(<<k, m>> \in R)
  BY <1>1, WFMin
<1>4. ASSUME NEW k \in T PROVE m <= k
  <2>1. k \in Nat /\ m \in Nat
    OBVIOUS
  <2>2. ~(k < m)
    BY <1>2, <1>3, <2>1, Zenon
  <2> QED
    BY <2>1, <2>2
<1> QED
  BY <1>4

\* Ascending epochs split at every event: the cut is the least place after which
\* all are later.
LEMMA SplitExists ==
    ASSUME NEW epochs \in Seq(Int), StrictlyAscending(epochs), NEW event \in Int
    PROVE  \E k \in 0..Len(epochs) : Splits(epochs, event, k)
<1> DEFINE T == {k \in 0..Len(epochs) : \A i \in (k + 1)..Len(epochs) : event < epochs[i]}
<1>1. Len(epochs) \in Nat /\ DOMAIN epochs = 1..Len(epochs)
  OBVIOUS
<1>2. T \in SUBSET Nat /\ Len(epochs) \in T
  BY <1>1
<1>3. PICK m \in T : \A k \in T : m <= k
  BY <1>2, LeastElement
<1>4. m \in 0..Len(epochs) /\ \A i \in (m + 1)..Len(epochs) : event < epochs[i]
  BY <1>3
<1>5. ASSUME NEW i \in 1..m PROVE epochs[i] <= event
  <2>1. m - 1 \in 0..Len(epochs) /\ m \in Int
    BY <1>1, <1>4, <1>5
  <2>2. m - 1 \notin T
    <3>1. ~(m <= m - 1)
      BY <2>1
    <3> QED
      BY <1>3, <3>1, Zenon
  <2>3. ~ \A j \in ((m - 1) + 1)..Len(epochs) : event < epochs[j]
    BY <2>1, <2>2, Zenon
  <2>4. PICK j \in ((m - 1) + 1)..Len(epochs) : ~(event < epochs[j])
    BY <2>3
  <2>5. j = m
    BY <1>1, <1>4, <2>1, <2>4
  <2>6. epochs[m] \in Int /\ epochs[i] \in Int /\ epochs[m] <= event
    BY <1>1, <1>4, <1>5, <2>4, <2>5
  <2>7. i = m \/ epochs[i] < epochs[m]
    BY <1>1, <1>4, <1>5 DEF StrictlyAscending
  <2> QED
    BY <2>6, <2>7
<1> QED
  BY <1>4, <1>5 DEF Splits

\* A bar holds an event from its epoch on, for its length.
Holds(epoch, length, event) == epoch <= event /\ event < epoch + length

\* bisect_right() leads to a candle if there is one: the only bar looked at ends
\* last of those that begin before the event.
LEMMA BisectionIsComplete ==
    ASSUME NEW epochs \in Seq(Int), StrictlyAscending(epochs),
           NEW event \in Int, NEW length \in Nat \ {0}
    PROVE  Contained(epochs, length, event) <=>
              \E i \in DOMAIN epochs : Holds(epochs[i], length, event)
<1> DEFINE index == BisectRight(epochs, event)
<1>1. DOMAIN epochs = 1..Len(epochs) /\ Len(epochs) \in Nat /\ \A i \in DOMAIN epochs : epochs[i] \in Int
  OBVIOUS
<1>2. index \in 0..Len(epochs) /\ Splits(epochs, event, index)
  BY SplitExists DEF BisectRight
<1> HIDE DEF index
<1>3. Contained(epochs, length, event) <=> index > 0 /\ Holds(epochs[index], length, event)
  BY DEF Contained, Holds, index
<1>4. ASSUME NEW i \in DOMAIN epochs, Holds(epochs[i], length, event)
      PROVE  index > 0 /\ Holds(epochs[index], length, event)
  <2>1. epochs[i] <= event /\ event < epochs[i] + length /\ i \in 1..Len(epochs)
    BY <1>1, <1>4 DEF Holds
  <2>2. ~(i \in (index + 1)..Len(epochs))
    BY <1>1, <1>2, <2>1 DEF Splits
  <2>3. i <= index /\ index \in 1..Len(epochs)
    BY <1>2, <2>1, <2>2
  <2>4. epochs[index] <= event
    BY <1>2, <2>3 DEF Splits
  <2>5. epochs[i] <= epochs[index]
    BY <1>1, <2>3 DEF StrictlyAscending
  <2> QED
    BY <1>1, <2>1, <2>3, <2>4, <2>5 DEF Holds
<1> QED
  BY <1>1, <1>2, <1>3, <1>4

\* Whole multiples are equal if their quotients are.
LEMMA EqualQuotients ==
    ASSUME NEW a \in Int, NEW b \in Int, NEW m \in Nat, m > 0,
           a % m = 0, b % m = 0, a \div m = b \div m
    PROVE  a = b
OBVIOUS

\* The accepted relations of the two clocks are those and no other.
LEMMA OffsetsAreApproved ==
    ASSUME NEW source \in Int, NEW broker \in Int, ApprovedOffset(source, broker)
    PROVE  broker - source \in {0, Hour}
<1> DEFINE d == broker - source
<1>1. Minute \in Nat /\ Minute > 0 /\ Hour \in Int /\ Hour % Minute = 0
  BY AlignmentAssumption DEF AlignmentAssumption
<1>2. d \in Int /\ d % Minute = 0 /\ d \div Minute \in {0, Hour \div Minute}
  BY DEF ApprovedOffset
<1>3. 0 % Minute = 0 /\ 0 \div Minute = 0
  BY <1>1
<1> HIDE DEF d
<1>4. d = 0 \/ d = Hour
  BY <1>1, <1>2, <1>3, EqualQuotients
<1> QED
  BY <1>4 DEF d

-----------------------------------------------------------------------------
\* The checks of one end: one of each timeframe, with the result of its lookup.
LEMMA ChecksOfAnEnd ==
    ASSUME NEW trade, NEW end, NEW event, NEW contained \in SUBSET Timeframes
    PROVE  LET new == ChecksOf(trade, end, event, contained) IN
           /\ \A c \in new :
                 /\ c.trade = trade /\ c.end = end /\ c.timeframe \in Timeframes
                 /\ c.aligned <=> Contained(series[c.timeframe], Length[c.timeframe], event)
                 /\ c.contained => c.aligned
           /\ \A f \in Timeframes : \E c \in new :
                 c.trade = trade /\ c.end = end /\ c.timeframe = f
           /\ IsFiniteSet(new) /\ Cardinality(new) = Cardinality(Timeframes)
<1> DEFINE new == ChecksOf(trade, end, event, contained)
           aligned(f) == Contained(series[f], Length[f], event)
           check(f) == [trade |-> trade, end |-> end, timeframe |-> f,
                        aligned |-> aligned(f), contained |-> f \in contained /\ aligned(f)]
           checkOf == [f \in Timeframes |-> check(f)]
<1>1. new = {check(f) : f \in Timeframes}
  BY DEF ChecksOf
<1> HIDE DEF new, aligned
<1>2. \A c \in new : \E f \in Timeframes : c = check(f)
  BY <1>1
<1>3. \A f \in Timeframes : check(f) \in new
  BY <1>1
<1>4. ASSUME NEW c \in new
      PROVE  /\ c.trade = trade /\ c.end = end /\ c.timeframe \in Timeframes
             /\ c.aligned <=> aligned(c.timeframe)
             /\ c.contained => c.aligned
  <2>1. PICK f \in Timeframes : c = check(f)
    BY <1>2
  <2>2. c.trade = trade /\ c.end = end /\ c.timeframe = f
    BY <2>1, Zenon
  <2>3. c.aligned = aligned(f) /\ c.contained = (f \in contained /\ aligned(f))
    BY <2>1, Zenon
  <2> QED
    BY <2>2, <2>3, Zenon
<1>5. \A f \in Timeframes : check(f).trade = trade /\ check(f).end = end /\ check(f).timeframe = f
  OBVIOUS
<1>6. ExistsBijection(Timeframes, new)
  <2>1. checkOf \in [Timeframes -> new]
    BY <1>3
  <2>2. \A f, g \in Timeframes : checkOf[f] = checkOf[g] => f = g
    BY <1>5
  <2>3. \A c \in new : \E f \in Timeframes : checkOf[f] = c
    BY <1>2
  <2> HIDE DEF checkOf
  <2>4. checkOf \in Injection(Timeframes, new)
    BY <2>1, <2>2 DEF Injection, IsInjective
  <2>5. checkOf \in Surjection(Timeframes, new)
    BY <2>1, <2>3 DEF Surjection
  <2> QED
    BY <2>4, <2>5 DEF ExistsBijection, Bijection
<1>7. IsFiniteSet(new) /\ Cardinality(new) = Cardinality(Timeframes)
  BY <1>6, FS_Bijection, AlignmentAssumption DEF AlignmentAssumption
<1> QED
  BY <1>3, <1>4, <1>5, <1>7 DEF new, aligned

\* A step of align() at an end of a trade, in one form for both ends.
EndStep(end, broker, contained) ==
    /\ pc = "align" /\ at.end = end /\ at.trade \in Trades
    /\ broker - ledger[at.trade][end] \in {0, Hour}
    /\ canonical' = Append(canonical, broker)
    /\ checks' = checks \cup ChecksOf(at.trade, end, broker, contained)
    /\ at' = [at EXCEPT !.end = IF end = "entry" THEN "exit" ELSE "record"]
    /\ UNCHANGED <<pc, ledger, series, unresolved, documents>>

LEMMA AlignStep ==
    ASSUME TypeOK, AlignEntry \/ AlignExit
    PROVE  \E end \in Ends, broker \in Int, contained \in SUBSET Timeframes :
              EndStep(end, broker, contained)
<1>1. ASSUME NEW end \in Ends, AlignEnd(end, IF end = "entry" THEN "exit" ELSE "record")
      PROVE  \E broker \in Int, contained \in SUBSET Timeframes : EndStep(end, broker, contained)
  <2> DEFINE source == ledger[at.trade][end]
  <2>1. at.trade \in Trades /\ source \in Int
    <3>1. at.trade \in DOMAIN ledger /\ ledger \in Seq([entry : Times, exit : Times])
      BY <1>1 DEF AlignEnd, TypeOK, Trades
    <3>2. ledger[at.trade] \in [entry : Times, exit : Times]
      BY <3>1, ElementType
    <3>3. source \in Times
      BY <3>2 DEF Ends
    <3> QED
      BY <3>1, <3>3, AlignmentAssumption DEF Trades, AlignmentAssumption
  <2>2. PICK broker \in {source + d : d \in (-1)..(Hour + 1)}, contained \in SUBSET Timeframes :
          /\ ApprovedOffset(source, broker)
          /\ canonical' = Append(canonical, broker)
          /\ checks' = checks \cup ChecksOf(at.trade, end, broker, contained)
    BY <1>1 DEF AlignEnd
  <2>3. broker \in Int
    BY <2>1, AlignmentAssumption DEF AlignmentAssumption
  <2>4. broker - source \in {0, Hour}
    BY <2>1, <2>2, <2>3, OffsetsAreApproved
  <2>5. EndStep(end, broker, contained)
    BY <1>1, <2>2, <2>4 DEF AlignEnd, EndStep
  <2> QED
    BY <2>3, <2>5
<1>2. CASE AlignEntry
  BY <1>1, <1>2 DEF AlignEntry, Ends
<1>3. CASE AlignExit
  BY <1>1, <1>3 DEF AlignExit, Ends
<1> QED
  BY <1>2, <1>3

\* The time that such a step appends is the next one.
LEMMA EndStepAppends ==
    ASSUME TypeOK, PositionInv, NEW end \in Ends, NEW broker \in Int,
           NEW contained \in SUBSET Timeframes, EndStep(end, broker, contained)
    PROVE  /\ Index(at.trade, end) = Len(canonical) + 1
           /\ canonical' \in Seq(Int) /\ Len(canonical') = Len(canonical) + 1
           /\ canonical'[Len(canonical) + 1] = broker
           /\ \A i \in DOMAIN canonical : canonical'[i] = canonical[i]
           /\ DOMAIN canonical = 1..Len(canonical) /\ DOMAIN canonical' = 1..(Len(canonical) + 1)
           /\ at.trade \in 1..Len(ledger) /\ Len(canonical) \in Nat /\ Len(ledger) \in Nat
           /\ at'.trade = at.trade /\ at'.end = IF end = "entry" THEN "exit" ELSE "record"
<1>1. canonical \in Seq(Int) /\ canonical' = Append(canonical, broker)
  BY DEF TypeOK, EndStep
<1>2. ledger \in Seq([entry : Times, exit : Times]) /\ at.trade \in DOMAIN ledger
  BY DEF TypeOK, EndStep, Trades
<1>3. at.trade \in 1..Len(ledger) /\ Len(ledger) \in Nat
  BY <1>2
<1>4. Index(at.trade, end) = Len(canonical) + 1
  BY <1>3 DEF Index, Found, PositionInv, EndStep, Ends
<1>5. at \in [trade : 1..(MaxTrades + 1), end : Ends \cup {"record"}]
  BY DEF TypeOK
<1>6. at'.trade = at.trade /\ at'.end = IF end = "entry" THEN "exit" ELSE "record"
  BY <1>5 DEF EndStep
<1> QED
  BY <1>1, <1>3, <1>4, <1>6

\* The ledger that is loaded has between one and MaxTrades trades.
LEMMA LedgerLoaded ==
    ASSUME LoadLedger
    PROVE  /\ ledger' \in Seq([entry : Times, exit : Times])
           /\ Len(ledger') \in Nat /\ Len(ledger') >= 1 /\ Len(ledger') <= MaxTrades
<1>1. PICK n \in 1..MaxTrades : ledger' \in [1..n -> [entry : Times, exit : Times]]
  BY DEF LoadLedger
<1>2. n \in Nat /\ n >= 1 /\ n <= MaxTrades
  BY AlignmentAssumption DEF AlignmentAssumption
<1>3. ledger' \in Seq([entry : Times, exit : Times]) /\ Len(ledger') = n
  BY <1>1, <1>2, FunctionIsSequence
<1> QED
  BY <1>2, <1>3

\* Where align() is, and how many times it has found.
LEMMA PositionKept ==
    ASSUME TypeOK, PositionInv, [Next]_vars
    PROVE  PositionInv'
<1> USE DEF PositionInv, Found, Trades
<1>0. /\ ledger \in Seq([entry : Times, exit : Times]) /\ canonical \in Seq(Int)
      /\ at \in [trade : 1..(MaxTrades + 1), end : Ends \cup {"record"}]
      /\ Len(ledger) \in Nat /\ DOMAIN ledger = 1..Len(ledger)
  BY DEF TypeOK
<1>1. CASE Raise
  BY <1>1 DEF Raise
<1>2. CASE LoadLedger
  <2>1. at = [trade |-> 1, end |-> "entry"] /\ at' = at
    BY <1>2 DEF LoadLedger
  <2>2. at'.trade = 1 /\ at'.end = "entry"
    BY <2>1
  <2> QED
    BY <1>0, <1>2, <2>1, <2>2, LedgerLoaded DEF LoadLedger
<1>3. ASSUME NEW f \in Timeframes, ReadBars(f) PROVE PositionInv'
  BY <1>3 DEF ReadBars
<1>4. CASE SourcesLoaded
  BY <1>4 DEF SourcesLoaded
<1>5. CASE AlignEntry \/ AlignExit
  <2>1. PICK end \in Ends, broker \in Int, contained \in SUBSET Timeframes :
          EndStep(end, broker, contained)
    BY <1>5, AlignStep
  <2> QED
    <3>1. /\ Len(canonical') = Len(canonical) + 1 /\ at.trade \in 1..Len(ledger)
          /\ at'.trade = at.trade /\ at'.end = IF end = "entry" THEN "exit" ELSE "record"
      BY <2>1, EndStepAppends
    <3>2. /\ pc = "align" /\ pc' = pc /\ ledger' = ledger /\ documents' = documents
          /\ at.end = end /\ end \in {"entry", "exit"}
      BY <2>1 DEF EndStep, Ends
    <3> QED
      BY <1>0, <3>1, <3>2
<1>6. CASE CloseRecord
  BY <1>0, <1>6 DEF CloseRecord
<1>7. CASE BuildDocuments
  BY <1>0, <1>7 DEF BuildDocuments, Ends
<1>8. CASE UNCHANGED vars
  BY <1>8 DEF vars
<1> QED
  BY <1>1, <1>2, <1>3, <1>4, <1>5, <1>6, <1>7, <1>8 DEF Next

\* The new checks are checks.
LEMMA NewChecksType ==
    ASSUME NEW trade \in 1..MaxTrades, NEW end \in Ends, NEW event,
           NEW contained \in SUBSET Timeframes
    PROVE  ChecksOf(trade, end, event, contained) \subseteq Checks
<1> SUFFICES ASSUME NEW c \in ChecksOf(trade, end, event, contained) PROVE c \in Checks
  OBVIOUS
<1>1. PICK f \in Timeframes :
        c = [trade |-> trade, end |-> end, timeframe |-> f,
             aligned |-> Contained(series[f], Length[f], event),
             contained |-> f \in contained /\ Contained(series[f], Length[f], event)]
  BY DEF ChecksOf
<1>2. Contained(series[f], Length[f], event) \in BOOLEAN
  BY DEF Contained
<1>3. (f \in contained /\ Contained(series[f], Length[f], event)) \in BOOLEAN
  BY Zenon
<1> QED
  BY <1>1, <1>2, <1>3, Zenon DEF Checks

LEMMA TypeKept ==
    ASSUME TypeOK, PositionInv, [Next]_vars
    PROVE  TypeOK'
<1> USE DEF TypeOK
<1>0. /\ Len(ledger) \in Nat /\ DOMAIN ledger = 1..Len(ledger) /\ MaxTrades \in Nat
      /\ at.trade \in Nat /\ canonical \in Seq(Int)
  BY AlignmentAssumption DEF AlignmentAssumption
<1>1. CASE Raise
  BY <1>1 DEF Raise
<1>2. CASE LoadLedger
  BY <1>2, LedgerLoaded DEF LoadLedger
<1>3. ASSUME NEW f \in Timeframes, ReadBars(f) PROVE TypeOK'
  <2>1. PICK n \in 1..MaxBars :
           \E epochs \in [1..n -> Epochs] : series' = [series EXCEPT ![f] = epochs]
    BY <1>3 DEF ReadBars
  <2>2. PICK epochs \in [1..n -> Epochs] : series' = [series EXCEPT ![f] = epochs]
    BY <2>1
  <2>5. n \in Nat
    BY AlignmentAssumption DEF AlignmentAssumption
  <2>3. epochs \in Seq(Epochs)
    BY <2>5, FunctionIsSequence
  <2>4. series' \in [Timeframes -> Seq(Epochs) \cup {None}]
    BY <2>2, <2>3
  <2> QED
    BY <1>3, <2>4 DEF ReadBars
<1>4. CASE SourcesLoaded
  BY <1>4 DEF SourcesLoaded
<1>5. CASE AlignEntry \/ AlignExit
  <2>1. PICK end \in Ends, broker \in Int, contained \in SUBSET Timeframes :
          EndStep(end, broker, contained)
    BY <1>5, AlignStep
  <2>2. /\ canonical' \in Seq(Int) /\ Len(canonical') = Len(canonical) + 1
        /\ at.trade \in 1..Len(ledger) /\ Index(at.trade, end) = Len(canonical) + 1
    BY <2>1, EndStepAppends
  <2>3. at.trade \in 1..MaxTrades /\ Len(canonical') <= 2 * MaxTrades
    <3>1. at.trade \in 1..MaxTrades
      BY <1>0, <2>2
    <3>2. Len(canonical) + 1 <= 2 * at.trade
      BY <1>0, <2>2 DEF Index
    <3> QED
      BY <1>0, <2>2, <3>1, <3>2
  <2>4. checks' \subseteq Checks
    BY <2>1, <2>3, NewChecksType DEF EndStep
  <2>5. at' \in [trade : 1..(MaxTrades + 1), end : Ends \cup {"record"}]
    BY <2>1 DEF EndStep, Ends
  <2> QED
    BY <2>1, <2>2, <2>3, <2>4, <2>5 DEF EndStep
<1>6. CASE CloseRecord
  <2>1. at.trade \in 1..MaxTrades
    BY <1>0, <1>6 DEF CloseRecord, PositionInv, Trades
  <2> QED
    <3>1. at' \in [trade : 1..(MaxTrades + 1), end : Ends \cup {"record"}]
      BY <1>0, <1>6, <2>1 DEF CloseRecord, Ends
    <3>2. unresolved' \subseteq 1..MaxTrades
      BY <1>6, <2>1 DEF CloseRecord
    <3> QED
      BY <1>6, <3>1, <3>2 DEF CloseRecord
<1>7. CASE BuildDocuments
  <2>1. Aligned \subseteq Checks /\ PriceContained \subseteq Checks
    BY DEF Aligned, PriceContained
  <2>2. TimestampCertified \in BOOLEAN
    BY Zenon DEF TimestampCertified
  <2>3. documents' \in Documents
    BY <1>7, <2>1, <2>2 DEF BuildDocuments, Documents
  <2> QED
    BY <1>7, <2>3 DEF BuildDocuments
<1>8. CASE UNCHANGED vars
  BY <1>8 DEF vars
<1> QED
  BY <1>1, <1>2, <1>3, <1>4, <1>5, <1>6, <1>7, <1>8 DEF Next

\* The bars that are looked up in are ascending.
LEMMA SeriesKept ==
    ASSUME TypeOK, SeriesInv, [Next]_vars
    PROVE  SeriesInv'
<1> USE DEF SeriesInv
<1>1. ASSUME NEW f \in Timeframes, ReadBars(f) PROVE SeriesInv'
  <2>1. \E epochs : StrictlyAscending(epochs) /\ series' = [series EXCEPT ![f] = epochs]
    BY <1>1 DEF ReadBars
  <2>2. pc = "sources" /\ pc' = pc /\ series \in [Timeframes -> Seq(Epochs) \cup {None}]
    BY <1>1 DEF ReadBars, TypeOK
  <2>3. ASSUME NEW g \in Timeframes, series'[g] # None PROVE StrictlyAscending(series'[g])
    BY <2>1, <2>2, <2>3
  <2> QED
    BY <2>2, <2>3
<1>2. CASE SourcesLoaded
  BY <1>2 DEF SourcesLoaded
<1>3. CASE Raise \/ LoadLedger \/ AlignEntry \/ AlignExit \/ CloseRecord \/ BuildDocuments
  BY <1>3 DEF Raise, LoadLedger, AlignEntry, AlignExit, AlignEnd, CloseRecord, BuildDocuments
<1>4. CASE UNCHANGED vars
  BY <1>4 DEF vars
<1> QED
  BY <1>1, <1>2, <1>3, <1>4 DEF Next

\* No two ends share their place among the canonical times.
LEMMA IndexInjective ==
    ASSUME NEW t \in Nat, NEW u \in Nat, NEW e \in Ends, NEW g \in Ends, t >= 1
    PROVE  Index(t, e) \in Nat /\ Index(t, e) >= 1 /\ (Index(t, e) = Index(u, g) => t = u /\ e = g)
BY DEF Index, Ends

\* Only the two approved shifts are ever applied.
LEMMA ShiftKept ==
    ASSUME TypeOK, PositionInv, ShiftInv, [Next]_vars
    PROVE  ShiftInv'
<1> USE DEF ShiftInv, Trades
<1>0. DOMAIN ledger = 1..Len(ledger) /\ Len(ledger) \in Nat /\ Len(canonical) \in Nat
  BY DEF TypeOK
<1>1. CASE LoadLedger
  <2>1. canonical' = canonical /\ Len(canonical) = 0
    BY <1>1 DEF LoadLedger, PositionInv, Found
  <2>2. DOMAIN ledger' = 1..Len(ledger')
    BY <1>1, LedgerLoaded
  <2>3. ASSUME NEW t \in DOMAIN ledger', NEW e \in Ends PROVE ~(Index(t, e) <= Len(canonical'))
    <3>1. t \in Nat /\ t >= 1
      BY <2>2, <1>1, LedgerLoaded
    <3> QED
      BY <2>1, <3>1, IndexInjective
  <2> QED
    BY <2>3
<1>2. CASE AlignEntry \/ AlignExit
  <2>1. PICK end \in Ends, broker \in Int, contained \in SUBSET Timeframes :
          EndStep(end, broker, contained)
    BY <1>2, AlignStep
  <2>2. /\ Index(at.trade, end) = Len(canonical) + 1 /\ Len(canonical') = Len(canonical) + 1
        /\ canonical'[Len(canonical) + 1] = broker
        /\ \A i \in DOMAIN canonical : canonical'[i] = canonical[i]
        /\ DOMAIN canonical = 1..Len(canonical) /\ at.trade \in 1..Len(ledger)
    BY <2>1, EndStepAppends
  <2>3. ledger' = ledger /\ broker - ledger[at.trade][end] \in {0, Hour}
    BY <2>1 DEF EndStep
  <2>4. ASSUME NEW t \in DOMAIN ledger, NEW e \in Ends, Index(t, e) <= Len(canonical')
        PROVE  canonical'[Index(t, e)] - ledger[t][e] \in {0, Hour}
    <3>0. t \in Nat /\ t >= 1 /\ at.trade \in Nat
      BY <1>0, <2>2
    <3>1. /\ Index(t, e) \in Nat /\ Index(t, e) >= 1
          /\ Index(t, e) = Index(at.trade, end) => t = at.trade /\ e = end
      BY <3>0, IndexInjective
    <3>2. CASE Index(t, e) <= Len(canonical)
      BY <2>2, <3>1, <3>2
    <3>3. CASE Index(t, e) = Len(canonical) + 1
      BY <2>2, <2>3, <3>1, <3>3
    <3> QED
      BY <1>0, <2>2, <2>4, <3>1, <3>2, <3>3
  <2> QED
    BY <2>3, <2>4
<1>3. ASSUME UNCHANGED <<ledger, canonical>> PROVE ShiftInv'
  BY <1>3
<1>4. CASE UNCHANGED vars
  BY <1>3, <1>4 DEF vars
<1> QED
  BY <1>1, <1>2, <1>3, <1>4 DEF Next, Raise, ReadBars, SourcesLoaded, CloseRecord, BuildDocuments

\* What has been checked is what the lookup says of the series.
LEMMA ResultsKept ==
    ASSUME TypeOK, PositionInv, SeriesInv, ResultsInv, [Next]_vars
    PROVE  ResultsInv'
<1> USE DEF ResultsInv
<1>1. CASE AlignEntry \/ AlignExit
  <2>1. PICK end \in Ends, broker \in Int, contained \in SUBSET Timeframes :
          EndStep(end, broker, contained)
    BY <1>1, AlignStep
  <2>2. /\ Index(at.trade, end) = Len(canonical) + 1 /\ canonical'[Len(canonical) + 1] = broker
        /\ \A i \in DOMAIN canonical : canonical'[i] = canonical[i]
        /\ DOMAIN canonical = 1..Len(canonical) /\ DOMAIN canonical' = 1..(Len(canonical) + 1)
        /\ Len(canonical) \in Nat
    BY <2>1, EndStepAppends
  <2>3. series' = series /\ \A f \in Timeframes : series[f] # None
    BY <2>1 DEF EndStep, SeriesInv
  <2> DEFINE new == ChecksOf(at.trade, end, broker, contained)
  <2>4. checks' = checks \cup new
    BY <2>1 DEF EndStep
  <2>5. \A c \in new :
           /\ c.trade = at.trade /\ c.end = end /\ c.timeframe \in Timeframes
           /\ c.aligned <=> Contained(series[c.timeframe], Length[c.timeframe], broker)
           /\ c.contained => c.aligned
    BY ChecksOfAnEnd
  <2> HIDE DEF new
  <2>6. ASSUME NEW c \in checks
        PROVE  /\ Index(c.trade, c.end) \in DOMAIN canonical'
               /\ canonical'[Index(c.trade, c.end)] = canonical[Index(c.trade, c.end)]
    BY <2>2
  <2>7. ASSUME NEW c \in new
        PROVE  /\ Index(c.trade, c.end) \in DOMAIN canonical'
               /\ canonical'[Index(c.trade, c.end)] = broker
    BY <2>2, <2>5
  <2> QED
    BY <2>3, <2>4, <2>5, <2>6, <2>7
<1>2. ASSUME NEW f \in Timeframes, ReadBars(f) PROVE ResultsInv'
  BY <1>2 DEF ReadBars, PositionInv
<1>3. ASSUME UNCHANGED <<series, canonical, checks>> PROVE ResultsInv'
  BY <1>3
<1>4. CASE UNCHANGED vars
  BY <1>3, <1>4 DEF vars
<1> QED
  BY <1>1, <1>2, <1>3, <1>4 DEF Next, Raise, LoadLedger, SourcesLoaded, CloseRecord, BuildDocuments

\* There are as many checks as timeframes for each time found, and no event lacks one.
LEMMA CoverageKept ==
    ASSUME TypeOK, PositionInv, ResultsInv, CoverageInv, [Next]_vars
    PROVE  CoverageInv'
<1> USE DEF CoverageInv
<1>1. CASE AlignEntry \/ AlignExit
  <2>1. PICK end \in Ends, broker \in Int, contained \in SUBSET Timeframes :
          EndStep(end, broker, contained)
    BY <1>1, AlignStep
  <2>2. /\ Index(at.trade, end) = Len(canonical) + 1 /\ Len(canonical') = Len(canonical) + 1
        /\ DOMAIN canonical = 1..Len(canonical) /\ DOMAIN canonical' = 1..(Len(canonical) + 1)
        /\ at.trade \in Nat /\ Len(canonical) \in Nat
    BY <2>1, EndStepAppends
  <2> DEFINE new == ChecksOf(at.trade, end, broker, contained)
  <2>3. checks' = checks \cup new
    BY <2>1 DEF EndStep
  <2>4. /\ \A c \in new : c.trade = at.trade /\ c.end = end
        /\ \A f \in Timeframes : \E c \in new : c.trade = at.trade /\ c.end = end /\ c.timeframe = f
        /\ IsFiniteSet(new) /\ Cardinality(new) = Cardinality(Timeframes)
    BY ChecksOfAnEnd
  <2> HIDE DEF new
  <2>5. ASSUME NEW t \in 1..MaxTrades, NEW e \in Ends, NEW f \in Timeframes,
               Index(t, e) \in DOMAIN canonical'
        PROVE  \E c \in checks' : c.trade = t /\ c.end = e /\ c.timeframe = f
    <3>1. t \in Nat /\ t >= 1
      BY AlignmentAssumption DEF AlignmentAssumption
    <3>2. Index(t, e) = Index(at.trade, end) => t = at.trade /\ e = end
      BY <2>2, <3>1, IndexInjective
    <3>3. CASE Index(t, e) \in DOMAIN canonical
      BY <2>3, <3>3
    <3>4. CASE Index(t, e) = Len(canonical) + 1
      BY <2>2, <2>3, <2>4, <3>2, <3>4
    <3> QED
      BY <2>2, <2>5, <3>3, <3>4
  <2>6. checks \cap new = {}
    <3>1. SUFFICES ASSUME NEW c \in checks, c \in new PROVE FALSE
      OBVIOUS
    <3>2. Index(c.trade, c.end) = Len(canonical) + 1
      BY <2>2, <2>4, <3>1
    <3>3. Index(c.trade, c.end) \in 1..Len(canonical)
      BY <2>2, <3>1 DEF ResultsInv
    <3> QED
      BY <2>2, <3>2, <3>3
  <2>7. /\ IsFiniteSet(checks')
        /\ Cardinality(checks') = Cardinality(checks) + Cardinality(Timeframes) - 0
    <3>1. /\ IsFiniteSet(checks \cup new)
          /\ Cardinality(checks \cup new) = Cardinality(checks) + Cardinality(new) - Cardinality(checks \cap new)
      BY <2>4, FS_Union
    <3>2. Cardinality(checks \cap new) = 0
      BY <2>6, FS_EmptySet
    <3> QED
      BY <2>3, <2>4, <3>1, <3>2
  <2>8. Cardinality(Timeframes) \in Nat
    BY FS_CardinalityType, AlignmentAssumption DEF AlignmentAssumption
  <2>9. Cardinality(checks') = Cardinality(Timeframes) * Len(canonical')
    <3>1. Cardinality(Timeframes) * (Len(canonical) + 1)
            = Cardinality(Timeframes) * Len(canonical) + Cardinality(Timeframes)
      BY <2>2, <2>8
    <3> QED
      BY <2>2, <2>7, <2>8, <3>1
  <2> QED
    BY <2>5, <2>7, <2>9
<1>2. ASSUME UNCHANGED <<canonical, checks>> PROVE CoverageInv'
  BY <1>2
<1>3. CASE UNCHANGED vars
  BY <1>2, <1>3 DEF vars
<1> QED
  BY <1>1, <1>2, <1>3
     DEF Next, Raise, LoadLedger, ReadBars, SourcesLoaded, CloseRecord, BuildDocuments

\* A record that has been left with a failed check is unresolved.
LEMMA RecordsKept ==
    ASSUME TypeOK, PositionInv, RecordsInv, [Next]_vars
    PROVE  RecordsInv'
<1> USE DEF RecordsInv
<1>0. at \in [trade : 1..(MaxTrades + 1), end : Ends \cup {"record"}] /\ checks \subseteq Checks
  BY DEF TypeOK
<1>1. CASE AlignEntry \/ AlignExit
  <2>1. PICK end \in Ends, broker \in Int, contained \in SUBSET Timeframes :
          EndStep(end, broker, contained)
    BY <1>1, AlignStep
  <2>2. at'.trade = at.trade /\ at.trade \in Nat /\ unresolved' = unresolved
    BY <2>1, EndStepAppends DEF EndStep
  <2>3. \A c \in checks' : c \in checks \/ c.trade = at.trade
    BY <2>1, ChecksOfAnEnd DEF EndStep
  <2> QED
    BY <2>2, <2>3
<1>2. CASE CloseRecord
  <2>1. at'.trade = at.trade + 1 /\ at.trade \in Int /\ checks' = checks
    BY <1>0, <1>2 DEF CloseRecord
  <2>2. \A c \in checks : c.trade \in Int
    BY <1>0 DEF Checks
  <2>3. ASSUME NEW c \in checks, c.trade < at'.trade, ~c.aligned PROVE c.trade \in unresolved'
    <3>1. CASE c.trade = at.trade
      BY <1>2, <2>3, <3>1 DEF CloseRecord, Failed
    <3>2. CASE c.trade < at.trade
      BY <1>2, <2>3, <3>2 DEF CloseRecord
    <3> QED
      BY <2>1, <2>2, <2>3, <3>1, <3>2
  <2> QED
    BY <2>1, <2>3
<1>3. ASSUME UNCHANGED <<at, checks, unresolved>> PROVE RecordsInv'
  BY <1>3
<1>4. CASE UNCHANGED vars
  BY <1>3, <1>4 DEF vars
<1> QED
  BY <1>1, <1>2, <1>3, <1>4
     DEF Next, Raise, LoadLedger, ReadBars, SourcesLoaded, BuildDocuments

\* The documents are the last thing to change.
LEMMA DocumentsKept ==
    ASSUME TypeOK, PositionInv, DocumentsInv, [Next]_vars
    PROVE  DocumentsInv'
<1>1. CASE BuildDocuments
  <2>1. /\ documents'.certified = TimestampCertified /\ documents'.unresolvedRecords = unresolved
        /\ documents'.timestampFailures = checks \ Aligned
        /\ documents'.priceExceptions = checks \ PriceContained
    BY <1>1, Zenon DEF BuildDocuments
  <2>2. UNCHANGED <<ledger, canonical, checks, unresolved>>
    BY <1>1 DEF BuildDocuments
  <2>3. TimestampCertified' = TimestampCertified /\ Aligned' = Aligned /\ PriceContained' = PriceContained
    BY <2>2 DEF TimestampCertified, CorpusIntegrity, Aligned, PriceContained
  <2> QED
    BY <2>1, <2>2, <2>3 DEF DocumentsInv
<1>2. CASE UNCHANGED vars
  <2>1. TimestampCertified' = TimestampCertified /\ Aligned' = Aligned /\ PriceContained' = PriceContained
    BY <1>2 DEF vars, TimestampCertified, CorpusIntegrity, Aligned, PriceContained
  <2> QED
    BY <1>2, <2>1 DEF vars, DocumentsInv
<1>3. ASSUME documents = None, documents' = documents PROVE DocumentsInv'
  BY <1>3 DEF DocumentsInv
<1>4. ASSUME pc # "built" PROVE documents = None
  BY <1>4 DEF PositionInv
<1> QED
  BY <1>1, <1>2, <1>3, <1>4 DEF Next, Raise, LoadLedger, ReadBars, SourcesLoaded,
     AlignEntry, AlignExit, AlignEnd, CloseRecord

-----------------------------------------------------------------------------
\* The inductive invariant.
THEOREM AuditInvariant == Spec => [](TypeOK /\ AuditInv)
<1>1. Init => TypeOK /\ AuditInv
  <2> SUFFICES ASSUME Init PROVE TypeOK /\ AuditInv
    OBVIOUS
  <2>1. /\ ledger = <<>> /\ canonical = <<>> /\ checks = {} /\ unresolved = {} /\ documents = None
        /\ pc = "ledger" /\ at.trade = 1 /\ at.end = "entry" /\ at = [trade |-> 1, end |-> "entry"]
        /\ series = [f \in Timeframes |-> None]
    BY DEF Init
  <2>2. Len(ledger) = 0 /\ Len(canonical) = 0 /\ MaxTrades \in Nat
    BY <2>1, AlignmentAssumption DEF AlignmentAssumption
  <2>3. TypeOK
    BY <2>1, <2>2 DEF TypeOK, Ends
  <2>4. PositionInv
    BY <2>1, <2>2 DEF PositionInv, Found
  <2>5. CoverageInv
    <3>1. Cardinality(Timeframes) \in Nat /\ IsFiniteSet({}) /\ Cardinality({}) = 0
      BY FS_CardinalityType, FS_EmptySet, AlignmentAssumption DEF AlignmentAssumption
    <3> QED
      BY <2>1, <2>2, <3>1 DEF CoverageInv
  <2> QED
    BY <2>1, <2>3, <2>4, <2>5 DEF AuditInv, SeriesInv, ShiftInv, ResultsInv, RecordsInv,
       DocumentsInv, Trades
<1>2. TypeOK /\ AuditInv /\ [Next]_vars => TypeOK' /\ AuditInv'
  BY TypeKept, PositionKept, SeriesKept, ShiftKept, ResultsKept, CoverageKept, RecordsKept,
     DocumentsKept DEF AuditInv
<1> QED
  BY <1>1, <1>2, PTL DEF Spec

\* Every variable of the audit stays in its type.
THEOREM AuditTypeCorrect == Spec => []TypeOK
BY AuditInvariant, PTL

\* No shift but the approved ones: what a trade's duration can be off by follows.
THEOREM OnlyApprovedShifts == Spec => []ShiftsAreApproved
<1>1. TypeOK /\ AuditInv => ShiftsAreApproved
  <2> SUFFICES ASSUME TypeOK, AuditInv, NEW t \in Trades, 2 * t <= Len(canonical)
               PROVE  LET in == EntryOf(t) - ledger[t].entry
                          out == ExitOf(t) - ledger[t].exit IN
                      /\ {in, out} \subseteq {0, Hour}
                      /\ ledger[t].entry <= ledger[t].exit /\ ExitOf(t) < EntryOf(t) =>
                            in = Hour /\ out = 0 /\ ledger[t].exit - ledger[t].entry < Hour
    BY DEF ShiftsAreApproved
  <2> DEFINE source == ledger[t]
             in == EntryOf(t) - source.entry
             out == ExitOf(t) - source.exit
  <2>1. t \in 1..Len(ledger) /\ Len(ledger) \in Nat /\ source \in [entry : Times, exit : Times]
    BY ElementType DEF TypeOK, Trades
  <2>2. t \in Nat /\ t >= 1 /\ canonical \in Seq(Int)
    BY <2>1 DEF TypeOK
  <2>3. Index(t, "entry") = 2 * t - 1 /\ Index(t, "exit") = 2 * t
    BY <2>2 DEF Index
  <2>4. EntryOf(t) \in Int /\ ExitOf(t) \in Int
    BY <2>2, ElementType DEF EntryOf, ExitOf
  <2>5. source.entry \in Int /\ source.exit \in Int /\ Hour \in Nat
    BY <2>1, AlignmentAssumption DEF AlignmentAssumption
  <2>6. \A e \in Ends : Index(t, e) <= Len(canonical) => canonical[Index(t, e)] - source[e] \in {0, Hour}
    BY DEF AuditInv, ShiftInv
  <2>7. in \in {0, Hour}
    <3>1. canonical[Index(t, "entry")] - source["entry"] \in {0, Hour}
      BY <2>2, <2>3, <2>6 DEF Ends
    <3> QED
      BY <2>3, <3>1, Zenon DEF EntryOf
  <2>8. out \in {0, Hour}
    <3>1. canonical[Index(t, "exit")] - source["exit"] \in {0, Hour}
      BY <2>2, <2>3, <2>6 DEF Ends
    <3> QED
      BY <2>3, <3>1, Zenon DEF ExitOf
  <2> QED
    BY <2>4, <2>5, <2>7, <2>8
<1> QED
  BY <1>1, AuditInvariant, PTL

\* A check is aligned exactly when some bar of its series holds its event.
LEMMA AlignedIffHeld ==
    ASSUME TypeOK, AuditInv, NEW c \in checks
    PROVE  c.aligned <=> \E i \in DOMAIN series[c.timeframe] :
              Holds(series[c.timeframe][i], Length[c.timeframe], EventOf(c.trade, c.end))
<1> DEFINE bars == series[c.timeframe]
           event == canonical[Index(c.trade, c.end)]
<1>1. c \in Checks /\ c.timeframe \in Timeframes /\ c.end \in Ends
  BY DEF TypeOK, Checks
<1>2. /\ Index(c.trade, c.end) \in DOMAIN canonical /\ bars # None
      /\ c.aligned <=> Contained(bars, Length[c.timeframe], event)
  BY DEF AuditInv, ResultsInv
<1>3. StrictlyAscending(bars)
  BY <1>1, <1>2 DEF AuditInv, SeriesInv
<1>4. bars \in Seq(Int)
  <2>1. bars \in Seq(Epochs)
    BY <1>1, <1>2 DEF TypeOK
  <2>2. Epochs \subseteq Int
    BY AlignmentAssumption DEF AlignmentAssumption
  <2> QED
    BY <2>1, <2>2, SequenceOfMore
<1>5. event \in Int
  BY <1>2, ElementType DEF TypeOK
<1>6. Length[c.timeframe] \in Nat \ {0}
  BY <1>1, AlignmentAssumption DEF AlignmentAssumption
<1>7. EventOf(c.trade, c.end) = event
  BY <1>1 DEF EventOf, EntryOf, ExitOf, Index, Ends, Checks
<1> QED
  BY <1>2, <1>3, <1>4, <1>5, <1>6, <1>7, BisectionIsComplete

\* Bisection misses no candle, whatever gaps the series have.
THEOREM NoCandleIsMissed == Spec => []AlignedMeansContained
<1>1. TypeOK /\ AuditInv => AlignedMeansContained
  BY AlignedIffHeld DEF AlignedMeansContained, Holds
<1> QED
  BY <1>1, AuditInvariant, PTL

\* Counting is enough: as many aligned checks as are expected are all there are,
\* and each event has one in every timeframe.
THEOREM CountingCertifiesTheCorpus == Spec => []CertifiedMeansWholeCorpus
<1>1. TypeOK /\ AuditInv => CertifiedMeansWholeCorpus
  <2> SUFFICES ASSUME TypeOK, AuditInv, documents # None, documents.certified
               PROVE  /\ Trades = 1..ExpectedTrades
                      /\ \A t \in Trades, end \in Ends, f \in Timeframes :
                            \E i \in DOMAIN series[f] : Holds(series[f][i], Length[f], EventOf(t, end))
    BY DEF CertifiedMeansWholeCorpus, Holds
  <2>1. /\ Len(ledger) = ExpectedTrades /\ Len(canonical) = 2 * ExpectedTrades
        /\ Cardinality(checks) = Cardinality(Aligned) /\ IsFiniteSet(checks)
    BY DEF AuditInv, DocumentsInv, TimestampCertified, CorpusIntegrity, CoverageInv
  <2>2. Aligned = checks
    BY <2>1, FS_Subset DEF Aligned
  <2>3. Trades = 1..Len(ledger) /\ Len(ledger) \in Nat /\ Len(ledger) <= MaxTrades
        /\ DOMAIN canonical = 1..Len(canonical) /\ MaxTrades \in Nat
    BY AlignmentAssumption DEF TypeOK, Trades, AlignmentAssumption
  <2>4. ASSUME NEW t \in Trades, NEW end \in Ends, NEW f \in Timeframes
        PROVE  \E i \in DOMAIN series[f] : Holds(series[f][i], Length[f], EventOf(t, end))
    <3>1. t \in 1..MaxTrades /\ Index(t, end) \in DOMAIN canonical
      BY <2>1, <2>3 DEF Index, Ends
    <3>2. PICK c \in checks : c.trade = t /\ c.end = end /\ c.timeframe = f
      BY <3>1 DEF AuditInv, CoverageInv
    <3>3. c.aligned
      BY <2>2 DEF Aligned
    <3> QED
      BY <3>2, <3>3, AlignedIffHeld
  <2> QED
    BY <2>1, <2>3, <2>4
<1> QED
  BY <1>1, AuditInvariant, PTL

\* The refusal of a corpus of the expected size has its reasons in the gap document.
THEOREM RefusalIsExplained == Spec => []GapExplainsRefusal
<1>1. TypeOK /\ AuditInv => GapExplainsRefusal
  <2> SUFFICES ASSUME TypeOK, AuditInv, documents # None PROVE GapExplainsRefusal
    BY DEF GapExplainsRefusal
  <2>1. /\ documents.certified = TimestampCertified /\ documents.unresolvedRecords = unresolved
        /\ documents.timestampFailures = checks \ Aligned
        /\ documents.priceExceptions = checks \ PriceContained
    BY DEF AuditInv, DocumentsInv
  <2>2. /\ Len(ledger) \in Nat /\ at.trade = Len(ledger) + 1 /\ at.end = "entry"
        /\ Len(canonical) = 2 * Len(ledger) /\ DOMAIN canonical = 1..Len(canonical)
    BY DEF AuditInv, PositionInv, Found, TypeOK, Trades
  <2>3. ASSUME NEW c \in checks \ Aligned PROVE c.trade \in unresolved
    <3>1. c.end \in Ends /\ c.trade \in Int
      BY DEF TypeOK, Checks
    <3>2. Index(c.trade, c.end) \in 1..(2 * Len(ledger))
      BY <2>2 DEF AuditInv, ResultsInv
    <3>3. c.trade < at.trade
      BY <2>2, <3>1, <3>2 DEF Index, Ends
    <3> QED
      BY <3>3 DEF AuditInv, RecordsInv, Aligned
  <2>4. checks \ Aligned \subseteq checks \ PriceContained
    BY DEF AuditInv, ResultsInv, Aligned, PriceContained
  <2>5. ASSUME ~TimestampCertified, Len(ledger) = ExpectedTrades PROVE checks \ Aligned # {}
    <3>1. Cardinality(Timeframes) \in Nat /\ ExpectedTrades \in Nat
      BY FS_CardinalityType, AlignmentAssumption DEF AlignmentAssumption
    <3>2. Cardinality(checks) = Cardinality(Timeframes) * (2 * ExpectedTrades)
      BY <2>2, <2>5 DEF AuditInv, CoverageInv
    <3>3. Cardinality(checks) = ExpectedChecks
      BY <3>1, <3>2 DEF ExpectedChecks
    <3>4. CorpusIntegrity
      BY <2>2, <2>5, <3>3 DEF CorpusIntegrity
    <3>5. Aligned # checks
      BY <2>5, <3>3, <3>4 DEF TimestampCertified
    <3> QED
      BY <3>5 DEF Aligned
  <2>6. checks \ Aligned # {} => unresolved # {}
    BY <2>3
  <2> QED
    BY <2>1, <2>3, <2>4, <2>5, <2>6 DEF GapExplainsRefusal
<1> QED
  BY <1>1, AuditInvariant, PTL
=============================================================================
