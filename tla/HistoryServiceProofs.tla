------------------------ MODULE HistoryServiceProofs ------------------------
(***************************************************************************)
(* Proofs about both models of get_history().                              *)
(*                                                                         *)
(* HistoryService, for any set of requests that run one at a time: the     *)
(* invariant says, for each stage of a request, what the last error is     *)
(* compared with the one it has seen before: errors only get newer         *)
(* (Shape), and nobody else records one meanwhile (Alone).                 *)
(*                                                                         *)
(* HistoryRecords, for any records, limits and page size: the invariant    *)
(* says what each stage of the pipeline has established (RecordsInv).      *)
(***************************************************************************)
EXTENDS HistoryService, HistoryRecords, ArrangementProofs

Shape ==
    /\ connected \in BOOLEAN /\ clock \in Nat
    /\ lastError \in [code : Codes \cup {"none"}, at : Nat] /\ lastError.at <= clock
    /\ lastError.code = "none" => lastError = NoError
    /\ pc \in [Requests -> {"idle", "before", "check", "client", "after", "done"}]
    /\ part \in [Requests -> Parts]
    /\ before \in [Requests -> [code : Codes \cup {"none"}, at : Nat]]
    /\ fates \in [Requests -> SUBSET Fates]
    /\ response \in [Requests -> {"none", "refused", "failed", "history"}]

Alone == \A q, r \in Requests : Running(q) /\ Running(r) => q = r

\* What request r knows.
Knows(r) ==
    /\ pc[r] # "done" => response[r] = "none"
    /\ pc[r] \in {"idle", "before", "check", "client"} => "raised" \notin fates[r]
    /\ pc[r] \in {"check", "client"} => before[r] = lastError
    /\ pc[r] = "after" =>
          IF "raised" \in fates[r]
          THEN lastError.code = part[r] /\ (before[r] = NoError \/ before[r].at < lastError.at)
          ELSE lastError = before[r] \/ lastError.code = "other"
    /\ response[r] = "history" => "raised" \notin fates[r]
    /\ response[r] = "failed" => "raised" \in fates[r]

Inv == Shape /\ Alone /\ \A r \in Requests : Knows(r)

LEMMA InitInv == Init => Inv
<1> SUFFICES ASSUME Init PROVE Inv
  OBVIOUS
<1>1. Shape
  BY DEF Init, Shape, NoError, Parts, Codes
<1>2. Alone
  BY DEF Init, Alone, Running
<1>3. \A r \in Requests : Knows(r)
  BY DEF Init, Knows
<1>4. QED
  BY <1>1, <1>2, <1>3 DEF Inv

LEMMA StepShape == Shape /\ [Next]_vars => Shape'
<1> SUFFICES ASSUME Shape, [Next]_vars PROVE Shape'
  OBVIOUS
<1> USE DEF Shape, Goto, manager, Parts, Codes
<1>1. ASSUME NEW r \in Requests, Begin(r) PROVE Shape'
  BY <1>1 DEF Begin, Respond
<1>2. ASSUME NEW r \in Requests, ReadBefore(r) PROVE Shape'
  BY <1>2 DEF ReadBefore
<1>3. ASSUME NEW r \in Requests, CheckReady(r) PROVE Shape'
  BY <1>3 DEF CheckReady, Fated, Fates
<1>4. ASSUME NEW r \in Requests, Fetch(r) PROVE Shape'
  BY <1>4 DEF Fetch, Fated, Fates
<1>5. ASSUME NEW r \in Requests, ReadAfter(r) PROVE Shape'
  BY <1>5 DEF ReadAfter, Respond
<1>6. CASE ConnectionChanges
  BY <1>6 DEF ConnectionChanges
<1>7. CASE OtherError
  BY <1>7 DEF OtherError
<1>8. CASE UNCHANGED vars
  BY <1>8 DEF vars
<1>9. QED
  BY <1>1, <1>2, <1>3, <1>4, <1>5, <1>6, <1>7, <1>8 DEF Next, Request

LEMMA StepAlone == ASSUME Undisturbed PROVE Shape /\ Alone /\ [Next]_vars => Alone'
<1> SUFFICES ASSUME Shape, Alone, [Next]_vars PROVE Alone'
  OBVIOUS
<1> USE DEF Shape, Alone, Running, Goto
<1>1. ASSUME NEW r \in Requests, Begin(r) PROVE Alone'
  BY <1>1 DEF Begin, Respond
<1>2. ASSUME NEW r \in Requests, ReadBefore(r) \/ CheckReady(r) \/ Fetch(r) \/ ReadAfter(r)
      PROVE Alone'
  <2>1. Running(r) /\ \A q \in Requests \ {r} : pc'[q] = pc[q]
    BY <1>2 DEF ReadBefore, CheckReady, Fetch, ReadAfter, Respond
  <2>2. QED
    BY <2>1
<1>3. CASE ConnectionChanges \/ OtherError \/ UNCHANGED vars
  BY <1>3 DEF ConnectionChanges, OtherError, vars
<1>4. QED
  BY <1>1, <1>2, <1>3 DEF Next, Request

\* A request that is not going on does not look at the last error.
LEMMA OthersKnow ==
    ASSUME NEW q \in Requests, Knows(q), ~Running(q) \/ lastError' = lastError,
           pc'[q] = pc[q], part'[q] = part[q], before'[q] = before[q],
           fates'[q] = fates[q], response'[q] = response[q]
    PROVE  Knows(q)'
BY DEF Knows, Running

LEMMA StepKnows ==
    ASSUME Undisturbed PROVE Inv /\ [Next]_vars => \A r \in Requests : Knows(r)'
<1> SUFFICES ASSUME Inv, [Next]_vars PROVE \A r \in Requests : Knows(r)'
  OBVIOUS
<1> USE DEF Inv, Shape, Goto, manager
<1>1. ASSUME NEW r \in Requests, Request(r) PROVE \A q \in Requests : Knows(q)'
  <2>1. ASSUME NEW q \in Requests, q # r PROVE Knows(q)'
    <3>1. ~Running(q) \/ lastError' = lastError
      <4>1. Running(r) \/ lastError' = lastError
        BY <1>1 DEF Request, Begin, ReadBefore, CheckReady, Fetch, ReadAfter, Running
      <4>2. QED
        BY <2>1, <4>1 DEF Alone
    <3>2. /\ pc'[q] = pc[q] /\ part'[q] = part[q] /\ before'[q] = before[q]
          /\ fates'[q] = fates[q] /\ response'[q] = response[q]
      BY <1>1, <2>1 DEF Request, Begin, ReadBefore, CheckReady, Fetch, ReadAfter, Respond, Fated
    <3>3. QED
      BY <3>1, <3>2, OthersKnow
  <2>2. Knows(r)'
    <3>1. CASE Begin(r)
      BY <3>1 DEF Begin, Respond, Knows
    <3>2. CASE ReadBefore(r)
      BY <3>2 DEF ReadBefore, Knows
    <3>3. CASE CheckReady(r)
      BY <3>3 DEF CheckReady, Fated, Knows
    <3>4. CASE Fetch(r)
      <4>1. PICK fate \in {"answered", "swallowed", "raised"} :
               /\ fates' = [fates EXCEPT ![r] = @ \cup {fate}]
               /\ lastError' = IF fate = "raised" THEN [code |-> part[r], at |-> clock + 1]
                                                  ELSE lastError
        BY <3>4 DEF Fetch, Fated
      <4>2. "raised" \in fates'[r] <=> fate = "raised"
        BY <3>4, <4>1 DEF Fetch, Knows
      <4>3. before[r] = lastError /\ before'[r] = before[r] /\ part'[r] = part[r]
        BY <3>4 DEF Fetch, Knows
      <4>4. pc'[r] = "after" /\ response'[r] = "none"
        BY <3>4 DEF Fetch, Knows
      <4>5. CASE fate = "raised"
        <5>1. lastError'.code = part[r] /\ lastError'.at = clock + 1
          BY <4>1, <4>5
        <5>2. before[r].at < lastError'.at
          BY <4>3, <5>1
        <5>3. QED
          BY <4>2, <4>3, <4>4, <4>5, <5>1, <5>2 DEF Knows
      <4>6. CASE fate # "raised"
        BY <4>1, <4>2, <4>3, <4>4, <4>6 DEF Knows
      <4>7. QED
        BY <4>5, <4>6
    <3>5. CASE ReadAfter(r)
      <4>1. ErrorChanged(r) <=> "raised" \in fates[r]
        BY <3>5 DEF ReadAfter, ErrorChanged, Knows, Parts, NoError
      <4>2. QED
        BY <3>5, <4>1 DEF ReadAfter, Respond, Knows
    <3>6. QED
      BY <1>1, <3>1, <3>2, <3>3, <3>4, <3>5 DEF Request
  <2>3. QED
    BY <2>1, <2>2
<1>2. CASE ConnectionChanges
  BY <1>2, OthersKnow DEF ConnectionChanges
<1>3. CASE OtherError
  BY <1>3, OthersKnow DEF OtherError
<1>4. CASE UNCHANGED vars
  BY <1>4, OthersKnow DEF vars
<1>5. QED
  BY <1>1, <1>2, <1>3, <1>4 DEF Next

LEMMA Invariance == ASSUME Undisturbed PROVE Spec => []Inv
<1>1. Inv /\ [Next]_vars => Inv'
  BY StepShape, StepAlone, StepKnows DEF Inv
<1>2. QED
  BY InitInv, <1>1, PTL DEF Spec

\* However many requests have been made, an exception that the manager recorded
\* for a fetch fails the request it was made for.
THEOREM FailuresAreNotHidden == ASSUME Undisturbed PROVE Spec => []RaisedFailuresSurface
<1>1. Inv => RaisedFailuresSurface
  BY DEF Inv, Knows, RaisedFailuresSurface
<1>2. QED
  BY Invariance, <1>1, PTL

\* And none is failed by an error that an earlier one has left.
THEOREM OldErrorsAreIgnored == ASSUME Undisturbed PROVE Spec => []NoFalseAlarm
<1>1. Inv => NoFalseAlarm
  BY DEF Inv, Knows, NoFalseAlarm
<1>2. QED
  BY Invariance, <1>1, PTL

-----------------------------------------------------------------------------
(***************************************************************************)
(* Types.  The clock, and with it the times of errors, is bounded by the   *)
(* fetches made: at most two for each request.                             *)
(***************************************************************************)
DealsMade  == {r \in Requests : part[r] = "orders" \/ pc[r] \in {"after", "done"}}
OrdersMade == {r \in Requests : part[r] = "orders" /\ pc[r] \in {"after", "done"}}

FetchesCounted == clock <= Cardinality(DealsMade) + Cardinality(OrdersMade)

Recorded(time) == {NoError} \cup [code : Codes, at : 0..time]

ErrorsRecorded ==
    lastError \in Recorded(clock) /\ \A r \in Requests : before[r] \in Recorded(clock)

TypeInv == Shape /\ FetchesCounted /\ ErrorsRecorded

LEMMA SizesAreNumbers ==
    ASSUME NEW S \in SUBSET Requests
    PROVE  IsFiniteSet(S) /\ Cardinality(S) \in Nat /\ Cardinality(S) <= Cardinality(Requests)
BY RequestsAssumption, FS_Subset, FS_CardinalityType

LEMMA LargerSets ==
    ASSUME NEW S \in SUBSET Requests, NEW T \in SUBSET S
    PROVE  Cardinality(T) <= Cardinality(S)
BY SizesAreNumbers, FS_Subset

LEMMA InitTypes == Init => TypeInv
<1> SUFFICES ASSUME Init PROVE TypeInv
  OBVIOUS
<1>1. Shape
  BY InitInv DEF Inv
<1>2. FetchesCounted
  <2>1. Cardinality(DealsMade) \in Nat /\ Cardinality(OrdersMade) \in Nat
    BY SizesAreNumbers DEF DealsMade, OrdersMade
  <2>2. QED
    BY <2>1 DEF Init, FetchesCounted
<1>3. ErrorsRecorded
  BY DEF Init, ErrorsRecorded, Recorded
<1>4. QED
  BY <1>1, <1>2, <1>3 DEF TypeInv

\* Nobody goes back behind a fetch that was made.
LEMMA FetchesStay ==
    ASSUME Shape, [Next]_vars
    PROVE  DealsMade \subseteq DealsMade' /\ OrdersMade \subseteq OrdersMade'
<1> USE DEF Shape, DealsMade, OrdersMade, Goto
<1>1. ASSUME NEW r \in Requests, Request(r)
      PROVE  DealsMade \subseteq DealsMade' /\ OrdersMade \subseteq OrdersMade'
  <2>1. CASE Begin(r) \/ ReadBefore(r) \/ CheckReady(r) \/ Fetch(r)
    BY <2>1 DEF Begin, ReadBefore, CheckReady, Fetch, Respond, manager
  <2>2. CASE ReadAfter(r)
    BY <2>2 DEF ReadAfter, Respond, Parts
  <2>3. QED
    BY <1>1, <2>1, <2>2 DEF Request
<1>2. QED
  BY <1>1 DEF Next, ConnectionChanges, OtherError, vars

LEMMA FetchCounts ==
    ASSUME Shape, NEW r \in Requests, Fetch(r)
    PROVE  \/ r \notin DealsMade /\ DealsMade' = DealsMade \cup {r} /\ OrdersMade' = OrdersMade
           \/ r \notin OrdersMade /\ OrdersMade' = OrdersMade \cup {r} /\ DealsMade' = DealsMade
<1>1. /\ pc[r] = "client" /\ pc' = [pc EXCEPT ![r] = "after"] /\ part' = part
      /\ part[r] \in {"deals", "orders"}
  BY DEF Fetch, Goto, Shape, Parts
<1>2. CASE part[r] = "deals"
  BY <1>1, <1>2 DEF DealsMade, OrdersMade, Shape
<1>3. CASE part[r] = "orders"
  BY <1>1, <1>3 DEF DealsMade, OrdersMade, Shape
<1>4. QED
  BY <1>1, <1>2, <1>3

LEMMA StepCounted == TypeInv /\ [Next]_vars => FetchesCounted'
<1> SUFFICES ASSUME TypeInv, [Next]_vars PROVE FetchesCounted'
  OBVIOUS
<1>1. /\ DealsMade \in SUBSET Requests /\ OrdersMade \in SUBSET Requests
      /\ DealsMade' \in SUBSET Requests /\ OrdersMade' \in SUBSET Requests
  BY DEF DealsMade, OrdersMade
<1>2. /\ Cardinality(DealsMade) \in Nat /\ Cardinality(DealsMade') \in Nat
      /\ Cardinality(OrdersMade) \in Nat /\ Cardinality(OrdersMade') \in Nat
  BY <1>1, SizesAreNumbers
<1>3. ASSUME NEW r \in Requests, Fetch(r) PROVE FetchesCounted'
  <2>1. clock \in Nat /\ clock' = clock + 1
    BY <1>3 DEF Fetch, TypeInv, Shape
  <2>2. CASE r \notin DealsMade /\ DealsMade' = DealsMade \cup {r} /\ OrdersMade' = OrdersMade
    <3>1. Cardinality(DealsMade') = Cardinality(DealsMade) + 1
      BY <1>1, <2>2, SizesAreNumbers, FS_AddElement
    <3>2. QED
      BY <1>2, <2>1, <2>2, <3>1 DEF TypeInv, FetchesCounted
  <2>3. CASE r \notin OrdersMade /\ OrdersMade' = OrdersMade \cup {r} /\ DealsMade' = DealsMade
    <3>1. Cardinality(OrdersMade') = Cardinality(OrdersMade) + 1
      BY <1>1, <2>3, SizesAreNumbers, FS_AddElement
    <3>2. QED
      BY <1>2, <2>1, <2>3, <3>1 DEF TypeInv, FetchesCounted
  <2>4. QED
    BY <1>3, <2>2, <2>3, FetchCounts DEF TypeInv
<1>4. CASE clock' = clock
  <2>1. Cardinality(DealsMade) <= Cardinality(DealsMade')
    BY <1>1, FetchesStay, LargerSets DEF TypeInv
  <2>2. Cardinality(OrdersMade) <= Cardinality(OrdersMade')
    BY <1>1, FetchesStay, LargerSets DEF TypeInv
  <2>3. QED
    BY <1>2, <1>4, <2>1, <2>2 DEF TypeInv, Shape, FetchesCounted
<1>5. QED
  BY <1>3, <1>4 DEF Next, Request, Begin, ReadBefore, CheckReady, ReadAfter, manager,
                    ConnectionChanges, OtherError, vars

LEMMA StepRecorded == TypeInv /\ [Next]_vars => ErrorsRecorded'
<1> SUFFICES ASSUME TypeInv, [Next]_vars PROVE ErrorsRecorded'
  OBVIOUS
<1> USE DEF TypeInv, Shape, ErrorsRecorded, manager
<1>1. clock \in Nat /\ clock' \in {clock, clock + 1}
  BY DEF Next, Request, Begin, ReadBefore, CheckReady, Fetch, ReadAfter, ConnectionChanges,
         OtherError, vars
<1>2. Recorded(clock) \subseteq Recorded(clock')
  BY <1>1 DEF Recorded
<1>3. lastError' = lastError \/ lastError' \in [code : Codes, at : 0..clock']
  <2>1. ASSUME NEW r \in Requests, Fetch(r)
        PROVE  lastError' = lastError \/ lastError' \in [code : Codes, at : 0..clock']
    BY <1>1, <2>1 DEF Fetch, Codes
  <2>2. ASSUME NEW r \in Requests, CheckReady(r)
        PROVE  lastError' = lastError \/ lastError' \in [code : Codes, at : 0..clock']
    BY <1>1, <2>2 DEF CheckReady, Codes
  <2>3. CASE OtherError
    BY <1>1, <2>3 DEF OtherError, Codes
  <2>4. QED
    BY <2>1, <2>2, <2>3
       DEF Next, Request, Begin, ReadBefore, ReadAfter, ConnectionChanges, vars
<1>4. \A q \in Requests : before'[q] \in {before[q], lastError}
  BY DEF Next, Request, Begin, ReadBefore, CheckReady, Fetch, ReadAfter, ConnectionChanges,
         OtherError, vars
<1>5. lastError' \in Recorded(clock')
  BY <1>2, <1>3 DEF Recorded
<1>6. QED
  BY <1>2, <1>4, <1>5

\* Type correctness, however the requests overlap.
THEOREM TypeCorrect == Spec => []TypeOK
<1>1. TypeInv /\ [Next]_vars => TypeInv'
  BY StepShape, StepCounted, StepRecorded DEF TypeInv
<1>2. TypeInv => TypeOK
  <2> SUFFICES ASSUME TypeInv PROVE TypeOK
    OBVIOUS
  <2>1. DealsMade \in SUBSET Requests /\ OrdersMade \in SUBSET Requests
    BY DEF DealsMade, OrdersMade
  <2>2. /\ Cardinality(DealsMade) \in Nat /\ Cardinality(DealsMade) <= Cardinality(Requests)
        /\ Cardinality(OrdersMade) \in Nat /\ Cardinality(OrdersMade) <= Cardinality(Requests)
    BY <2>1, SizesAreNumbers
  <2>3. Cardinality(Requests) \in Nat /\ clock \in Nat
    BY RequestsAssumption, FS_CardinalityType DEF TypeInv, Shape
  <2>4. clock <= 2 * Cardinality(Requests)
    BY <2>2, <2>3 DEF TypeInv, FetchesCounted
  <2>5. Recorded(clock) \subseteq Errors
    BY <2>3, <2>4 DEF Recorded, Errors, Times
  <2>6. clock \in Times
    BY <2>3, <2>4 DEF Times
  <2>7. before \in [Requests -> Errors]
    BY <2>5 DEF TypeInv, Shape, ErrorsRecorded
  <2>8. QED
    BY <2>5, <2>6, <2>7 DEF TypeInv, Shape, ErrorsRecorded, TypeOK
<1>3. QED
  BY InitTypes, <1>1, <1>2, PTL DEF Spec

-----------------------------------------------------------------------------
(***************************************************************************)
(* HistoryRecords, for any identities, copies, timestamps, limits and page *)
(* size.  Age and Label order the identities strictly, and the sort key    *)
(* orders the records as they order the identities.                        *)
(***************************************************************************)
AllRecords == Records("deal") \cup Records("order")
AllIdentities == Kinds \X Ids

TimesTyped == timeOf \in [Kinds \X Ids -> Timestamps \cup {NoTime}]

IdentitiesOf(s) == {Identity(r) : r \in ToSet(s)}

Distinct(s) == \A i, j \in DOMAIN s : Identity(s[i]) = Identity(s[j]) => i = j

FirstCopies(s) == {s[i] : i \in Firsts(s)}

Sorted(s) == \A i, j \in DOMAIN s : i < j => Precedes(s[i], s[j])

LEMMA RecordType ==
    ASSUME NEW r \in AllRecords
    PROVE  /\ Identity(r) \in AllIdentities
           /\ r.kind \in Kinds /\ r.id \in Ids /\ r.id \in Nat
           /\ Identity(r)[1] = r.kind /\ Identity(r)[2] = r.id
BY RecordsAssumption DEF AllRecords, AllIdentities, Records, Kinds, Identity

\* The identities are finitely many numbers: there is a greatest.
LEMMA GreatestIdentity == \A i \in Ids : Max(Ids) \in Nat /\ i <= Max(Ids)
<1> SUFFICES ASSUME NEW i \in Ids PROVE Max(Ids) \in Nat /\ i <= Max(Ids)
  OBVIOUS
<1>1. IsFiniteSet(Ids) /\ Ids \in SUBSET Nat /\ Cardinality(Ids) \in Nat
  BY RecordsAssumption, FS_CardinalityType
<1>2. PICK at : Lists(at, Ids, Upwards(Ids))
  BY <1>1, UpwardsIsStrict, PickedAlong
<1>3. PICK c \in Nat : c = Cardinality(Ids)
  BY <1>1
<1>4. at \in [1..c -> Ids] /\ \A j \in Ids : \E k \in 1..c : at[k] = j
  BY <1>2, <1>3 DEF Lists
<1>5. \A k, l \in 1..c : k < l => at[k] < at[l]
  BY <1>2, <1>3 DEF Lists, Upwards
<1>6. c \in 1..c
  <2>1. PICK k \in 1..c : at[k] = i
    BY <1>4
  <2> QED
    BY <1>3, <2>1
<1>7. \A j \in Ids : at[c] >= j
  <2> TAKE j \in Ids
  <2>1. PICK k \in 1..c : at[k] = j
    BY <1>4
  <2>2. k < c \/ k = c
    BY <1>3
  <2>3. at[c] \in Nat /\ j \in Nat
    BY <1>1, <1>4, <1>6
  <2> QED
    BY <1>5, <1>6, <2>1, <2>2, <2>3
<1>8. \E x \in Ids : \A y \in Ids : x >= y
  BY <1>4, <1>6, <1>7
<1>9. Max(Ids) \in Ids /\ Max(Ids) >= i
  BY <1>8 DEF Max
<1> QED
  BY <1>1, <1>9

\* The keys of an identity are numbers, and no two have the same label.
LEMMA KeyTypes ==
    ASSUME TimesTyped
    PROVE  \A a \in AllIdentities : Age(a) \in Int /\ Label(a) \in Int
<1> TAKE a \in AllIdentities
<1>1. a[2] \in Ids /\ Ids \subseteq Nat
  BY RecordsAssumption DEF AllIdentities
<1>2. timeOf[a] \in Timestamps \cup {NoTime}
  BY DEF TimesTyped, AllIdentities
<1>3. Age(a) \in Int
  <2>1. Age(a) = -1 \/ Age(a) \in Nat
    BY <1>2, RecordsAssumption DEF Age
  <2> QED
    BY <2>1
<1>4. PICK m \in Nat : m = Max(Ids)
  BY <1>1, GreatestIdentity
<1>5. Label(a) = IF a[1] = "deal" THEN a[2] ELSE a[2] + m + 1
  BY <1>4 DEF Label
<1>6. Label(a) \in Int
  <2>1. Label(a) = a[2] \/ Label(a) = a[2] + m + 1
    BY <1>5
  <2>2. a[2] \in Nat
    BY <1>1
  <2> QED
    BY <1>4, <2>1, <2>2
<1> QED
  BY <1>3, <1>6

LEMMA LabelsDiffer ==
    ASSUME NEW a \in AllIdentities, NEW b \in AllIdentities
    PROVE  /\ Label(a) = Label(b) => a = b
           /\ Label(a) < Label(b) <=>
                 (a[1] = "deal" /\ b[1] = "order") \/ (a[1] = b[1] /\ a[2] < b[2])
<1>1. PICK m \in Nat : m = Max(Ids)
  BY GreatestIdentity DEF AllIdentities
<1>2. a[2] \in Nat /\ b[2] \in Nat /\ a[2] <= m /\ b[2] <= m
  BY <1>1, GreatestIdentity, RecordsAssumption DEF AllIdentities
<1>3. a[1] \in {"deal", "order"} /\ b[1] \in {"deal", "order"}
      /\ a = <<a[1], a[2]>> /\ b = <<b[1], b[2]>>
  BY DEF AllIdentities, Kinds
<1>4. /\ Label(a) = IF a[1] = "deal" THEN a[2] ELSE a[2] + m + 1
      /\ Label(b) = IF b[1] = "deal" THEN b[2] ELSE b[2] + m + 1
  BY <1>1 DEF Label
<1> QED
  BY <1>2, <1>3, <1>4

\* The sort key compares two records as their identities are read.
LEMMA PrecedesReads ==
    ASSUME TimesTyped, NEW r \in AllRecords, NEW q \in AllRecords
    PROVE  Precedes(r, q) <=> ReadFirst(Identity(r), Identity(q))
<1> DEFINE a == Identity(r)
           b == Identity(q)
<1>1. a \in AllIdentities /\ b \in AllIdentities
      /\ a[1] = r.kind /\ a[2] = r.id /\ b[1] = q.kind /\ b[2] = q.id
  BY RecordType
<1>2. LowerId(r, q) <=> Label(a) < Label(b)
  BY <1>1, LabelsDiffer DEF LowerId
<1>3. timeOf[a] \in Timestamps \cup {NoTime} /\ timeOf[b] \in Timestamps \cup {NoTime}
  BY <1>1 DEF TimesTyped, AllIdentities
<1>4. NewestFirst(timeOf[a], timeOf[b]) <=> Age(a) > Age(b)
  <2>1. /\ (timeOf[a] = NoTime /\ Age(a) = -1) \/ (timeOf[a] \in Nat /\ Age(a) = timeOf[a])
        /\ (timeOf[b] = NoTime /\ Age(b) = -1) \/ (timeOf[b] \in Nat /\ Age(b) = timeOf[b])
    BY <1>3, RecordsAssumption DEF Age
  <2>2. NoTime \notin Nat
    BY RecordsAssumption
  <2> HIDE DEF a, b
  <2> QED
    BY <2>1, <2>2 DEF NewestFirst
<1>5. timeOf[a] = timeOf[b] <=> Age(a) = Age(b)
  BY <1>3, RecordsAssumption DEF Age
<1> HIDE DEF a, b
<1>6. ReadFirst(a, b) <=> Age(a) > Age(b) \/ (Age(a) = Age(b) /\ Label(a) < Label(b))
  BY DEF ReadFirst
<1>7. Precedes(r, q) <=> NewestFirst(timeOf[a], timeOf[b]) \/ (timeOf[a] = timeOf[b] /\ LowerId(r, q))
  BY DEF Precedes, a, b
<1> QED
  BY <1>2, <1>4, <1>5, <1>6, <1>7 DEF a, b

\* Reading order is strict and total on the identities.
LEMMA ReadingIsStrict ==
    ASSUME TimesTyped
    PROVE  /\ \A a \in AllIdentities : ~ReadFirst(a, a)
           /\ \A a, b, c \in AllIdentities : ReadFirst(a, b) /\ ReadFirst(b, c) => ReadFirst(a, c)
           /\ \A a, b \in AllIdentities : a # b => ReadFirst(a, b) \/ ReadFirst(b, a)
BY KeyTypes, LabelsDiffer DEF ReadFirst

-----------------------------------------------------------------------------
(***************************************************************************)
(* What the helpers make of a sequence of records.                         *)
(***************************************************************************)
LEMMA SubsequenceKeeps ==
    ASSUME NEW T, NEW s \in Seq(T), NEW P \in SUBSET DOMAIN s,
           \A i, j \in P : Identity(s[i]) = Identity(s[j]) => i = j
    PROVE  /\ Subsequence(s, P) \in Seq(T)
           /\ ToSet(Subsequence(s, P)) = {s[i] : i \in P}
           /\ Distinct(Subsequence(s, P))
<1>1. PICK at : /\ at \in [1..Cardinality(P) -> P]
                /\ \A k, l \in 1..Cardinality(P) : k < l => at[k] < at[l]
                /\ \A i \in P : \E k \in 1..Cardinality(P) : at[k] = i
                /\ Subsequence(s, P) = Along(s, at)
  BY SubsequenceAlong
<1>2. Cardinality(P) \in Nat /\ P \in SUBSET Nat
  <2>1. DOMAIN s = 1..Len(s) /\ Len(s) \in Nat
    OBVIOUS
  <2>2. IsFiniteSet(1..Len(s))
    BY <2>1, FS_Interval
  <2>3. IsFiniteSet(P)
    BY <2>1, <2>2, FS_Subset
  <2> QED
    BY <2>1, <2>3, FS_CardinalityType
<1>3. PICK n \in Nat : n = Cardinality(P)
  BY <1>2
<1>4. at \in [1..n -> P] /\ at \in [1..n -> DOMAIN s]
      /\ (\A k, l \in 1..n : k < l => at[k] < at[l]) /\ \A i \in P : \E k \in 1..n : at[k] = i
  BY <1>1, <1>3
<1>5. PICK out : out = Subsequence(s, P)
  OBVIOUS
<1>6. /\ out \in Seq(T) /\ DOMAIN out = 1..n
      /\ \A k \in 1..n : out[k] = s[at[k]]
  <2>1. out = Along(s, at)
    BY <1>1, <1>5
  <2>2. at \in [1..n -> DOMAIN s]
    BY <1>4
  <2> QED
    BY <2>1, <2>2, AlongIsSequence
<1>7. ToSet(out) = {s[i] : i \in P}
  <2>1. \A k \in 1..n : at[k] \in P
    BY <1>4
  <2>2. ASSUME NEW i \in P PROVE \E k \in 1..n : out[k] = s[i]
    BY <1>4, <1>6
  <2>3. ToSet(out) = {out[k] : k \in 1..n}
    BY <1>6 DEF ToSet
  <2>4. \A k \in 1..n : out[k] \in {s[i] : i \in P}
    BY <1>6, <2>1
  <2>5. \A i \in P : s[i] \in {out[k] : k \in 1..n}
    BY <2>2
  <2> QED
    BY <2>3, <2>4, <2>5, Zenon
<1>8. Distinct(out)
  <2> SUFFICES ASSUME NEW k \in 1..n, NEW l \in 1..n, Identity(out[k]) = Identity(out[l])
               PROVE  k = l
    BY <1>6 DEF Distinct
  <2>1. at[k] \in P /\ at[l] \in P /\ Identity(s[at[k]]) = Identity(s[at[l]])
    BY <1>4, <1>6
  <2>2. at[k] = at[l] /\ at[k] \in Nat
    BY <1>2, <2>1
  <2>3. k < l \/ l < k \/ k = l
    OBVIOUS
  <2> QED
    BY <1>4, <2>2, <2>3
<1> QED
  BY <1>5, <1>6, <1>7, <1>8

\* The dictionary keeps the first copies, and one of every identity.
LEMMA DeduplicateKeeps ==
    ASSUME NEW T, NEW s \in Seq(T)
    PROVE  /\ Deduplicate(s) \in Seq(T)
           /\ ToSet(Deduplicate(s)) = FirstCopies(s)
           /\ Distinct(Deduplicate(s))
<1>1. Firsts(s) \in SUBSET DOMAIN s /\ DOMAIN s = 1..Len(s) /\ Len(s) \in Nat
  BY DEF Firsts
<1>2. \A i, j \in Firsts(s) : Identity(s[i]) = Identity(s[j]) => i = j
  <2> TAKE i, j \in Firsts(s)
  <2>1. i \in 1..Len(s) /\ j \in 1..Len(s)
    BY <1>1
  <2>2. i < j => i \in 1..(j - 1)
    BY <2>1
  <2>3. j < i => j \in 1..(i - 1)
    BY <2>1
  <2>4. i < j \/ j < i \/ i = j
    BY <2>1
  <2> QED
    BY <2>2, <2>3, <2>4 DEF Firsts
<1> QED
  BY <1>1, <1>2, SubsequenceKeeps DEF Deduplicate, FirstCopies

LEMMA EveryIdentityHasAFirst ==
    ASSUME NEW T, NEW s \in Seq(T), NEW i \in DOMAIN s
    PROVE  \E m \in Firsts(s) : Identity(s[m]) = Identity(s[i])
<1> DEFINE P == {j \in 1..Len(s) : Identity(s[j]) = Identity(s[i])}
<1>1. Len(s) \in Nat /\ DOMAIN s = 1..Len(s) /\ P \in SUBSET (1..Len(s)) /\ i \in P
  OBVIOUS
<1>2. PICK m \in P : \A j \in P : m <= j
  BY <1>1, FirstAndLast
<1>3. ASSUME NEW j \in 1..(m - 1) PROVE Identity(s[j]) # Identity(s[m])
  <2>1. j \in 1..Len(s) /\ ~(m <= j)
    BY <1>1
  <2>2. j \notin P
    BY <1>2, <2>1
  <2> QED
    BY <2>1, <2>2
<1> QED
  BY <1>1, <1>3 DEF Firsts

LEMMA FirstCopiesHaveAllIdentities ==
    ASSUME NEW T, NEW s \in Seq(T)
    PROVE  {Identity(r) : r \in FirstCopies(s)} = IdentitiesOf(s)
<1>1. Firsts(s) \in SUBSET DOMAIN s
  BY DEF Firsts
<1>2. ASSUME NEW a \in IdentitiesOf(s) PROVE a \in {Identity(r) : r \in FirstCopies(s)}
  <2>1. PICK i \in DOMAIN s : a = Identity(s[i])
    BY DEF IdentitiesOf, ToSet
  <2>2. PICK m \in Firsts(s) : Identity(s[m]) = Identity(s[i])
    BY EveryIdentityHasAFirst
  <2> QED
    BY <2>1, <2>2 DEF FirstCopies
<1>3. ASSUME NEW a \in {Identity(r) : r \in FirstCopies(s)} PROVE a \in IdentitiesOf(s)
  BY <1>1 DEF FirstCopies, IdentitiesOf, ToSet
<1> QED
  BY <1>2, <1>3

\* The identities of records without a repetition are as many as the records.
LEMMA DistinctCount ==
    ASSUME NEW T, NEW s \in Seq(T), Distinct(s)
    PROVE  Cardinality(IdentitiesOf(s)) = Len(s) /\ IsFiniteSet(IdentitiesOf(s))
<1> DEFINE identity == [k \in 1..Len(s) |-> Identity(s[k])]
<1>1. DOMAIN s = 1..Len(s) /\ Len(s) \in Nat
  OBVIOUS
<1>2. identity \in Bijection(1..Len(s), IdentitiesOf(s))
  <2>1. identity \in [1..Len(s) -> IdentitiesOf(s)]
    BY <1>1 DEF IdentitiesOf, ToSet
  <2>2. \A k, l \in 1..Len(s) : identity[k] = identity[l] => k = l
    BY <1>1 DEF Distinct
  <2>3. \A a \in IdentitiesOf(s) : \E k \in 1..Len(s) : identity[k] = a
    BY <1>1 DEF IdentitiesOf, ToSet
  <2> QED
    BY <2>1, <2>2, <2>3 DEF Bijection, Injection, Surjection, IsInjective
<1>3. IsFiniteSet(1..Len(s)) /\ Cardinality(1..Len(s)) = Len(s)
  BY <1>1, FS_Interval
<1> QED
  BY <1>2, <1>3, FS_Bijection DEF ExistsBijection

-----------------------------------------------------------------------------
\* The stable sort puts the positions in a strict order.
LEMMA SortOrderIsStrict ==
    ASSUME TimesTyped, NEW s \in Seq(AllRecords)
    PROVE  StrictOrder(DOMAIN s, SortOrder(s))
<1>1. \A i \in DOMAIN s : i \in Nat /\ Identity(s[i]) \in AllIdentities
  BY RecordType, ElementType
<1>2. \A i, j \in DOMAIN s : Precedes(s[i], s[j]) <=> ReadFirst(Identity(s[i]), Identity(s[j]))
  BY PrecedesReads, ElementType
<1>3. \A i, j \in DOMAIN s :
         <<i, j>> \in SortOrder(s) <=>
            \/ ReadFirst(Identity(s[i]), Identity(s[j]))
            \/ ~ReadFirst(Identity(s[j]), Identity(s[i])) /\ i < j
  BY <1>2 DEF SortOrder
<1>4. \A i \in DOMAIN s : <<i, i>> \notin SortOrder(s)
  BY <1>1, <1>3, ReadingIsStrict
<1>5. \A i, j \in DOMAIN s : i # j => <<i, j>> \in SortOrder(s) \/ <<j, i>> \in SortOrder(s)
  BY <1>1, <1>3, ReadingIsStrict
<1>6. ASSUME NEW i \in DOMAIN s, NEW j \in DOMAIN s, NEW k \in DOMAIN s,
             <<i, j>> \in SortOrder(s), <<j, k>> \in SortOrder(s)
      PROVE  <<i, k>> \in SortOrder(s)
  <2> DEFINE a == Identity(s[i])
             b == Identity(s[j])
             c == Identity(s[k])
  <2>1. a \in AllIdentities /\ b \in AllIdentities /\ c \in AllIdentities
        /\ i \in Nat /\ j \in Nat /\ k \in Nat
    BY <1>1
  <2>2. ReadFirst(a, b) \/ (a = b /\ i < j)
    BY <1>3, <1>6, <2>1, ReadingIsStrict
  <2>3. ReadFirst(b, c) \/ (b = c /\ j < k)
    BY <1>3, <1>6, <2>1, ReadingIsStrict
  <2> HIDE DEF a, b, c
  <2>4. ReadFirst(a, c) \/ (a = c /\ i < k)
    <3>1. CASE ReadFirst(a, b) /\ ReadFirst(b, c)
      BY <2>1, <3>1, ReadingIsStrict
    <3>2. CASE a = b /\ i < j /\ b = c /\ j < k
      BY <2>1, <3>2
    <3> QED
      BY <2>2, <2>3, <3>1, <3>2
  <2>5. ReadFirst(a, c) \/ (~ReadFirst(c, a) /\ i < k)
    BY <2>1, <2>4, ReadingIsStrict
  <2> QED
    BY <1>3, <2>5 DEF a, c
<1> QED
  BY <1>4, <1>5, <1>6 DEF StrictOrder

\* Sorting keeps the records, and puts distinct ones in the order of the key.
LEMMA SortKeeps ==
    ASSUME TimesTyped, NEW T \in SUBSET AllRecords, NEW s \in Seq(T), Distinct(s)
    PROVE  /\ SortRecords(s) \in Seq(T)
           /\ ToSet(SortRecords(s)) = ToSet(s)
           /\ Distinct(SortRecords(s)) /\ Sorted(SortRecords(s))
           /\ Len(SortRecords(s)) = Len(s)
<1>1. /\ s \in Seq(AllRecords) /\ DOMAIN s = 1..Len(s) /\ Len(s) \in Nat
  BY SequenceOfMore
<1>2. IsFiniteSet(DOMAIN s) /\ Cardinality(DOMAIN s) = Len(s)
  BY <1>1, FS_Interval
<1>3. PICK at : Lists(at, DOMAIN s, SortOrder(s)) /\ SortRecords(s) = Along(s, at)
  BY <1>1, <1>2, SortOrderIsStrict, PickedAlong DEF SortRecords
<1>4. PICK n \in Nat : n = Len(s)
  BY <1>1
<1>5. /\ at \in [1..n -> DOMAIN s]
      /\ \A k, l \in 1..n : k < l => <<at[k], at[l]>> \in SortOrder(s)
      /\ \A i \in DOMAIN s : \E k \in 1..n : at[k] = i
  BY <1>2, <1>3, <1>4 DEF Lists
<1>6. PICK out : out = SortRecords(s)
  OBVIOUS
<1>7. /\ out \in Seq(T) /\ Len(out) = n /\ DOMAIN out = 1..n
      /\ \A k \in 1..n : out[k] = s[at[k]]
  <2>1. out = Along(s, at)
    BY <1>3, <1>6
  <2>2. at \in [1..n -> DOMAIN s]
    BY <1>5
  <2> QED
    BY <2>1, <2>2, AlongIsSequence
<1>8. ToSet(out) = ToSet(s)
  <2>1. \A k \in 1..n : at[k] \in DOMAIN s
    BY <1>5
  <2>2. ASSUME NEW i \in DOMAIN s PROVE \E k \in 1..n : out[k] = s[i]
    BY <1>5, <1>7
  <2>3. ToSet(out) = {out[k] : k \in 1..n} /\ ToSet(s) = {s[i] : i \in DOMAIN s}
    BY <1>7 DEF ToSet
  <2>4. \A k \in 1..n : out[k] \in {s[i] : i \in DOMAIN s}
    BY <1>7, <2>1
  <2>5. \A i \in DOMAIN s : s[i] \in {out[k] : k \in 1..n}
    BY <2>2
  <2> QED
    BY <2>3, <2>4, <2>5, Zenon
<1>9. \A i \in DOMAIN s : s[i] \in AllRecords /\ Identity(s[i]) \in AllIdentities /\ i \in Nat
  BY <1>1, RecordType, ElementType
<1>10. \A k, l \in 1..n : k < l => <<at[k], at[l]>> \in SortOrder(s) /\ at[k] # at[l]
  BY <1>1, <1>5, SortOrderIsStrict DEF StrictOrder
<1>11. Distinct(out)
  <2> SUFFICES ASSUME NEW k \in 1..n, NEW l \in 1..n, Identity(out[k]) = Identity(out[l])
               PROVE  k = l
    BY <1>7 DEF Distinct
  <2>1. at[k] \in DOMAIN s /\ at[l] \in DOMAIN s /\ Identity(s[at[k]]) = Identity(s[at[l]])
    BY <1>5, <1>7
  <2>2. at[k] = at[l]
    BY <2>1 DEF Distinct
  <2>3. k < l \/ l < k \/ k = l
    OBVIOUS
  <2> QED
    BY <1>10, <2>2, <2>3
<1>12. Sorted(out)
  <2> SUFFICES ASSUME NEW k \in 1..n, NEW l \in 1..n, k < l
               PROVE  Precedes(out[k], out[l])
    BY <1>7 DEF Sorted
  <2>1. at[k] \in DOMAIN s /\ at[l] \in DOMAIN s /\ at[k] # at[l]
    BY <1>5, <1>10
  <2>2. Identity(s[at[k]]) # Identity(s[at[l]])
    BY <2>1 DEF Distinct
  <2>3. \/ Precedes(s[at[k]], s[at[l]])
        \/ ~Precedes(s[at[l]], s[at[k]])
    BY <1>5 DEF SortOrder
  <2>4. Precedes(s[at[k]], s[at[l]]) \/ Precedes(s[at[l]], s[at[k]])
    BY <1>9, <2>1, <2>2, PrecedesReads, ReadingIsStrict
  <2> QED
    BY <1>7, <2>3, <2>4
<1> QED
  BY <1>4, <1>6, <1>7, <1>8, <1>11, <1>12

-----------------------------------------------------------------------------
\* The first records of a sequence.
LEMMA FirstTaken ==
    ASSUME NEW T, NEW s \in Seq(T), NEW n \in Nat
    PROVE  /\ First(n, s) \in Seq(T)
           /\ ToSet(First(n, s)) = {s[i] : i \in {j \in DOMAIN s : j <= n}}
<1>1. PICK m \in Nat : m = (IF n < Len(s) THEN n ELSE Len(s)) /\ m <= Len(s)
  <2>1. Len(s) \in Nat
    OBVIOUS
  <2> QED
    BY <2>1
<1>2. PICK out : out = SubSeq(s, 1, m)
  OBVIOUS
<1>3. First(n, s) = out
  BY <1>1, <1>2 DEF First
<1>4. out \in Seq(T) /\ DOMAIN out = 1..m /\ \A i \in 1..m : out[i] = s[i]
  BY <1>1, <1>2
<1>5. 1..m = {j \in DOMAIN s : j <= n}
  <2>1. DOMAIN s = 1..Len(s) /\ Len(s) \in Nat
    OBVIOUS
  <2>2. PICK l \in Nat : l = Len(s)
    BY <2>1
  <2>3. (n < l /\ m = n) \/ (~(n < l) /\ m = l)
    BY <1>1, <2>2
  <2>4. ASSUME NEW j \in 1..m PROVE j \in 1..l /\ j <= n
    BY <2>3
  <2>5. ASSUME NEW j \in 1..l, j <= n PROVE j \in 1..m
    BY <2>3, <2>5
  <2> QED
    BY <2>1, <2>2, <2>4, <2>5
<1>6. ToSet(out) = {s[i] : i \in 1..m}
  <2>1. ToSet(out) = {out[i] : i \in 1..m}
    BY <1>4 DEF ToSet
  <2> QED
    BY <1>4, <2>1
<1> QED
  BY <1>3, <1>4, <1>5, <1>6

\* Of sorted records, the k-th is the one that k - 1 identities are read before.
LEMMA ReadBeforeCount ==
    ASSUME TimesTyped, NEW s \in Seq(AllRecords), Distinct(s), Sorted(s), NEW k \in DOMAIN s
    PROVE  Cardinality({a \in IdentitiesOf(s) : ReadFirst(a, Identity(s[k]))}) = k - 1
<1> DEFINE Before == {a \in IdentitiesOf(s) : ReadFirst(a, Identity(s[k]))}
           identity == [i \in 1..(k - 1) |-> Identity(s[i])]
<1>1. DOMAIN s = 1..Len(s) /\ Len(s) \in Nat /\ k \in Nat /\ k >= 1 /\ k <= Len(s)
  OBVIOUS
<1>2. \A i, j \in DOMAIN s : i < j => ReadFirst(Identity(s[i]), Identity(s[j]))
  BY PrecedesReads, ElementType DEF Sorted
<1>3. \A i \in DOMAIN s : Identity(s[i]) \in AllIdentities
  BY RecordType, ElementType
<1>4. \A i \in 1..(k - 1) : i \in DOMAIN s /\ i < k
  BY <1>1
<1>5. ASSUME NEW i \in DOMAIN s, ReadFirst(Identity(s[i]), Identity(s[k]))
      PROVE  i \in 1..(k - 1)
  <2>1. i # k
    BY <1>3, <1>5, ReadingIsStrict
  <2>2. ~(k < i)
    BY <1>2, <1>3, <1>5, ReadingIsStrict
  <2> QED
    BY <1>1, <2>1, <2>2
<1>6. identity \in Bijection(1..(k - 1), Before)
  <2>1. \A i \in 1..(k - 1) : Identity(s[i]) \in Before
    BY <1>2, <1>4 DEF IdentitiesOf, ToSet
  <2>2. \A i, j \in 1..(k - 1) : Identity(s[i]) = Identity(s[j]) => i = j
    BY <1>4 DEF Distinct
  <2>3. \A a \in Before : \E i \in 1..(k - 1) : Identity(s[i]) = a
    BY <1>5 DEF IdentitiesOf, ToSet
  <2>4. identity \in [1..(k - 1) -> Before] /\ \A i \in 1..(k - 1) : identity[i] = Identity(s[i])
    BY <2>1
  <2> HIDE DEF Before, identity
  <2> QED
    BY <2>2, <2>3, <2>4 DEF Bijection, Injection, Surjection, IsInjective
<1>7. IsFiniteSet(1..(k - 1)) /\ Cardinality(1..(k - 1)) = k - 1
  <2>1. PICK p \in Nat : p = k - 1
    BY <1>1
  <2>2. IsFiniteSet(1..p) /\ Cardinality(1..p) = p
    BY FS_Interval
  <2> QED
    BY <2>1, <2>2
<1> HIDE DEF Before, identity
<1>8. Cardinality(Before) = k - 1
  BY <1>6, <1>7, FS_Bijection DEF ExistsBijection
<1> QED
  BY <1>8 DEF Before

\* Deals and orders after one another: none is a copy of another.
LEMMA BothCollections ==
    ASSUME NEW ds \in Seq(Records("deal")), NEW os \in Seq(Records("order")),
           Distinct(ds), Distinct(os)
    PROVE  /\ ds \o os \in Seq(AllRecords) /\ Len(ds \o os) = Len(ds) + Len(os)
           /\ IdentitiesOf(ds \o os) = IdentitiesOf(ds) \cup IdentitiesOf(os)
           /\ Distinct(ds \o os)
<1>1. ds \in Seq(AllRecords) /\ os \in Seq(AllRecords)
  BY SequenceOfMore DEF AllRecords
<1>2. PICK m \in Nat, n \in Nat : m = Len(ds) /\ n = Len(os)
  OBVIOUS
<1>3. PICK s : s = ds \o os
  OBVIOUS
<1>4. /\ s \in Seq(AllRecords) /\ Len(s) = m + n /\ DOMAIN s = 1..(m + n)
      /\ \A i \in 1..(m + n) : s[i] = IF i <= m THEN ds[i] ELSE os[i - m]
  BY <1>1, <1>2, <1>3
<1>5. DOMAIN ds = 1..m /\ DOMAIN os = 1..n
  BY <1>2
<1>6. \A i \in 1..m : i \in 1..(m + n) /\ s[i] = ds[i]
  BY <1>4
<1>7. \A i \in 1..n : i + m \in 1..(m + n) /\ s[i + m] = os[i]
  <2> TAKE i \in 1..n
  <2>1. i + m \in 1..(m + n) /\ ~(i + m <= m) /\ (i + m) - m = i
    OBVIOUS
  <2> QED
    BY <1>4, <2>1
<1>8. \A i \in 1..(m + n) : i \in 1..m \/ (i - m \in 1..n /\ s[i] = os[i - m] /\ ~(i <= m))
  BY <1>4
<1>9. \A i \in 1..m, j \in 1..n : Identity(ds[i])[1] = "deal" /\ Identity(os[j])[1] = "order"
  <2> TAKE i \in 1..m, j \in 1..n
  <2>1. ds[i] \in Records("deal") /\ os[j] \in Records("order")
    BY <1>5, ElementType
  <2> QED
    BY <2>1 DEF Records, Identity
<1>10. IdentitiesOf(s) = IdentitiesOf(ds) \cup IdentitiesOf(os)
  <2>1. ASSUME NEW a \in IdentitiesOf(s) PROVE a \in IdentitiesOf(ds) \cup IdentitiesOf(os)
    <3>1. PICK i \in 1..(m + n) : a = Identity(s[i])
      BY <1>4 DEF IdentitiesOf, ToSet
    <3>2. CASE i \in 1..m
      BY <1>5, <1>6, <3>1, <3>2 DEF IdentitiesOf, ToSet
    <3>3. CASE i - m \in 1..n /\ s[i] = os[i - m]
      BY <1>5, <3>1, <3>3 DEF IdentitiesOf, ToSet
    <3> QED
      BY <1>8, <3>2, <3>3
  <2>2. ASSUME NEW a \in IdentitiesOf(ds) PROVE a \in IdentitiesOf(s)
    <3>1. PICK i \in 1..m : a = Identity(ds[i])
      BY <1>5 DEF IdentitiesOf, ToSet
    <3> QED
      BY <1>4, <1>6, <3>1 DEF IdentitiesOf, ToSet
  <2>3. ASSUME NEW a \in IdentitiesOf(os) PROVE a \in IdentitiesOf(s)
    <3>1. PICK i \in 1..n : a = Identity(os[i])
      BY <1>5 DEF IdentitiesOf, ToSet
    <3> QED
      BY <1>4, <1>7, <3>1 DEF IdentitiesOf, ToSet
  <2> QED
    BY <2>1, <2>2, <2>3
<1>11. Distinct(s)
  <2> SUFFICES ASSUME NEW i \in 1..(m + n), NEW j \in 1..(m + n), Identity(s[i]) = Identity(s[j])
               PROVE  i = j
    BY <1>4 DEF Distinct
  <2>1. CASE i \in 1..m /\ j \in 1..m
    BY <1>5, <1>6, <2>1 DEF Distinct
  <2>2. CASE ~(i \in 1..m) /\ ~(j \in 1..m)
    <3>1. i - m \in 1..n /\ j - m \in 1..n /\ Identity(os[i - m]) = Identity(os[j - m])
      BY <1>8, <2>2
    <3>2. i - m = j - m
      BY <1>5, <3>1 DEF Distinct
    <3> QED
      BY <3>2
  <2>3. CASE i \in 1..m /\ ~(j \in 1..m)
    <3>1. j - m \in 1..n /\ s[j] = os[j - m] /\ s[i] = ds[i]
      BY <1>6, <1>8, <2>3
    <3> QED
      BY <1>9, <2>3, <3>1
  <2>4. CASE ~(i \in 1..m) /\ j \in 1..m
    <3>1. i - m \in 1..n /\ s[i] = os[i - m] /\ s[j] = ds[j]
      BY <1>6, <1>8, <2>4
    <3> QED
      BY <1>9, <2>4, <3>1
  <2> QED
    BY <2>1, <2>2, <2>3, <2>4
<1> QED
  BY <1>2, <1>3, <1>4, <1>10, <1>11

\* The limit selects the identities that fewer than `limit' others are read before.
LEMMA LimitSelects ==
    ASSUME TimesTyped, limit \in Limits,
           NEW ds \in Seq(Records("deal")), NEW os \in Seq(Records("order")),
           Distinct(ds), Distinct(os), NEW A, A = IdentitiesOf(ds) \cup IdentitiesOf(os)
    PROVE  Selected(ds, os) = {a \in A : Cardinality({b \in A : ReadFirst(b, a)}) < limit}
<1>1. PICK both : both = ds \o os
  OBVIOUS
<1>2. both \in Seq(AllRecords) /\ IdentitiesOf(both) = A /\ Distinct(both)
  BY <1>1, BothCollections
<1>3. PICK s : s = SortRecords(both)
  OBVIOUS
<1>4. s \in Seq(AllRecords) /\ ToSet(s) = ToSet(both) /\ Distinct(s) /\ Sorted(s)
  BY <1>2, <1>3, SortKeeps
<1>5. IdentitiesOf(s) = A
  BY <1>2, <1>4 DEF IdentitiesOf
<1>6. limit \in Nat
  BY LimitsAssumption
<1>7. ToSet(First(limit, s)) = {s[i] : i \in {j \in DOMAIN s : j <= limit}}
  BY <1>4, <1>6, FirstTaken
<1>8. Selected(ds, os) = {Identity(r) : r \in ToSet(First(limit, s))}
  BY <1>1, <1>3 DEF Selected
<1> DEFINE Before(a) == {b \in A : ReadFirst(b, a)}
<1>9. \A i \in DOMAIN s : Cardinality(Before(Identity(s[i]))) = i - 1 /\ i \in Nat
  BY <1>4, <1>5, ReadBeforeCount, ElementType
<1>10. \A a \in A : \E i \in DOMAIN s : a = Identity(s[i])
  BY <1>5 DEF IdentitiesOf, ToSet
<1>11. \A i \in DOMAIN s : Identity(s[i]) \in A
  BY <1>5 DEF IdentitiesOf, ToSet
<1> HIDE DEF Before
<1>12. ASSUME NEW a \in Selected(ds, os) PROVE a \in A /\ Cardinality(Before(a)) < limit
  <2>1. PICK i \in DOMAIN s : i <= limit /\ a = Identity(s[i])
    BY <1>7, <1>8
  <2> QED
    BY <1>6, <1>9, <1>11, <2>1
<1>13. ASSUME NEW a \in A, Cardinality(Before(a)) < limit PROVE a \in Selected(ds, os)
  <2>1. PICK i \in DOMAIN s : a = Identity(s[i])
    BY <1>10
  <2>2. i <= limit
    BY <1>6, <1>9, <1>13, <2>1
  <2> QED
    BY <1>7, <1>8, <2>1, <2>2
<1>14. Selected(ds, os) = {a \in A : Cardinality(Before(a)) < limit}
  BY <1>12, <1>13
<1> QED
  BY <1>14 DEF Before

\* Keeping the records of some identities.
LEMMA OfIdentitiesKeeps ==
    ASSUME NEW T, NEW s \in Seq(T), Distinct(s), NEW I
    PROVE  /\ OfIdentities(s, I) \in Seq(T) /\ Distinct(OfIdentities(s, I))
           /\ ToSet(OfIdentities(s, I)) \subseteq ToSet(s)
           /\ IdentitiesOf(OfIdentities(s, I)) = IdentitiesOf(s) \cap I
<1> DEFINE P == {i \in DOMAIN s : Identity(s[i]) \in I}
<1>1. PICK out : out = OfIdentities(s, I)
  OBVIOUS
<1>2. out \in Seq(T) /\ ToSet(out) = {s[i] : i \in P} /\ Distinct(out)
  <2>1. P \in SUBSET DOMAIN s /\ out = Subsequence(s, P)
    BY <1>1 DEF OfIdentities
  <2>2. \A i, j \in P : Identity(s[i]) = Identity(s[j]) => i = j
    BY DEF Distinct
  <2> HIDE DEF P
  <2> QED
    BY <2>1, <2>2, SubsequenceKeeps
<1>3. ToSet(out) \subseteq ToSet(s)
  BY <1>2 DEF ToSet
<1>4. ASSUME NEW a \in IdentitiesOf(out) PROVE a \in IdentitiesOf(s) \cap I
  <2>1. PICK i \in P : a = Identity(s[i])
    BY <1>2 DEF IdentitiesOf
  <2> QED
    BY <2>1 DEF IdentitiesOf, ToSet
<1>5. ASSUME NEW a \in IdentitiesOf(s) \cap I PROVE a \in IdentitiesOf(out)
  <2>1. PICK i \in DOMAIN s : a = Identity(s[i])
    BY DEF IdentitiesOf, ToSet
  <2>2. i \in P
    BY <2>1
  <2>3. s[i] \in ToSet(out)
    BY <1>2, <2>2
  <2> QED
    BY <2>1, <2>3 DEF IdentitiesOf
<1> QED
  BY <1>1, <1>2, <1>3, <1>4, <1>5

-----------------------------------------------------------------------------
(***************************************************************************)
(* The inductive invariant: what each stage has established and the later  *)
(* ones keep.                                                              *)
(***************************************************************************)
Window ==
    /\ upstreamDeals \in Seq(Records("deal")) /\ upstreamOrders \in Seq(Records("order"))
    /\ limit \in Limits \cup {NoLimit} /\ TimesTyped

OnlyFirstCopies ==
    /\ Distinct(deals) /\ Distinct(orders)
    /\ ToSet(deals) \subseteq FirstCopies(Page(upstreamDeals))
    /\ ToSet(orders) \subseteq FirstCopies(Page(upstreamOrders))

AllIdentitiesKept ==
    /\ IdentitiesOf(deals) = IdentitiesOf(Page(upstreamDeals))
    /\ IdentitiesOf(orders) = IdentitiesOf(Page(upstreamOrders))

RecordsInv ==
    /\ RecordsTypeOK /\ Window
    /\ step = "deduplicate" => deals = Page(upstreamDeals) /\ orders = Page(upstreamOrders)
    /\ step \in {"sort", "limit", "resort", "done"} => OnlyFirstCopies
    /\ step \in {"sort", "limit"} => AllIdentitiesKept
    /\ step \in {"resort", "done"} => IdentitiesOf(deals) \cup IdentitiesOf(orders) = NewestIdentities
    /\ step = "done" => Sorted(deals) /\ Sorted(orders)

LEMMA PageTypes ==
    ASSUME Window
    PROVE  Page(upstreamDeals) \in Seq(Records("deal")) /\ Page(upstreamOrders) \in Seq(Records("order"))
BY FirstTaken, PageAssumption DEF Window, Page

LEMMA OtherCollection ==
    ASSUME NEW k, NEW l, k # l, NEW s \in Seq(Records(k)), NEW t \in Seq(Records(l)),
           NEW j \in DOMAIN s
    PROVE  s[j] \notin ToSet(t)
<1>1. s[j] \in Records(k)
  BY ElementType
<1>2. \A i \in DOMAIN t : t[i] \in Records(l)
  BY ElementType
<1> QED
  BY <1>1, <1>2 DEF ToSet, Records

LEMMA ArrivedIdentities ==
    Arrived = IdentitiesOf(Page(upstreamDeals)) \cup IdentitiesOf(Page(upstreamOrders))
BY DEF Arrived, Fetched, IdentitiesOf

\* What the request and the broker have decided stays.
LEMMA WindowStays ==
    ASSUME UNCHANGED upstream
    PROVE  /\ Window => Window'
           /\ Page(upstreamDeals)' = Page(upstreamDeals) /\ Page(upstreamOrders)' = Page(upstreamOrders)
           /\ NewestIdentities' = NewestIdentities
<1> USE DEF upstream
<1>1. Window => Window'
  BY DEF Window, TimesTyped
<1>2. Page(upstreamDeals)' = Page(upstreamDeals) /\ Page(upstreamOrders)' = Page(upstreamOrders)
  BY DEF Page, First
<1>3. Arrived' = Arrived
  BY DEF Arrived, Fetched, Page, First
<1>4. \A a, b : ReadFirst(a, b)' = ReadFirst(a, b)
  BY DEF ReadFirst, Age, Label
<1>5. NewestIdentities' = NewestIdentities
  BY <1>3, <1>4 DEF NewestIdentities
<1> QED
  BY <1>1, <1>2, <1>5

LEMMA RecordsInitInv == RecordsInit => RecordsInv
<1> SUFFICES ASSUME RecordsInit PROVE RecordsInv
  OBVIOUS
<1>1. upstreamDeals \in Seq(Records("deal")) /\ upstreamOrders \in Seq(Records("order"))
  <2>1. \A k, size : \A s \in Collections(k, size) : s \in Seq(Records(k))
    <3> TAKE k, size
    <3> TAKE s \in Collections(k, size)
    <3>1. PICK n \in 0..size : s \in [1..n -> Records(k)]
      BY DEF Collections
    <3> QED
      BY <3>1, FunctionIsSequence
  <2> QED
    BY <2>1 DEF RecordsInit
<1> QED
  BY <1>1 DEF RecordsInit, RecordsInv, RecordsTypeOK, Window, TimesTyped

LEMMA FetchKeeps == RecordsInv /\ FetchBoth => RecordsInv'
<1> SUFFICES ASSUME RecordsInv, FetchBoth PROVE RecordsInv'
  OBVIOUS
<1>1. /\ UNCHANGED upstream /\ step' = "deduplicate"
      /\ deals' = Page(upstreamDeals) /\ orders' = Page(upstreamOrders)
  BY DEF FetchBoth
<1>2. Window /\ Window'
  BY <1>1, WindowStays DEF RecordsInv
<1>3. RecordsTypeOK'
  BY <1>1, <1>2, PageTypes DEF RecordsTypeOK
<1> QED
  BY <1>1, <1>2, <1>3, WindowStays DEF RecordsInv

LEMMA DeduplicateKeepsInv == RecordsInv /\ DeduplicateBoth => RecordsInv'
<1> SUFFICES ASSUME RecordsInv, DeduplicateBoth PROVE RecordsInv'
  OBVIOUS
<1>1. /\ UNCHANGED upstream /\ step = "deduplicate" /\ step' = "sort"
      /\ deals' = Deduplicate(deals) /\ orders' = Deduplicate(orders)
  BY DEF DeduplicateBoth
<1>2. /\ Window /\ Window' /\ deals = Page(upstreamDeals) /\ orders = Page(upstreamOrders)
      /\ deals \in Seq(Records("deal")) /\ orders \in Seq(Records("order"))
  BY <1>1, WindowStays DEF RecordsInv, RecordsTypeOK
<1>3. /\ deals' \in Seq(Records("deal")) /\ Distinct(deals') /\ ToSet(deals') = FirstCopies(deals)
      /\ orders' \in Seq(Records("order")) /\ Distinct(orders') /\ ToSet(orders') = FirstCopies(orders)
  BY <1>1, <1>2, DeduplicateKeeps
<1>4. RecordsTypeOK'
  BY <1>1, <1>3 DEF RecordsTypeOK
<1>5. OnlyFirstCopies'
  BY <1>1, <1>2, <1>3, WindowStays DEF OnlyFirstCopies
<1>6. IdentitiesOf(deals') = IdentitiesOf(deals) /\ IdentitiesOf(orders') = IdentitiesOf(orders)
  BY <1>2, <1>3, FirstCopiesHaveAllIdentities DEF IdentitiesOf
<1>7. AllIdentitiesKept'
  BY <1>1, <1>2, <1>6, WindowStays DEF AllIdentitiesKept
<1> QED
  BY <1>1, <1>2, <1>4, <1>5, <1>7 DEF RecordsInv

LEMMA SortKeepsInv == RecordsInv /\ SortBoth => RecordsInv'
<1> SUFFICES ASSUME RecordsInv, SortBoth PROVE RecordsInv'
  OBVIOUS
<1>1. /\ UNCHANGED upstream /\ step \in {"sort", "resort"}
      /\ step' = IF step = "sort" THEN "limit" ELSE "done"
      /\ deals' = SortRecords(deals) /\ orders' = SortRecords(orders)
  BY DEF SortBoth
<1>2. /\ Window /\ Window' /\ OnlyFirstCopies
      /\ deals \in Seq(Records("deal")) /\ orders \in Seq(Records("order"))
  BY <1>1, WindowStays DEF RecordsInv, RecordsTypeOK
<1>3. /\ SortRecords(deals) \in Seq(Records("deal")) /\ ToSet(SortRecords(deals)) = ToSet(deals)
      /\ Distinct(SortRecords(deals)) /\ Sorted(SortRecords(deals))
  BY <1>2, SortKeeps DEF Window, OnlyFirstCopies, AllRecords
<1>4. /\ SortRecords(orders) \in Seq(Records("order")) /\ ToSet(SortRecords(orders)) = ToSet(orders)
      /\ Distinct(SortRecords(orders)) /\ Sorted(SortRecords(orders))
  BY <1>2, SortKeeps DEF Window, OnlyFirstCopies, AllRecords
<1>5. RecordsTypeOK'
  BY <1>1, <1>3, <1>4 DEF RecordsTypeOK
<1>6. OnlyFirstCopies'
  BY <1>1, <1>2, <1>3, <1>4, WindowStays DEF OnlyFirstCopies
<1>7. IdentitiesOf(deals') = IdentitiesOf(deals) /\ IdentitiesOf(orders') = IdentitiesOf(orders)
  BY <1>1, <1>3, <1>4 DEF IdentitiesOf
<1>8. CASE step = "sort"
  <2>1. AllIdentitiesKept'
    BY <1>1, <1>7, <1>8, WindowStays DEF RecordsInv, AllIdentitiesKept
  <2> QED
    BY <1>1, <1>2, <1>5, <1>6, <1>8, <2>1 DEF RecordsInv
<1>9. CASE step = "resort"
  <2>1. (IdentitiesOf(deals) \cup IdentitiesOf(orders) = NewestIdentities)'
    BY <1>1, <1>7, <1>9, WindowStays DEF RecordsInv
  <2>2. timeOf' = timeOf
    BY <1>1 DEF upstream
  <2>3. Sorted(deals)' /\ Sorted(orders)'
    BY <1>1, <1>3, <1>4, <2>2 DEF Sorted, Precedes
  <2> QED
    BY <1>1, <1>2, <1>5, <1>6, <1>9, <2>1, <2>3 DEF RecordsInv
<1> QED
  BY <1>1, <1>8, <1>9

LEMMA LimitKeepsInv == RecordsInv /\ LimitBoth => RecordsInv'
<1> SUFFICES ASSUME RecordsInv, LimitBoth PROVE RecordsInv'
  OBVIOUS
<1>1. /\ UNCHANGED upstream /\ step = "limit" /\ step' = "resort"
      /\ deals' = ApplyTotalLimit(deals, orders)[1] /\ orders' = ApplyTotalLimit(deals, orders)[2]
  BY DEF LimitBoth
<1>2. /\ Window /\ Window' /\ OnlyFirstCopies /\ AllIdentitiesKept
      /\ deals \in Seq(Records("deal")) /\ orders \in Seq(Records("order"))
  BY <1>1, WindowStays DEF RecordsInv, RecordsTypeOK
<1>3. Arrived = IdentitiesOf(deals) \cup IdentitiesOf(orders)
  BY <1>2, ArrivedIdentities DEF AllIdentitiesKept
<1> DEFINE Answered ==
      /\ deals' \in Seq(Records("deal")) /\ orders' \in Seq(Records("order"))
      /\ Distinct(deals') /\ Distinct(orders')
      /\ ToSet(deals') \subseteq ToSet(deals) /\ ToSet(orders') \subseteq ToSet(orders)
      /\ IdentitiesOf(deals') \cup IdentitiesOf(orders') = NewestIdentities
<1>4. ASSUME limit = NoLimit PROVE Answered
  <2>1. deals' = deals /\ orders' = orders
    BY <1>1, <1>4 DEF ApplyTotalLimit
  <2>2. NewestIdentities = Arrived
    BY <1>4 DEF NewestIdentities
  <2> QED
    BY <1>2, <1>3, <2>1, <2>2 DEF OnlyFirstCopies
<1>5. ASSUME limit # NoLimit PROVE Answered
  <2>1. limit \in Limits /\ TimesTyped
    BY <1>2, <1>5 DEF Window
  <2>2. PICK I : I = Selected(deals, orders)
    OBVIOUS
  <2>3. deals' = OfIdentities(deals, I) /\ orders' = OfIdentities(orders, I)
    BY <1>1, <1>5, <2>2 DEF ApplyTotalLimit
  <2>4. I = {a \in Arrived : Cardinality({b \in Arrived : ReadFirst(b, a)}) < limit}
    BY <1>2, <1>3, <2>1, <2>2, LimitSelects DEF OnlyFirstCopies
  <2>5. I = NewestIdentities /\ I \subseteq Arrived
    BY <1>5, <2>4 DEF NewestIdentities
  <2>6. /\ deals' \in Seq(Records("deal")) /\ Distinct(deals') /\ ToSet(deals') \subseteq ToSet(deals)
        /\ IdentitiesOf(deals') = IdentitiesOf(deals) \cap I
    BY <1>2, <2>3, OfIdentitiesKeeps DEF OnlyFirstCopies
  <2>7. /\ orders' \in Seq(Records("order")) /\ Distinct(orders') /\ ToSet(orders') \subseteq ToSet(orders)
        /\ IdentitiesOf(orders') = IdentitiesOf(orders) \cap I
    BY <1>2, <2>3, OfIdentitiesKeeps DEF OnlyFirstCopies
  <2> QED
    BY <1>3, <2>5, <2>6, <2>7
<1>6. Answered
  BY <1>4, <1>5
<1>7. RecordsTypeOK'
  BY <1>1, <1>6 DEF RecordsTypeOK
<1>8. OnlyFirstCopies'
  BY <1>1, <1>2, <1>6, WindowStays DEF OnlyFirstCopies
<1>9. (IdentitiesOf(deals) \cup IdentitiesOf(orders) = NewestIdentities)'
  BY <1>1, <1>6, WindowStays
<1> QED
  BY <1>1, <1>2, <1>7, <1>8, <1>9 DEF RecordsInv

LEMMA RecordsInvariance == RecordsSpec => []RecordsInv
<1>1. ASSUME RecordsInv, UNCHANGED recordsVars PROVE RecordsInv'
  <2>1. UNCHANGED upstream /\ UNCHANGED <<deals, orders, step>>
    BY <1>1 DEF recordsVars
  <2>2. Window'
    BY <1>1, <2>1, WindowStays DEF RecordsInv
  <2>3. RecordsTypeOK' /\ (OnlyFirstCopies => OnlyFirstCopies') /\ (AllIdentitiesKept => AllIdentitiesKept')
    BY <1>1, <2>1, WindowStays DEF RecordsInv, RecordsTypeOK, OnlyFirstCopies, AllIdentitiesKept
  <2>4. timeOf' = timeOf
    BY <2>1 DEF upstream
  <2>5. (Sorted(deals) => Sorted(deals)') /\ (Sorted(orders) => Sorted(orders)')
    BY <2>1, <2>4 DEF Sorted, Precedes
  <2> QED
    BY <1>1, <2>1, <2>2, <2>3, <2>5, WindowStays DEF RecordsInv
<1>2. RecordsInv /\ [RecordsNext]_recordsVars => RecordsInv'
  BY <1>1, FetchKeeps, DeduplicateKeepsInv, SortKeepsInv, LimitKeepsInv DEF RecordsNext
<1> QED
  BY RecordsInitInv, <1>2, PTL DEF RecordsSpec

-----------------------------------------------------------------------------
\* Type correctness: a deal never becomes an order nor the other way round,
\* whatever is fetched, sorted and cut.
THEOREM RecordsTypeCorrect == RecordsSpec => []RecordsTypeOK
<1>1. RecordsInv => RecordsTypeOK
  BY DEF RecordsInv
<1> QED
  BY RecordsInvariance, <1>1, PTL

\* The answer of get_history() is the reference: the newest records up to the
\* limit over both collections, each once and in the promised order, for every
\* window of the broker, every limit and every way the records were listed.
THEOREM AnswerIsTheReference == RecordsSpec => []AnswerIsReference
<1>1. RecordsInv => AnswerIsReference
  <2> SUFFICES ASSUME RecordsInv, step = "done" PROVE AnswerIsReference
    BY DEF AnswerIsReference
  <2>1. /\ Window /\ OnlyFirstCopies /\ Sorted(deals) /\ Sorted(orders)
        /\ deals \in Seq(Records("deal")) /\ orders \in Seq(Records("order"))
        /\ IdentitiesOf(deals) \cup IdentitiesOf(orders) = NewestIdentities
    BY DEF RecordsInv, RecordsTypeOK
  <2>2. {Identity(r) : r \in Result} = NewestIdentities
    BY <2>1 DEF Result, IdentitiesOf
  <2>3. Len(deals) + Len(orders) = Cardinality(NewestIdentities)
    <3>1. PICK both : both = deals \o orders
      OBVIOUS
    <3>2. /\ both \in Seq(AllRecords) /\ Len(both) = Len(deals) + Len(orders)
          /\ IdentitiesOf(both) = NewestIdentities /\ Distinct(both)
      BY <2>1, <3>1, BothCollections DEF OnlyFirstCopies
    <3> QED
      BY <3>2, DistinctCount
  <2>4. ASSUME NEW s \in Seq(AllRecords), Sorted(s)
        PROVE  \A i, j \in DOMAIN s : i < j => ReadFirst(Identity(s[i]), Identity(s[j]))
    BY <2>1, <2>4, PrecedesReads, ElementType DEF Sorted, Window
  <2>5. deals \in Seq(AllRecords) /\ orders \in Seq(AllRecords)
    BY <2>1, SequenceOfMore DEF AllRecords
  <2> QED
    BY <2>1, <2>2, <2>3, <2>4, <2>5 DEF AnswerIsReference
<1> QED
  BY RecordsInvariance, <1>1, PTL

\* Of several copies of a record the first one the broker listed is returned,
\* whatever sorting and limiting do after the others were removed.
THEOREM FirstCopyKept == RecordsSpec => []FirstCopySurvives
<1>1. ASSUME NEW T, NEW s \in Seq(T), NEW i \in DOMAIN s, NEW j \in DOMAIN s, i < j,
             Identity(s[i]) = Identity(s[j]), s[i] # s[j], s[j] \in FirstCopies(s)
      PROVE  \E k \in 1..(i - 1) : s[k] = s[j]
  <2>1. PICK k \in Firsts(s) : s[k] = s[j]
    BY <1>1 DEF FirstCopies
  <2>2. k \in DOMAIN s /\ \A m \in 1..(k - 1) : Identity(s[m]) # Identity(s[k])
    BY <2>1 DEF Firsts
  <2>3. k # i
    BY <1>1, <2>1
  <2>4. i \in Nat /\ k \in Nat /\ i >= 1 /\ k >= 1
    BY <2>2
  <2>5. i \notin 1..(k - 1)
    BY <1>1, <2>1, <2>2
  <2>6. k \in 1..(i - 1)
    BY <2>3, <2>4, <2>5
  <2> QED
    BY <2>1, <2>6
<1>2. RecordsInv => FirstCopySurvives
  <2> SUFFICES ASSUME RecordsInv, step \notin {"fetch", "deduplicate"} PROVE FirstCopySurvives
    BY DEF FirstCopySurvives
  <2>1. Window /\ OnlyFirstCopies /\ RecordsTypeOK
    BY DEF RecordsInv, RecordsTypeOK
  <2>2. /\ Page(upstreamDeals) \in Seq(Records("deal"))
        /\ Page(upstreamOrders) \in Seq(Records("order"))
    BY <2>1, PageTypes
  <2>3. Page(upstreamDeals) \in Seq(AllRecords) /\ Page(upstreamOrders) \in Seq(AllRecords)
    BY <2>2, SequenceOfMore DEF AllRecords
  <2>4. ASSUME NEW s, s = Page(upstreamDeals), NEW j \in DOMAIN s, s[j] \in Result
        PROVE  s[j] \in FirstCopies(s)
    <3>1. s \in Seq(Records("deal")) /\ orders \in Seq(Records("order")) /\ "deal" # "order"
      BY <2>1, <2>2, <2>4 DEF RecordsTypeOK
    <3>2. s[j] \notin ToSet(orders)
      BY <3>1, OtherCollection
    <3>3. ToSet(deals) \subseteq FirstCopies(s)
      BY <2>1, <2>4 DEF OnlyFirstCopies
    <3> QED
      BY <2>4, <3>2, <3>3 DEF Result
  <2>5. ASSUME NEW s, s = Page(upstreamOrders), NEW j \in DOMAIN s, s[j] \in Result
        PROVE  s[j] \in FirstCopies(s)
    <3>1. s \in Seq(Records("order")) /\ deals \in Seq(Records("deal")) /\ "order" # "deal"
      BY <2>1, <2>2, <2>5 DEF RecordsTypeOK
    <3>2. s[j] \notin ToSet(deals)
      BY <3>1, OtherCollection
    <3>3. ToSet(orders) \subseteq FirstCopies(s)
      BY <2>1, <2>5 DEF OnlyFirstCopies
    <3> QED
      BY <2>5, <3>2, <3>3 DEF Result
  <2>6. ASSUME NEW s \in Seq(AllRecords), \A j \in DOMAIN s : s[j] \in Result => s[j] \in FirstCopies(s)
        PROVE  \A i, j \in DOMAIN s :
                  i < j /\ Identity(s[i]) = Identity(s[j]) /\ s[i] # s[j] =>
                     s[j] \notin Result \/ \E k \in 1..(i - 1) : s[k] = s[j]
    BY <1>1, <2>6
  <2> QED
    BY <2>3, <2>4, <2>5, <2>6 DEF FirstCopySurvives
<1> QED
  BY RecordsInvariance, <1>2, PTL
=============================================================================
