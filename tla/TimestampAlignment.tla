-------------------------- MODULE TimestampAlignment --------------------------
(***************************************************************************)
(* One run of the timestamp audit                                          *)
(* (stage_4e2_2_canonical_timestamp_audit.py) up to the point where its    *)
(* documents are written (EvidenceWriter): the OHLC exports are loaded,    *)
(* each end of each trade of the ledger is linked to its one deal, its     *)
(* time put on the axis of the bars and looked up in the series of every   *)
(* timeframe, and what has been counted decides the certification.         *)
(*                                                                         *)
(* Times are integers.  A bar is its epoch, a deal the facts compared with *)
(* the ledger: whether there is exactly one, whether its fields agree, its *)
(* source time and its broker wall-clock time.                             *)
(***************************************************************************)
EXTENDS Integers, Sequences, FiniteSets

CONSTANTS
    Timeframes,     \* REQUIRED_TIMEFRAMES
    Length,         \* TIMEFRAME_SECONDS
    Minute, Hour,   \* 60 and 3600 seconds
    ExpectedTrades, \* EXPECTED_TRADES, from which the other expected counts follow
    Times,          \* bounds on the inputs: source times,
    Epochs,         \*   epochs of bars,
    MaxBars,        \*   bars of a file,
    MaxTrades,      \*   and trades of the ledger
    None

ASSUME AlignmentAssumption ==
    /\ Length \in [Timeframes -> Nat \ {0}] /\ IsFiniteSet(Timeframes)
    /\ Minute \in Nat \ {0} /\ Hour \in Nat \ {0} /\ Hour % Minute = 0
    /\ Times \subseteq Int /\ Epochs \subseteq Int
    /\ ExpectedTrades \in Nat \ {0} /\ MaxBars \in Nat /\ MaxTrades \in Nat
    /\ None \notin Seq(Int)

VARIABLES
    pc,
    ledger,     \* the trades: the times the ledger gives for both ends
    series,     \* the epochs of each timeframe loaded
    at,         \* the trade and the end align() has reached
    canonical,  \* the canonical times found
    checks,     \* its checks
    unresolved, \* the records with a failure
    documents   \* what the documents say

vars == <<pc, ledger, series, at, canonical, checks, unresolved, documents>>

Ends == {"entry", "exit"}

Trades == DOMAIN ledger

-----------------------------------------------------------------------------
(* Lookups *)

StrictlyAscending(epochs) ==
    \A i, j \in DOMAIN epochs : i < j => epochs[i] < epochs[j]

\* bisect_right(): how many of the ascending epochs are not after the event.
Splits(epochs, event, k) ==
    /\ \A i \in 1..k : epochs[i] <= event
    /\ \A i \in (k + 1)..Len(epochs) : event < epochs[i]

BisectRight(epochs, event) == CHOOSE k \in 0..Len(epochs) : Splits(epochs, event, k)

\* Mutant: the closing instant belongs to the candle.
ContainedToClose(epochs, length, event) ==
    LET index == BisectRight(epochs, event) IN
    index > 0 /\ epochs[index] <= event /\ event <= epochs[index] + length

\* _containing_bar(): only the last bar that is not after the event is looked at.
Contained(epochs, length, event) ==
    LET index == BisectRight(epochs, event) IN
    index > 0 /\ epochs[index] <= event /\ event < epochs[index] + length

\* Mutant: any whole number of minutes is taken.
AnyOffset(source, broker) == (broker - source) % Minute = 0

\* canonicalize_deal_timestamp() accepts no other relation of the two clocks.
ApprovedOffset(source, broker) ==
    /\ (broker - source) % Minute = 0
    /\ (broker - source) \div Minute \in {0, Hour \div Minute}

-----------------------------------------------------------------------------
Init ==
    /\ pc = "ledger" /\ ledger = <<>>
    /\ series = [f \in Timeframes |-> None]
    /\ at = [trade |-> 1, end |-> "entry"]
    /\ canonical = <<>> /\ checks = {} /\ unresolved = {}
    /\ documents = None

\* Any ValueError ends the run, and nothing is written: an input that is no JSON
\* or has the wrong shape, a file whose hash, count or content is not as it should
\* be, an endpoint without exactly one deal.
Raise ==
    /\ pc \notin {"built", "raised"}
    /\ pc' = "raised"
    /\ UNCHANGED <<ledger, series, at, canonical, checks, unresolved, documents>>

\* A non-empty array of records.
LoadLedger ==
    /\ pc = "ledger"
    /\ \E n \in 1..MaxTrades : ledger' \in [1..n -> [entry : Times, exit : Times]]
    /\ pc' = "sources"
    /\ UNCHANGED <<series, at, canonical, checks, unresolved, documents>>

\* One item of the manifest's exports, of a timeframe not met before: a file of
\* at least one bar, all of them in strictly ascending order.
ReadBars(f) ==
    /\ pc = "sources" /\ series[f] = None
    /\ \E n \in 1..MaxBars : \E epochs \in [1..n -> Epochs] :
          /\ StrictlyAscending(epochs)
          /\ series' = [series EXCEPT ![f] = epochs]
    /\ UNCHANGED <<pc, ledger, at, canonical, checks, unresolved, documents>>

\* No export is missing.
SourcesLoaded ==
    /\ pc = "sources" /\ \A f \in Timeframes : series[f] # None
    /\ pc' = "align"
    /\ UNCHANGED <<ledger, series, at, canonical, checks, unresolved, documents>>

\* The checks of one end of a trade, one for each timeframe; whether the price is
\* within the bar is open, and it is not where there is no bar.
ChecksOf(trade, end, event, contained) ==
    {[trade |-> trade, end |-> end, timeframe |-> f,
      aligned |-> Contained(series[f], Length[f], event),
      contained |-> f \in contained /\ Contained(series[f], Length[f], event)]
        : f \in Timeframes}

\* The deal of the endpoint agrees with the ledger in all fields and in its time,
\* and its wall-clock time is the canonical one, the source time if the broker's
\* clock differs by nothing, an hour more if it differs by that; else it raises.
AlignEnd(end, next) ==
    /\ pc = "align" /\ at.end = end /\ at.trade \in Trades
    /\ \E broker \in {ledger[at.trade][end] + d : d \in (-1)..(Hour + 1)}, contained \in SUBSET Timeframes :
          /\ ApprovedOffset(ledger[at.trade][end], broker)
          /\ canonical' = Append(canonical, broker)
          /\ checks' = checks \cup ChecksOf(at.trade, end, broker, contained)
    /\ at' = [at EXCEPT !.end = next]
    /\ UNCHANGED <<pc, ledger, series, unresolved, documents>>

\* The entry and then the exit of the trade.
AlignEntry == AlignEnd("entry", "exit")

AlignExit == AlignEnd("exit", "record")

EntryOf(trade) == canonical[2 * trade - 1]
ExitOf(trade)  == canonical[2 * trade]

\* Mutant: only an exit can fail.
FailedAtExit(trade) ==
    \/ \E c \in checks : c.trade = trade /\ c.end = "exit" /\ ~c.aligned
    \/ ExitOf(trade) < EntryOf(trade)

\* record_failures: a check without a candle, or an exit before the entry.
Failed(trade) ==
    \/ \E c \in checks : c.trade = trade /\ ~c.aligned
    \/ ExitOf(trade) < EntryOf(trade)

CloseRecord ==
    /\ pc = "align" /\ at.end = "record"
    /\ unresolved' = IF Failed(at.trade) THEN unresolved \cup {at.trade} ELSE unresolved
    /\ at' = [trade |-> at.trade + 1, end |-> "entry"]
    /\ UNCHANGED <<pc, ledger, series, canonical, checks, documents>>

Aligned == {c \in checks : c.aligned}

PriceContained == {c \in checks : c.contained}

ExpectedChecks == ExpectedTrades * 2 * Cardinality(Timeframes)

\* counts of build_documents(): trades, linked deals, checks.
CorpusIntegrity ==
    /\ Len(ledger) = ExpectedTrades
    /\ Len(canonical) = 2 * ExpectedTrades
    /\ Cardinality(checks) = ExpectedChecks

\* Mutant: the rate is rounded up.
NearlyAllAligned == CorpusIntegrity /\ Cardinality(Aligned) >= ExpectedChecks - 1

TimestampCertified == CorpusIntegrity /\ Cardinality(Aligned) = ExpectedChecks

\* build_documents(): the certification, and the gap document.
BuildDocuments ==
    /\ pc = "align" /\ at.trade \notin Trades
    /\ documents' = [
          certified |-> TimestampCertified,
          status |-> IF ~TimestampCertified THEN "REVIEW_REQUIRED"
                     ELSE IF Cardinality(PriceContained) # ExpectedChecks
                     THEN "PRICE_EVIDENCE_REVIEW_REQUIRED" ELSE "CERTIFIED",
          unresolvedRecords |-> unresolved,
          timestampFailures |-> checks \ Aligned,
          priceExceptions |-> checks \ PriceContained]
    /\ pc' = "built"
    /\ UNCHANGED <<ledger, series, at, canonical, checks, unresolved>>

Next ==
    \/ Raise \/ LoadLedger \/ SourcesLoaded \/ AlignEntry \/ AlignExit \/ CloseRecord
    \/ BuildDocuments
    \/ \E f \in Timeframes : ReadBars(f)

Spec == Init /\ [][Next]_vars

-----------------------------------------------------------------------------
Checks == [trade : 1..MaxTrades, end : Ends, timeframe : Timeframes,
           aligned : BOOLEAN, contained : BOOLEAN]

Documents == [certified : BOOLEAN,
              status : {"REVIEW_REQUIRED", "PRICE_EVIDENCE_REVIEW_REQUIRED", "CERTIFIED"},
              unresolvedRecords : SUBSET (1..MaxTrades),
              timestampFailures : SUBSET Checks, priceExceptions : SUBSET Checks]

TypeOK ==
    /\ pc \in {"ledger", "sources", "align", "built", "raised"}
    /\ ledger \in Seq([entry : Times, exit : Times]) /\ Len(ledger) <= MaxTrades
    /\ series \in [Timeframes -> Seq(Epochs) \cup {None}]
    /\ at \in [trade : 1..(MaxTrades + 1), end : Ends \cup {"record"}]
    /\ canonical \in Seq(Int) /\ Len(canonical) <= 2 * MaxTrades
    /\ checks \subseteq Checks /\ unresolved \subseteq 1..MaxTrades
    /\ documents \in Documents \cup {None}

\* The canonical time of an end of a trade.
EventOf(trade, end) == IF end = "entry" THEN EntryOf(trade) ELSE ExitOf(trade)

\* Looking at one bar found by bisection misses no candle: a check is aligned
\* exactly when some bar of its series, whatever the gaps, holds the event.
AlignedMeansContained ==
    \A c \in checks : c.aligned <=>
        \E i \in DOMAIN series[c.timeframe] :
            LET epoch == series[c.timeframe][i]
                event == EventOf(c.trade, c.end) IN
            epoch <= event /\ event < epoch + Length[c.timeframe]

\* A certification decided by counting means the whole corpus: every end of every
\* one of the expected trades has its candle in every timeframe.
CertifiedMeansWholeCorpus ==
    documents # None /\ documents.certified =>
        /\ Trades = 1..ExpectedTrades
        /\ \A t \in Trades, end \in Ends, f \in Timeframes :
              \E i \in DOMAIN series[f] :
                  /\ series[f][i] <= EventOf(t, end)
                  /\ EventOf(t, end) < series[f][i] + Length[f]

\* No shift but the two approved ones is ever applied, so that the duration of a
\* trade is never wrong by more than an hour, and its ends are exchanged only if
\* the broker's clock had moved between them.
ShiftsAreApproved ==
    \A t \in Trades : 2 * t <= Len(canonical) =>
        LET in == EntryOf(t) - ledger[t].entry
            out == ExitOf(t) - ledger[t].exit IN
        /\ {in, out} \subseteq {0, Hour}
        /\ ledger[t].entry <= ledger[t].exit /\ ExitOf(t) < EntryOf(t) =>
              in = Hour /\ out = 0 /\ ledger[t].exit - ledger[t].entry < Hour

\* The gap document is never empty when a corpus of the expected size is not
\* certified: it names a record, and the checks it lists are those without a
\* candle.  A corpus of another size is refused for that, which no entry says: its
\* gap document may be empty.
GapExplainsRefusal ==
    documents # None =>
        /\ ~documents.certified /\ Len(ledger) = ExpectedTrades =>
              documents.unresolvedRecords # {} /\ documents.timestampFailures # {}
        /\ \A c \in documents.timestampFailures : c.trade \in documents.unresolvedRecords
        /\ documents.timestampFailures \subseteq documents.priceExceptions

\* The inductive invariant behind them.  Where an end of a trade has its canonical
\* time, and how many have been found when align() is at some place.
Index(trade, end) == 2 * trade - (IF end = "entry" THEN 1 ELSE 0)

Found == 2 * (at.trade - 1) + (CASE at.end = "entry" -> 0 [] at.end = "exit" -> 1 [] OTHER -> 2)

PositionInv ==
    /\ Len(canonical) = Found
    /\ at.trade \in 1..(Len(ledger) + 1) /\ (at.end # "entry" => at.trade \in Trades)
    /\ pc \in {"ledger", "sources"} => at = [trade |-> 1, end |-> "entry"] /\ checks = {}
    /\ pc = "built" => at.trade = Len(ledger) + 1
    /\ documents # None => pc = "built"

SeriesInv ==
    /\ \A f \in Timeframes : series[f] # None => StrictlyAscending(series[f])
    /\ pc \in {"align", "built"} => \A f \in Timeframes : series[f] # None

ShiftInv ==
    \A t \in Trades, end \in Ends :
        Index(t, end) <= Len(canonical) => canonical[Index(t, end)] - ledger[t][end] \in {0, Hour}

\* Every check is the result of the lookup of its event,
ResultsInv ==
    \A c \in checks :
        /\ Index(c.trade, c.end) \in DOMAIN canonical
        /\ series[c.timeframe] # None
        /\ c.contained => c.aligned
        /\ c.aligned <=> Contained(series[c.timeframe], Length[c.timeframe],
                                   canonical[Index(c.trade, c.end)])

\* each event has its checks, and there are no others,
CoverageInv ==
    /\ \A t \in 1..MaxTrades, end \in Ends, f \in Timeframes :
          Index(t, end) \in DOMAIN canonical =>
              \E c \in checks : c.trade = t /\ c.end = end /\ c.timeframe = f
    /\ IsFiniteSet(checks)
    /\ Cardinality(checks) = Cardinality(Timeframes) * Len(canonical)

\* and a trade that is closed with a failed check is unresolved.
RecordsInv ==
    \A c \in checks : c.trade < at.trade /\ ~c.aligned => c.trade \in unresolved

DocumentsInv ==
    documents # None =>
        /\ documents.certified = TimestampCertified
        /\ documents.unresolvedRecords = unresolved
        /\ documents.timestampFailures = checks \ Aligned
        /\ documents.priceExceptions = checks \ PriceContained

AuditInv ==
    /\ PositionInv /\ SeriesInv /\ ShiftInv /\ ResultsInv /\ CoverageInv
    /\ RecordsInv /\ DocumentsInv

-----------------------------------------------------------------------------
\* Stated by the project, refuted by the code (see README, findings).

\* Any temporal failure prevents certification.
CertifiedMeansResolved ==
    documents # None /\ documents.certified => documents.unresolvedRecords = {}
=============================================================================
