------------------------------ MODULE MarketBars ------------------------------
(***************************************************************************)
(* get_bars() of services/market_service.py: what the broker returned is   *)
(* checked bar by bar, sorted by time, and reduced to one bar per time.    *)
(*                                                                         *)
(* A raw bar has a time, a serial number in the order of arrival, and says *)
(* whether its prices are numbers that can be the prices of a bar.         *)
(***************************************************************************)
EXTENDS Arrangement

\* int() has made a number of the time.
Bar == [time : Int, ok : BOOLEAN, serial : Nat]

Valid(raw) == raw.time > 0 /\ raw.ok

Checked(raw) == Subsequence(raw, {i \in DOMAIN raw : Valid(raw[i])})

\* list.sort() is stable: bars of one time stay in the order in which they came.
ByTime(bars) ==
    {p \in (DOMAIN bars) \X (DOMAIN bars) :
        \/ bars[p[1]].time < bars[p[2]].time
        \/ bars[p[1]].time = bars[p[2]].time /\ p[1] < p[2]}

SortedByTime(bars) == Picked(bars, DOMAIN bars, ByTime(bars))

FirstsOfTime(bars) == {i \in DOMAIN bars : \A j \in 1..(i - 1) : bars[j].time # bars[i].time}

\* Mutant: the first bar of a time is kept.
FirstOfTime(bars, t) == CHOOSE i \in FirstsOfTime(bars) : bars[i].time = t

LastOfTime(bars, t) ==
    CHOOSE i \in DOMAIN bars :
        bars[i].time = t /\ \A j \in (i + 1)..Len(bars) : bars[j].time # t

\* A dict keeps the place of the first bar of a time and the value of the last.
Deduplicated(bars) ==
    LET firsts == Subsequence(bars, FirstsOfTime(bars))
    IN  [k \in DOMAIN firsts |-> bars[LastOfTime(bars, firsts[k].time)]]

Normalized(raw) == Deduplicated(SortedByTime(Checked(raw)))
=============================================================================
