--------------------------- MODULE HistoryRecords ---------------------------
(***************************************************************************)
(* What get_history() (services/history_service.py) does with the deals    *)
(* and orders it has fetched: one page per collection, then duplicates are *)
(* removed, both collections sorted newest first, the limit applied over   *)
(* the two together, and both sorted again.                                *)
(*                                                                         *)
(* A record is its identity and which of several copies it is.  The        *)
(* identity (_stable_record_id) covers the broker's identifiers and the    *)
(* timestamp, so copies of a record share the timestamp and may differ in  *)
(* any other field.  Identities are compared as strings that begin with    *)
(* "deal_" or "order_".                                                    *)
(***************************************************************************)
EXTENDS Arrangement, SequencesExt

CONSTANTS
    Ids,        \* digests of the broker's identifiers, in the order of the strings
    Copies,     \* payloads that do not enter the identity
    Timestamps, \* timestamps, as numbers
    NoTime,     \* _timestamp_value of a record without a readable timestamp
    MaxDeals,   \* bounds on what the broker has in the window
    MaxOrders,
    PageSize,   \* "limit": 1000 of the upstream request
    Limits,     \* values of the request's limit
    NoLimit     \* no limit in the request

ASSUME RecordsAssumption ==
    Ids \subseteq Nat /\ IsFiniteSet(Ids) /\ Timestamps \subseteq Nat /\ NoTime \notin Nat
ASSUME LimitsAssumption == NoLimit \notin Limits /\ Limits \subseteq Nat \ {0}
ASSUME PageAssumption == MaxDeals \in Nat /\ MaxOrders \in Nat /\ PageSize \in Nat \ {0}

VARIABLES
    upstreamDeals, upstreamOrders,  \* the broker's records in the window
    deals, orders,                  \* normalized_deals, normalized_orders
    limit,
    timeOf,                         \* the timestamp in each identity
    step                            \* the stage get_history() has reached

upstream    == <<upstreamDeals, upstreamOrders, limit, timeOf>>
recordsVars == <<upstream, deals, orders, step>>

Kinds   == {"deal", "order"}
Records(k) == [kind : {k}, id : Ids, copy : Copies]

Collections(k, size) == UNION {[1..n -> Records(k)] : n \in 0..size}

Identity(r) == <<r.kind, r.id>>

First(n, s) == SubSeq(s, 1, IF n < Len(s) THEN n ELSE Len(s))

Page(s) == First(PageSize, s)

-----------------------------------------------------------------------------
(***************************************************************************)
(* The helpers.                                                            *)
(***************************************************************************)
\* The positions of the records no earlier one of the sequence is a copy of.
Firsts(s) == {i \in DOMAIN s : \A j \in 1..(i - 1) : Identity(s[j]) # Identity(s[i])}

\* Mutant: a later copy replaces the one already kept.
DeduplicateLast(s) ==
    Subsequence(s, {i \in DOMAIN s : \A j \in (i + 1)..Len(s) : Identity(s[j]) # Identity(s[i])})

\* The dictionary keeps the first copy of an identity, in order of arrival.
Deduplicate(s) == Subsequence(s, Firsts(s))

\* Newest first, records without a timestamp last.
NewestFirst(t, u) == t # NoTime /\ (u = NoTime \/ t > u)

\* As strings, every deal's record_id is below every order's.
LowerId(r, q) ==
    \/ r.kind = "deal" /\ q.kind = "order"
    \/ r.kind = q.kind /\ r.id < q.id

\* The sort key.
Precedes(r, q) ==
    LET t == timeOf[Identity(r)]
        u == timeOf[Identity(q)]
    IN  NewestFirst(t, u) \/ (t = u /\ LowerId(r, q))

\* sorted() is stable: equal keys keep their order.
SortOrder(s) ==
    {p \in (DOMAIN s) \X (DOMAIN s) :
        \/ Precedes(s[p[1]], s[p[2]])
        \/ ~Precedes(s[p[2]], s[p[1]]) /\ p[1] < p[2]}

SortRecords(s) == Picked(s, DOMAIN s, SortOrder(s))

\* Mutant: the limit holds for each collection by itself.
ApplyLimitSeparately(ds, os) ==
    IF limit = NoLimit THEN <<ds, os>>
    ELSE <<First(limit, ds), First(limit, os)>>

\* The identities of the newest `limit' records of both collections.
Selected(ds, os) == {Identity(r) : r \in ToSet(First(limit, SortRecords(ds \o os)))}

OfIdentities(s, identities) == Subsequence(s, {i \in DOMAIN s : Identity(s[i]) \in identities})

\* Mutant: the two collections change places.
ApplyLimitSwapped(ds, os) ==
    IF limit = NoLimit THEN <<ds, os>>
    ELSE <<OfIdentities(os, Selected(ds, os)), OfIdentities(ds, Selected(ds, os))>>

\* What is selected stays in its collection and where it was.
ApplyTotalLimit(ds, os) ==
    IF limit = NoLimit THEN <<ds, os>>
    ELSE <<OfIdentities(ds, Selected(ds, os)), OfIdentities(os, Selected(ds, os))>>

-----------------------------------------------------------------------------
RecordsInit ==
    /\ upstreamDeals \in Collections("deal", MaxDeals)
    /\ upstreamOrders \in Collections("order", MaxOrders)
    /\ limit \in Limits \cup {NoLimit}
    /\ timeOf \in [Kinds \X Ids -> Timestamps \cup {NoTime}]
    /\ deals = <<>> /\ orders = <<>>
    /\ step = "fetch"

FetchBoth ==
    /\ step = "fetch"
    /\ deals' = Page(upstreamDeals) /\ orders' = Page(upstreamOrders)
    /\ step' = "deduplicate"
    /\ UNCHANGED upstream

DeduplicateBoth ==
    /\ step = "deduplicate"
    /\ deals' = Deduplicate(deals) /\ orders' = Deduplicate(orders)
    /\ step' = "sort"
    /\ UNCHANGED upstream

SortBoth ==
    /\ step \in {"sort", "resort"}
    /\ deals' = SortRecords(deals) /\ orders' = SortRecords(orders)
    /\ step' = IF step = "sort" THEN "limit" ELSE "done"
    /\ UNCHANGED upstream

LimitBoth ==
    /\ step = "limit"
    /\ LET kept == ApplyTotalLimit(deals, orders)
       IN  deals' = kept[1] /\ orders' = kept[2]
    /\ step' = "resort"
    /\ UNCHANGED upstream

RecordsNext == FetchBoth \/ DeduplicateBoth \/ SortBoth \/ LimitBoth

RecordsSpec == RecordsInit /\ [][RecordsNext]_recordsVars

-----------------------------------------------------------------------------
RecordsTypeOK ==
    /\ deals \in Seq(Records("deal")) /\ orders \in Seq(Records("order"))
    /\ step \in {"fetch", "deduplicate", "sort", "limit", "resort", "done"}

Result == ToSet(deals) \cup ToSet(orders)

Fetched == ToSet(Page(upstreamDeals)) \cup ToSet(Page(upstreamOrders))

(***************************************************************************)
(* Reference: the answer as a set and an order, with no sorting or slicing *)
(* in it.  It depends on which identities arrived, not on how often nor in *)
(* which order.                                                            *)
(***************************************************************************)
Arrived == {Identity(r) : r \in Fetched}

Age(a)   == IF timeOf[a] = NoTime THEN -1 ELSE timeOf[a]
Label(a) == IF a[1] = "deal" THEN a[2] ELSE a[2] + Max(Ids) + 1

ReadFirst(a, b) == Age(a) > Age(b) \/ (Age(a) = Age(b) /\ Label(a) < Label(b))

NewestIdentities ==
    {a \in Arrived : limit = NoLimit \/ Cardinality({b \in Arrived : ReadFirst(b, a)}) < limit}

\* The answer holds exactly the newest records up to the limit over deals and
\* orders together, each once, in the promised order: repeating a request in
\* which the broker lists the same records otherwise gives the same identities.
AnswerIsReference ==
    step = "done" =>
        /\ {Identity(r) : r \in Result} = NewestIdentities
        /\ Len(deals) + Len(orders) = Cardinality(NewestIdentities)
        /\ \A s \in {deals, orders} : \A i, j \in DOMAIN s :
              i < j => ReadFirst(Identity(s[i]), Identity(s[j]))

\* Of several copies of a record the first one the broker listed is returned,
\* in whichever stage it is looked at: sorting and limiting do not bring back
\* a copy that was removed.
FirstCopySurvives ==
    step \notin {"fetch", "deduplicate"} =>
        \A s \in {Page(upstreamDeals), Page(upstreamOrders)} :
            \A i, j \in DOMAIN s :
                i < j /\ Identity(s[i]) = Identity(s[j]) /\ s[i] # s[j] =>
                    s[j] \notin Result \/ \E k \in 1..(i - 1) : s[k] = s[j]

-----------------------------------------------------------------------------
\* Stated by the project, refuted by the code (see README, findings): without a
\* limit in the request every record of the window is returned.
AllRecordsReturned ==
    step = "done" /\ limit = NoLimit =>
        {Identity(r) : r \in ToSet(upstreamDeals) \cup ToSet(upstreamOrders)}
            = {Identity(r) : r \in Result}
=============================================================================
