-------------------------- MODULE SnapshotPublisher --------------------------
(***************************************************************************)
(* The founder snapshot worker (scripts/Publish-FounderSnapshot.ps1, run   *)
(* with -Continuous) between the bridge it reads and the relay it posts    *)
(* to.  A cycle reads health, account, positions, quotes and bars one      *)
(* request after the other and posts the result; every Period-th cycle,    *)
(* and any for which the relay has no base, also carries the research      *)
(* archive.                                                                *)
(*                                                                         *)
(* The bridge answers as its endpoints do (api/health.py, account.py,      *)
(* positions.py, market.py and their services).  Of the payload only the   *)
(* positions are modelled, whether they can be converted, whether a quote  *)
(* has prices, and which requests for bars get as many as they need.  Not  *)
(* modelled: a second instrument, and a run without -Continuous, which is  *)
(* one cycle.                                                              *)
(***************************************************************************)
EXTENDS Naturals

CONSTANTS
    Period,      \* 240 in the script's loop
    Portfolios,  \* sets of open positions
    Empty,       \* the one without positions
    Unreadable   \* those with a direction, opening time or number the script rejects

ASSUME PublisherAssumption ==
    /\ Period \in Nat \ {0} /\ Empty \in Portfolios
    /\ Unreadable \subseteq Portfolios \ {Empty}

VARIABLES
    connected,  \* whether the bridge is up and its state is CONNECTED
    backend,    \* what the bridge was configured to read from
    broker,     \* whether that answers the bridge's reads
    supply,     \* the requests for bars it has enough valid bars for
    portfolio,  \* the positions the account has
    relay,      \* "lossy": requests arrive but their answers do not
    base,       \* whether the relay has a complete archive to add to
    pc,         \* the request the worker makes next
    full,       \* IncludeResearch
    positions,  \* what the bridge has answered about the positions
    honest,     \* history: whether the account had them when they were read
    priced,     \* whether the quote it has answered has bid and ask
    cycle,      \* $cycle, modulo Period
    since,      \* history: increments confirmed since the last complete archive was
    outcome     \* history: of the last cycle

bridge == <<connected, backend, broker, supply, portfolio>>
server == <<relay, base>>
read   == <<positions, honest, priced>>
vars   == <<bridge, server, pc, full, read, cycle, since, outcome>>

Pcs == {"health", "account", "positionsGate", "positions", "tick", "info", "bars",
        "convert", "research", "post", "pause"}

\* A client with neither is never connected.
Backends == {"metaapi", "metatrader5"}

\* What the script asks bars for: the newest ten of each timeframe for an
\* increment, the newest 120 for a complete archive, and H1 for the research.
Requests == {"increment", "complete", "research"}

\* The newest ten bars are among the newest 120.
Supplies == {s \in SUBSET Requests : "complete" \in s => "increment" \in s}

-----------------------------------------------------------------------------
Init ==
    /\ connected \in BOOLEAN /\ broker \in BOOLEAN /\ portfolio \in Portfolios
    /\ backend \in Backends /\ supply \in Supplies
    /\ relay \in {"up", "lossy", "down"} /\ base \in BOOLEAN
    /\ pc = "health" /\ full = TRUE
    /\ positions = Empty /\ honest = TRUE /\ priced = FALSE
    /\ cycle = 0 /\ since = 0 /\ outcome = "none"

Goto(where) ==
    /\ pc' = where
    /\ UNCHANGED <<full, cycle, since, outcome>>

\* The loop's catch block: the cycle will be repeated.
Throw ==
    /\ pc' = "pause" /\ outcome' = "failed"
    /\ UNCHANGED <<full, cycle, since>>

\* A request that answers without success, or not at all, ends the cycle.
Ask(answered, where) == IF answered THEN Goto(where) ELSE Throw

\* MetaApi is not asked for bars: with that backend there are none.
BarsSupported == backend = "metatrader5"

\* The endpoint asks for no more bars than the request names and leaves out
\* those that are invalid or have the time of another; the script stops if
\* fewer are left than it needs (all of them, or 500 for the research).
BarsAnswered(request) == connected /\ BarsSupported /\ broker /\ request \in supply

\* Convert-ToPositionSide, Convert-ToIsoTimestamp and the casts to numbers, of
\* every position.
Converted == positions \notin Unreadable

HealthAnswered == connected

AccountAnswered == connected /\ broker

ReadHealth ==
    /\ pc = "health"
    /\ Ask(HealthAnswered, "account")
    /\ UNCHANGED <<bridge, server, read>>

\* No account is answered with success FALSE.
ReadAccount ==
    /\ pc = "account"
    /\ Ask(AccountAnswered, "positionsGate")
    /\ UNCHANGED <<bridge, server, read>>

\* The endpoint looks at the state, then asks the service.
PositionsGate ==
    /\ pc = "positionsGate"
    /\ Ask(connected, "positions")
    /\ UNCHANGED <<bridge, server, read>>

\* No answer from the broker, or no connection any more, is an empty list.
ReadPositions ==
    /\ pc = "positions"
    /\ positions' = IF connected /\ broker THEN portfolio ELSE Empty
    /\ honest' = (positions' = portfolio)
    /\ Goto("tick")
    /\ UNCHANGED <<bridge, server, priced>>

\* Get-VerifiedMarkets: a missing quote or too few bars end the cycle.  The
\* quote endpoint asks for the tick, which has the prices, and then for the
\* symbol's description; it answers if it got one of the two.
ReadTick ==
    /\ pc = "tick"
    /\ IF connected THEN Goto("info") /\ priced' = broker
                    ELSE Throw /\ UNCHANGED priced
    /\ UNCHANGED <<bridge, server, positions, honest>>

ReadInfo ==
    /\ pc = "info"
    /\ Ask(priced \/ (connected /\ broker), "bars")
    /\ UNCHANGED <<bridge, server, read>>

ReadBars ==
    /\ pc = "bars"
    /\ Ask(BarsAnswered(IF full THEN "complete" ELSE "increment"), "convert")
    /\ UNCHANGED <<bridge, server, read>>

ConvertPositions ==
    /\ pc = "convert"
    /\ Ask(Converted, IF full THEN "research" ELSE "post")
    /\ UNCHANGED <<bridge, server, read>>

\* Get-VerifiedResearchHistory
ReadResearch ==
    /\ pc = "research"
    /\ Ask(BarsAnswered("research"), "post")
    /\ UNCHANGED <<bridge, server, read>>

(***************************************************************************)
(* The post.  External: the relay takes a complete archive at any time, an *)
(* increment only on a base, and answers 409 without one.                  *)
(***************************************************************************)
\* The next value of $cycle: only cycle % Period matters.
Following(c) == IF c = Period - 1 THEN 0 ELSE c + 1

Accepted == relay # "down" /\ (full \/ base)

\* Mutant: the cycle is counted whether or not it was accepted.
CountedEvenIfLost ==
    /\ pc' = "pause" /\ cycle' = Following(cycle)
    /\ outcome' = IF relay = "up" THEN "accepted" ELSE "failed"
    /\ since' = IF relay # "up" THEN since ELSE IF full THEN 0 ELSE since + 1
    /\ UNCHANGED full

Confirmed ==
    IF relay = "up"
      THEN /\ pc' = "pause" /\ outcome' = "accepted"
           /\ cycle' = Following(cycle)
           /\ since' = IF full THEN 0 ELSE since + 1
           /\ UNCHANGED full
      ELSE Throw

PostAccepted ==
    /\ pc = "post" /\ Accepted
    /\ base' = TRUE
    /\ Confirmed
    /\ UNCHANGED <<bridge, relay, read>>

\* Mutant: an increment without a base fails like any other.
PostRefusedThrows ==
    /\ pc = "post" /\ ~Accepted
    /\ Throw
    /\ UNCHANGED <<bridge, server, read>>

\* 409 to an increment: publish again, with the archive, in the same cycle.
PostRefused ==
    /\ pc = "post" /\ ~Accepted
    /\ IF relay = "up" /\ ~full
         THEN pc' = "health" /\ full' = TRUE /\ UNCHANGED <<cycle, since, outcome>>
         ELSE Throw
    /\ UNCHANGED <<bridge, server, read>>

\* Start-Sleep; the next cycle of the loop begins.
NextCycle ==
    /\ pc = "pause"
    /\ pc' = "health" /\ full' = (cycle = 0)
    /\ positions' = Empty /\ honest' = TRUE /\ priced' = FALSE
    /\ UNCHANGED <<bridge, server, cycle, since, outcome>>

(***************************************************************************)
(* The surroundings.                                                       *)
(***************************************************************************)
\* Somebody may start the bridge again with another backend.
BridgeChanges ==
    /\ connected' \in BOOLEAN /\ broker' \in BOOLEAN /\ portfolio' \in Portfolios
    /\ backend' \in Backends /\ supply' \in Supplies
    /\ UNCHANGED <<server, pc, full, read, cycle, since, outcome>>

RelayChanges ==
    /\ relay' \in {"up", "lossy", "down"}
    /\ base' \in {base, FALSE}
    /\ UNCHANGED <<bridge, pc, full, read, cycle, since, outcome>>

Step ==
    \/ ReadHealth \/ ReadAccount \/ PositionsGate \/ ReadPositions
    \/ ReadTick \/ ReadInfo \/ ReadBars \/ ConvertPositions \/ ReadResearch
    \/ PostAccepted \/ PostRefused \/ NextCycle

Next == Step \/ BridgeChanges \/ RelayChanges

Spec == Init /\ [][Next]_vars

\* The worker's loop runs; nothing is assumed about the bridge or the relay.
FairSpec == Spec /\ WF_vars(Step)

-----------------------------------------------------------------------------
TypeOK ==
    /\ connected \in BOOLEAN /\ broker \in BOOLEAN /\ portfolio \in Portfolios
    /\ backend \in Backends /\ supply \in Supplies
    /\ relay \in {"up", "lossy", "down"} /\ base \in BOOLEAN
    /\ pc \in Pcs /\ full \in BOOLEAN
    /\ positions \in Portfolios /\ honest \in BOOLEAN /\ priced \in BOOLEAN
    /\ cycle \in 0..(Period - 1)
    /\ since \in Nat /\ outcome \in {"none", "accepted", "failed"}

\* A complete archive is confirmed at least once in every Period confirmed
\* publications, whatever fails, is repeated or loses its answer in between:
\* no failure skips the cycle in which the archive is due.
FullEveryPeriod == since < Period

\* What a cycle needs from the bridge: the local terminal, connected and with
\* enough valid bars for every request, and positions the script can convert.
\* It needs all of it, since the first cycle and every later one in which the
\* archive is due is repeated until the archive is accepted.
Publishable ==
    /\ connected /\ BarsSupported /\ broker
    /\ supply = Requests /\ portfolio \notin Unreadable

\* Once the bridge stays publishable and the relay available, snapshots are
\* accepted again and again, even if the relay keeps losing its base.
PublicationRecovers ==
    <>[](Publishable /\ relay = "up") => []<>(pc = "pause" /\ outcome = "accepted")

-----------------------------------------------------------------------------
\* Stated by the project, refuted by the code (see README, findings): what is
\* published are the positions the account had when they were read.
PublishedPortfolioIsReal == [][PostAccepted => honest]_vars

\* A published quote has the prices the broker named.
PublishedQuoteIsReal == [][PostAccepted => priced]_vars
=============================================================================
