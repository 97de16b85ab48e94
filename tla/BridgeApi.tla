------------------------------ MODULE BridgeApi ------------------------------
(***************************************************************************)
(* The application (app.py): its event loop starts the connection manager, *)
(* serves requests, and stops the manager.  A handler (api/, services/)    *)
(* runs on the loop from its first to its last statement without giving it *)
(* up, and the server has its requests answered before it shuts down, so   *)
(* that two handlers, or a handler and stop(), never overlap; what runs at *)
(* the same time is the manager's worker thread.  Only a middleware can be *)
(* overtaken by another request, and it changes nothing.                   *)
(*                                                                         *)
(* A step of a handler is one call of the manager or of the broker client. *)
(* What history makes of its two fetches is in HistoryService; how the     *)
(* client finds its answers is in MetaApiClient.                           *)
(***************************************************************************)
EXTENDS ConnectionManager, MarketBars

CONSTANTS
    RawBars     \* what the terminal can return for a request of bars

ASSUME RawBarsAssumption == RawBars \subseteq Seq(Bar)

VARIABLES
    phase,      \* of the application
    request,    \* the request being served
    at,         \* where its handler is
    left,       \* reads of the broker it has still to make
    found,      \* whether a read has returned something
    failed,     \* whether a read has failed or was refused
    bars,       \* the bars read, as they came
    report,     \* what health has read of the manager
    answer      \* the last answer given

manager == <<lifecycle, control, client, counters, pc>>
served  == <<left, found, failed, bars, report>>
handler == <<request, at, served, answer>>
appVars == <<manager, phase, handler>>

Endpoints == {"health", "account", "positions", "symbols", "market", "bars", "history", "trade"}

\* The handlers that look at the manager's state before anything else.
Gated == Endpoints \ {"health", "history"}

Parameterized == {"market", "bars", "history", "trade"}

Reads(endpoint) ==
    CASE endpoint \in {"account", "positions", "symbols", "bars"} -> 1
      [] endpoint \in {"market", "history"} -> 2
      [] OTHER -> 0

NoReport == [state |-> "none", initialized |-> FALSE, uptime |-> FALSE]

-----------------------------------------------------------------------------
AppInit ==
    /\ Init
    /\ phase = "starting"
    /\ request = [endpoint |-> "health", authorized |-> FALSE, valid |-> FALSE]
    /\ at = "idle" /\ left = 0 /\ found = FALSE /\ failed = FALSE /\ bars = <<>>
    /\ report = NoReport /\ answer = "none"

\* on_startup()
Startup ==
    /\ phase = "starting"
    /\ Start
    /\ phase' = "serving"
    /\ UNCHANGED handler

\* on_shutdown(), when no request is being served; stop() runs on the loop.
Shutdown ==
    /\ phase = "serving" /\ at = "idle"
    /\ phase' = "stopping"
    /\ IF NothingToStop THEN UNCHANGED manager ELSE Stop
    /\ UNCHANGED handler

Receive ==
    /\ phase = "serving" /\ at = "idle"
    /\ request' \in [endpoint : Endpoints, authorized : BOOLEAN, valid : BOOLEAN]
    /\ at' = "authenticate"
    /\ left' = 0 /\ found' = FALSE /\ failed' = FALSE /\ bars' = <<>> /\ report' = NoReport
    /\ answer' = "none"
    /\ UNCHANGED <<manager, phase>>

Answer(code) == answer' = code /\ at' = "log"

\* AuthenticationMiddleware; the path of health is exempt.
Authenticate ==
    /\ at = "authenticate"
    /\ IF request.endpoint # "health" /\ ~request.authorized
       THEN Answer("AUTHENTICATION_FAILED")
       ELSE at' = "validate" /\ UNCHANGED answer
    /\ UNCHANGED <<manager, phase, request, served>>

\* The parameters of the endpoints that have some.
Validate ==
    /\ at = "validate"
    /\ left' = Reads(request.endpoint)
    /\ IF request.endpoint \in Parameterized /\ ~request.valid THEN Answer("INVALID")
       ELSE /\ at' = IF request.endpoint = "health" THEN "health"
                     ELSE IF request.endpoint \in Gated THEN "gate" ELSE "ready"
            /\ UNCHANGED answer
    /\ UNCHANGED <<manager, phase, request, found, failed, bars, report>>

\* Mutant: only a manager that has given up is turned away.
GateUnlessFailed ==
    /\ at = "gate" /\ lock = "free"
    /\ IF state \in {"DISCONNECTED", "FAILED"} THEN Answer("BRIDGE_NOT_CONNECTED")
       ELSE /\ at' = IF request.endpoint = "trade" THEN "service" ELSE "ready"
            /\ UNCHANGED answer
    /\ UNCHANGED <<manager, phase, request, served>>

\* connection_manager.get_state()
Gate ==
    /\ at = "gate" /\ lock = "free"
    /\ IF state # "CONNECTED" THEN Answer("BRIDGE_NOT_CONNECTED")
       ELSE /\ at' = IF request.endpoint = "trade" THEN "service" ELSE "ready"
            /\ UNCHANGED answer
    /\ UNCHANGED <<manager, phase, request, served>>

\* Trading is disabled by the settings, or refused by the service.
Trade ==
    /\ at = "service"
    /\ Answer("TRADING_DISABLED") \/ Answer("NOT_IMPLEMENTED")
    /\ UNCHANGED <<manager, phase, request, served>>

\* Mutant: the proxies wait for the connection.
ReadyWaits ==
    /\ at = "ready" /\ lock = "free"
    /\ state = "CONNECTED" /\ mt5Initialized
    /\ at' = "read"
    /\ UNCHANGED <<manager, phase, request, served, answer>>

\* _ensure_ready_for_reads(), at the head of every fetch_...(); a refused read
\* is recorded as an error and returns nothing.
Ready ==
    /\ at = "ready" /\ lock = "free"
    /\ IF state = "CONNECTED" /\ mt5Initialized
       THEN at' = "read" /\ UNCHANGED <<left, failed>>
       ELSE /\ failed' = TRUE /\ left' = left - 1
            /\ at' = IF left = 1 THEN "respond" ELSE "ready"
    /\ UNCHANGED <<manager, phase, request, found, bars, report, answer>>

-----------------------------------------------------------------------------
(* The client's reads: content, nothing, or a failure, which comes back as *)
(* nothing, too.                                                           *)

Reachable == clientInitialized /\ backend = "up"

AccountInfo == IF Reachable THEN {"content"} ELSE {"failure"}

PositionsGet == IF Reachable THEN {"content", "nothing"} ELSE {"failure"}

SymbolsGet == IF Reachable THEN {"content", "nothing"} ELSE {"failure"}

\* The broker need not know the symbol.
SymbolInfoTick == IF Reachable THEN {"content", "failure"} ELSE {"failure"}

SymbolInfo == IF Reachable THEN {"content", "failure"} ELSE {"failure"}

\* Of deals, and of orders.
HistoryGet == IF Reachable THEN {"content", "nothing"} ELSE {"failure"}

CopyRates == IF Reachable THEN RawBars ELSE {<<>>}

\* The quote is read as its tick and then the symbol.
Returns ==
    CASE request.endpoint = "account"   -> AccountInfo
      [] request.endpoint = "positions" -> PositionsGet
      [] request.endpoint = "symbols"   -> SymbolsGet
      [] request.endpoint = "market"    -> IF left = 2 THEN SymbolInfoTick ELSE SymbolInfo
      [] request.endpoint = "history"   -> HistoryGet

Read ==
    /\ at = "read"
    /\ left' = left - 1 /\ at' = IF left = 1 THEN "respond" ELSE "ready"
    /\ IF request.endpoint = "bars"
       THEN /\ bars' \in CopyRates /\ failed' = ~Reachable
            /\ UNCHANGED found
       ELSE \E outcome \in Returns :
              /\ found' = (found \/ outcome = "content")
              /\ failed' = (failed \/ outcome = "failure")
              /\ UNCHANGED bars
    /\ UNCHANGED <<manager, phase, request, report, answer>>

-----------------------------------------------------------------------------
(* The answers *)

AccountAnswers == IF found THEN {"SUCCESS"} ELSE {"UNAVAILABLE"}

\* A list is a success whatever came back.
PositionsAnswers == {"SUCCESS"}
SymbolsAnswers   == {"SUCCESS"}

\* One of the two reads is enough.
QuoteAnswers == IF found THEN {"SUCCESS"} ELSE {"UNAVAILABLE"}

\* No bar is left only if none passed the checks (see NormalizedIsEmpty).
BarsAnswers == IF Checked(bars) # <<>> THEN {"SUCCESS"} ELSE {"UNAVAILABLE"}

\* The service finds some of the failures out.
HistoryAnswers == IF failed THEN {"SUCCESS", "HISTORY_ERROR"} ELSE {"SUCCESS"}

Answers ==
    CASE request.endpoint = "account"   -> AccountAnswers
      [] request.endpoint = "positions" -> PositionsAnswers
      [] request.endpoint = "symbols"   -> SymbolsAnswers
      [] request.endpoint = "market"    -> QuoteAnswers
      [] request.endpoint = "bars"      -> BarsAnswers
      [] request.endpoint = "history"   -> HistoryAnswers

Respond ==
    /\ at = "respond"
    /\ \E code \in Answers : Answer(code)
    /\ UNCHANGED <<manager, phase, request, served>>

\* get_health() and get_capabilities() are two critical sections.
ReadHealth ==
    /\ at = "health" /\ lock = "free"
    /\ report' = [state |-> state, initialized |-> mt5Initialized, uptime |-> startupTime]
    /\ at' = "capabilities"
    /\ UNCHANGED <<manager, phase, request, left, found, failed, bars, answer>>

\* Mutant: the newer of the two states is reported.
ReportNewerState ==
    /\ at = "capabilities" /\ lock = "free"
    /\ report' = [report EXCEPT !.state = state]
    /\ Answer(IF state = "CONNECTED" THEN "SUCCESS" ELSE "CONNECTION_NOT_READY")
    /\ UNCHANGED <<manager, phase, request, left, found, failed, bars>>

ReadCapabilities ==
    /\ at = "capabilities" /\ lock = "free"
    /\ report' = [report EXCEPT !.initialized = @ \/ mt5Initialized]
    /\ Answer(IF report.state = "CONNECTED" THEN "SUCCESS" ELSE "CONNECTION_NOT_READY")
    /\ UNCHANGED <<manager, phase, request, left, found, failed, bars>>

\* RequestIDMiddleware asks for the state once more, for the log.
Log ==
    /\ at = "log" /\ lock = "free"
    /\ at' = "idle"
    /\ UNCHANGED <<manager, phase, request, served, answer>>

Handle ==
    \/ Authenticate \/ Validate \/ Gate \/ Trade \/ Ready \/ Read \/ Respond
    \/ ReadHealth \/ ReadCapabilities \/ Log

\* What runs beside the event loop, and stop() once it has been called.
Beside ==
    /\ LockHolder \/ (\E t \in Threads : Loop(t) \/ Attempt(t)) \/ BackendChanges
    /\ UNCHANGED <<phase, handler>>

AppNext == Startup \/ Shutdown \/ Receive \/ Handle \/ Beside

AppSpec == AppInit /\ [][AppNext]_appVars

AppFairness ==
    /\ WF_appVars(Startup) /\ WF_appVars(Handle)
    /\ WF_appVars(LockHolder /\ UNCHANGED <<phase, handler>>)
    /\ \A t \in Threads : WF_appVars((Loop(t) \/ Attempt(t)) /\ UNCHANGED <<phase, handler>>)

FairAppSpec == AppSpec /\ AppFairness

-----------------------------------------------------------------------------
Codes == {"none", "AUTHENTICATION_FAILED", "INVALID", "BRIDGE_NOT_CONNECTED", "UNAVAILABLE",
          "CONNECTION_NOT_READY", "TRADING_DISABLED", "NOT_IMPLEMENTED", "HISTORY_ERROR", "SUCCESS"}

AppTypeOK ==
    /\ TypeOK
    /\ phase \in {"starting", "serving", "stopping"}
    /\ request \in [endpoint : Endpoints, authorized : BOOLEAN, valid : BOOLEAN]
    /\ at \in {"idle", "authenticate", "validate", "gate", "service", "ready", "read", "respond",
               "health", "capabilities", "log"}
    /\ left \in 0..2 /\ found \in BOOLEAN /\ failed \in BOOLEAN /\ bars \in RawBars \cup {<<>>}
    /\ report \in [state : States \cup {"none"}, initialized : BOOLEAN, uptime : BOOLEAN]
    /\ answer \in Codes

\* A health report of success is of one moment, although it is made of two reads
\* of the manager with the worker between them: connected, initialized and up.
HealthyMeansSession ==
    request.endpoint = "health" /\ answer = "SUCCESS" =>
        report = [state |-> "CONNECTED", initialized |-> TRUE, uptime |-> TRUE]

\* Once a handler has found the bridge connected it stays so until the answer:
\* the state that was checked is not stale when the service is called.
GateHolds ==
    request.endpoint \in Gated /\ at \in {"ready", "read", "respond", "service"} =>
        state = "CONNECTED" /\ mt5Initialized

\* While the broker is read the session is open and the worker attempts nothing:
\* nobody else uses the client, or overwrites the last error by which history
\* finds out that the read has failed.
ReadsAreUndisturbed ==
    at = "read" =>
        /\ state = "CONNECTED" /\ mt5Initialized /\ clientInitialized
        /\ \A t \in Threads : pc[t] \in {"idle", "head", "isConnected", "succeeded"}

\* The bars answered: one for each time of which a valid bar has come, the last
\* of them, in ascending order.
BarsAscendingLatest ==
    LET out == Normalized(bars) IN
    /\ \A i, j \in DOMAIN out : i < j => out[i].time < out[j].time
    /\ {out[i] : i \in DOMAIN out} =
          {bars[i] : i \in {k \in DOMAIN bars : Valid(bars[k]) /\
              \A l \in DOMAIN bars : l > k /\ Valid(bars[l]) => bars[l].time # bars[k].time}}

\* Every request is answered, whatever the worker, the broker or the lock do.
RequestsAnswered == at = "authenticate" ~> at = "idle"

\* Whatever has happened before, a bridge that goes on serving answers from the
\* account once the broker stays reachable.
ServiceRestored ==
    <>[](phase = "serving" /\ backend = "up" /\ state \notin Unavailable) =>
        <>[](at = "log" /\ request.endpoint = "account" /\ request.authorized /\ request.valid
                => answer = "SUCCESS")

\* The inductive invariant behind the four before.  While requests are served
\* nobody holds the manager's lock over a step, since only stop() would.
AppInv ==
    /\ at # "idle" => phase = "serving"
    /\ phase # "stopping" => lock = "free"
    /\ at \in {"gate", "ready", "read", "respond", "service"} =>
          /\ request.endpoint # "health"
          /\ at \in {"ready", "read", "respond"} => request.endpoint # "trade"
          /\ at = "service" => request.endpoint = "trade"
          /\ at = "gate" => request.endpoint \in Gated
    /\ at \in {"gate", "ready", "read"} /\ request.endpoint # "trade" => left \in 1..2
    /\ at \in {"health", "capabilities"} => request.endpoint = "health"
    /\ at \notin {"idle", "log"} => answer = "none"
    /\ at = "capabilities" /\ report.state = "CONNECTED" =>
          report = [state |-> "CONNECTED", initialized |-> TRUE, uptime |-> TRUE]
    /\ HealthyMeansSession
    /\ GateHolds
    /\ at = "read" => state = "CONNECTED" /\ mt5Initialized
=============================================================================
