--------------------------- MODULE HistoryService ---------------------------
(***************************************************************************)
(* How a history request (services/history_service.py, get_history) finds  *)
(* out that the broker could not be asked.  The connection manager answers *)
(* every failure with an empty list; the service compares the manager's    *)
(* last error before and after each of its two fetches.  What is done with *)
(* the records is in HistoryRecords.                                       *)
(*                                                                         *)
(* Every request is made once; the lifecycle calls and the other requests  *)
(* of the bridge appear as changes of the state and of the last error.     *)
(***************************************************************************)
EXTENDS Naturals, FiniteSets

CONSTANTS
    Requests,   \* identities of history requests
    Undisturbed \* whether requests run one at a time and nobody else records an
                \* error while one runs

ASSUME UndisturbedAssumption == Undisturbed \in BOOLEAN
ASSUME RequestsAssumption == IsFiniteSet(Requests)

VARIABLES
    connected,  \* whether the manager's state is CONNECTED
    lastError,  \* _last_error: its code and timestamp, as far as compared
    clock,      \* time.time(), advanced by every network call
    pc,         \* where each request is
    part,       \* the collection it is fetching
    before,     \* deals_before_error or orders_before_error
    fates,      \* what became of its fetches
    response    \* what it answered

manager == <<connected, lastError, clock>>
vars    == <<manager, pc, part, before, fates, response>>

Parts == {"deals", "orders"}

\* "deals" and "orders" stand for FETCH_HISTORY_DEALS_FAILED and
\* FETCH_HISTORY_ORDERS_FAILED, "other" for every other code.
Codes   == Parts \cup {"other"}
Times   == 0..(2 * Cardinality(Requests))
NoError == [code |-> "none", at |-> 0]
Errors  == {NoError} \cup [code : Codes, at : Times]

\* "swallowed": MetaApiError, which the client turns into an empty list;
\* "raised": any other exception, which the manager records;
\* "notReady": the manager refused the read.
Fates == {"answered", "swallowed", "raised", "notReady"}

Running(r) == pc[r] \notin {"idle", "done"}

-----------------------------------------------------------------------------
Init ==
    /\ connected \in BOOLEAN /\ lastError = NoError /\ clock = 0
    /\ pc = [r \in Requests |-> "idle"] /\ part = [r \in Requests |-> "deals"]
    /\ before = [r \in Requests |-> NoError] /\ fates = [r \in Requests |-> {}]
    /\ response = [r \in Requests |-> "none"]

Goto(r, where) == pc' = [pc EXCEPT ![r] = where]

Respond(r, answer) ==
    /\ Goto(r, "done")
    /\ response' = [response EXCEPT ![r] = answer]

\* _connection_is_ready(): a failure is reported at once.
Begin(r) ==
    /\ pc[r] = "idle"
    /\ Undisturbed => \A q \in Requests : ~Running(q)
    /\ IF connected THEN Goto(r, "before") /\ UNCHANGED response
                    ELSE Respond(r, "refused")
    /\ UNCHANGED <<manager, part, before, fates>>

ReadBefore(r) ==
    /\ pc[r] = "before"
    /\ before' = [before EXCEPT ![r] = lastError]
    /\ Goto(r, "check")
    /\ UNCHANGED <<manager, part, fates, response>>

Fated(r, fate) == fates' = [fates EXCEPT ![r] = @ \cup {fate}]

\* _ensure_ready_for_reads(), under the manager's lock.
CheckReady(r) ==
    /\ pc[r] = "check"
    /\ IF connected
         THEN Goto(r, "client") /\ UNCHANGED <<lastError, fates>>
         ELSE /\ lastError' = [code |-> "other", at |-> clock]
              /\ Fated(r, "notReady")
              /\ Goto(r, "after")
    /\ UNCHANGED <<connected, clock, part, before, response>>

\* The client call, outside the lock, and the recording of what it raises.
Fetch(r) ==
    /\ pc[r] = "client"
    /\ clock' = clock + 1
    /\ \E fate \in {"answered", "swallowed", "raised"} :
          /\ Fated(r, fate)
          /\ lastError' = IF fate = "raised" THEN [code |-> part[r], at |-> clock'] ELSE lastError
    /\ Goto(r, "after")
    /\ UNCHANGED <<connected, part, before, response>>

\* Mutant: an error is new only if its code is.
ErrorChangedByCode(r) ==
    lastError.code = part[r] /\ before[r].code # lastError.code

\* Mutant: any error of the right code counts, however old.
ErrorChangedAnyAge(r) == lastError.code = part[r]

\* _history_error_changed()
ErrorChanged(r) ==
    lastError.code = part[r] /\ (before[r] = NoError \/ before[r].at # lastError.at)

ReadAfter(r) ==
    /\ pc[r] = "after"
    /\ IF ErrorChanged(r) THEN Respond(r, "failed") /\ UNCHANGED part
       ELSE IF part[r] = "deals"
         THEN Goto(r, "before") /\ part' = [part EXCEPT ![r] = "orders"] /\ UNCHANGED response
         ELSE Respond(r, "history") /\ UNCHANGED part
    /\ UNCHANGED <<manager, before, fates>>

\* The worker, the lifecycle calls and the other endpoints.
ConnectionChanges ==
    /\ connected' = ~connected
    /\ UNCHANGED <<lastError, clock, pc, part, before, fates, response>>

OtherError ==
    /\ Undisturbed => \A r \in Requests : ~Running(r)
    /\ lastError' = [code |-> "other", at |-> clock]
    /\ UNCHANGED <<connected, clock, pc, part, before, fates, response>>

Request(r) == Begin(r) \/ ReadBefore(r) \/ CheckReady(r) \/ Fetch(r) \/ ReadAfter(r)

Next == (\E r \in Requests : Request(r)) \/ ConnectionChanges \/ OtherError

Spec == Init /\ [][Next]_vars

-----------------------------------------------------------------------------
TypeOK ==
    /\ connected \in BOOLEAN /\ lastError \in Errors /\ clock \in Times
    /\ pc \in [Requests -> {"idle", "before", "check", "client", "after", "done"}]
    /\ part \in [Requests -> Parts] /\ before \in [Requests -> Errors]
    /\ fates \in [Requests -> SUBSET Fates]
    /\ response \in [Requests -> {"none", "refused", "failed", "history"}]

\* An exception that the manager recorded for one of the fetches of a request
\* is never answered with (part of) an empty history, whatever errors earlier
\* requests have left behind.
RaisedFailuresSurface ==
    \A r \in Requests : response[r] = "history" => "raised" \notin fates[r]

\* A request whose fetches raised nothing is not failed by an older error.
NoFalseAlarm ==
    \A r \in Requests : response[r] = "failed" => "raised" \in fates[r]

-----------------------------------------------------------------------------
\* Stated by the project, refuted by the code (see README, findings): a history
\* is returned only if the broker has answered.
FailuresSurface ==
    \A r \in Requests : response[r] = "history" => fates[r] \subseteq {"answered"}
=============================================================================
