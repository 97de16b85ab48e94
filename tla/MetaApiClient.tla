---------------------------- MODULE MetaApiClient ----------------------------
(***************************************************************************)
(* The MetaApi backend of the broker client (core/mt5_client.py): one      *)
(* object shared by the connection manager's threads and by the API reads. *)
(* Its re-entrant lock is kept for a whole initialize(), login() or        *)
(* shutdown(), network retries included; the reads and terminal_info()     *)
(* take it only to obtain the HTTP handle, and share the regional URL with *)
(* the others unprotected.                                                 *)
(*                                                                         *)
(* A step is one unlocked access of shared state, one locked section or    *)
(* one HTTP exchange.  Left out: the payloads, _last_error (a diagnostic   *)
(* text), the length of the pauses, and the local MetaTrader5 backend,     *)
(* whose methods are one library call each.                                *)
(***************************************************************************)
EXTENDS Naturals

CONSTANTS
    Sessions,       \* callers of initialize(), login(), shutdown(), terminal_info()
    Readers,        \* callers of the account, position, symbol and history reads
    Nobody,         \* the owner of the free lock
    Handles,        \* identities of httpx.Client objects
    NoHandle,
    Regions,        \* MetaApi regions
    NoRegion,       \* also: the metadata names no region
    AccountRegion,  \* what the metadata of the account names
    DefaultRegion,  \* "new-york" in _metaapi_region_host
    ExplicitUrl,    \* the URL of METAAPI_CLIENT_BASE_URL
    NoUrl,          \* also: METAAPI_CLIENT_BASE_URL is not set
    ConfiguredUrl,  \* what _explicit_client_base_url() returns
    RetryCount,     \* METAAPI_RETRY_COUNT
    Overlap         \* whether shutdown() may overlap the calls that do not hold the lock

ASSUME ProcessesAssumption == Sessions \cap Readers = {} /\ Nobody \notin Sessions \cup Readers
ASSUME HandlesAssumption == NoHandle \notin Handles
ASSUME RegionsAssumption ==
    /\ DefaultRegion \in Regions /\ AccountRegion \in Regions \cup {NoRegion}
    /\ NoRegion \notin Regions /\ NoUrl \notin Regions
    /\ ExplicitUrl \notin Regions \cup {NoUrl}
    /\ ConfiguredUrl \in {ExplicitUrl, NoUrl}
ASSUME ClientAssumption == RetryCount \in Nat /\ Overlap \in BOOLEAN

Processes == Sessions \cup Readers

VARIABLES
    owner,          \* holder of _lock
    initialized,    \* _initialized
    metadata,       \* whether _account_metadata is cached
    region,         \* _region
    baseUrl,        \* _client_base_url: a region stands for its host
    http,           \* _http
    openHandles,    \* the handles nobody has closed
    pc, call, stage,
    url, handle, attempt, answer,   \* locals of the request each process makes
    result,         \* what its last call returned
    service         \* what MetaApi would answer now

shared == <<initialized, metadata, region, baseUrl, http, openHandles>>
locals == <<call, stage, url, handle, attempt, answer, result>>
vars   == <<owner, shared, pc, locals, service>>

\* "notDeployed" and "noBroker" are states of the account; "up" serves reads.
Services == {"down", "notDeployed", "noBroker", "up"}
LockingCalls == {"initialize", "login", "shutdown"}
Calls == LockingCalls \cup {"none", "terminalInfo", "read"}

\* The request a call is at: login() makes two after its own initialize().
Stages   == {"none", "initialize", "readiness", "account", "terminalInfo", "read"}
Pcs      == {"idle", "lock", "close", "resetUrl", "url", "useUrl", "ensure",
             "exchange", "pause", "region", "metadata"}

RegionHost(r) == IF r = NoRegion THEN DefaultRegion ELSE r

\* External: the account is served by its own region, and wherever the
\* operator's explicit URL leads.
Serves(host) == host \in {ExplicitUrl, RegionHost(AccountRegion)}

Provisioning == {"initialize", "readiness", "terminalInfo"}

-----------------------------------------------------------------------------
Init ==
    /\ owner = Nobody
    /\ initialized = FALSE /\ metadata = FALSE
    /\ region = NoRegion /\ baseUrl = ConfiguredUrl
    /\ http = NoHandle /\ openHandles = {}
    /\ pc = [p \in Processes |-> "idle"]
    /\ call = [p \in Processes |-> "none"] /\ stage = [p \in Processes |-> "none"]
    /\ url = [p \in Processes |-> NoUrl] /\ handle = [p \in Processes |-> NoHandle]
    /\ attempt = [p \in Processes |-> 0] /\ answer = [p \in Processes |-> "none"]
    /\ result = [p \in Processes |-> "none"]
    /\ service \in Services

Goto(p, where) == pc' = [pc EXCEPT ![p] = where]

\* The call returns; its `with self._lock' block, if any, ends.
Return(p, value) ==
    /\ Goto(p, "idle")
    /\ owner' = IF owner = p THEN Nobody ELSE owner
    /\ result' = [result EXCEPT ![p] = value]
    /\ stage' = [stage EXCEPT ![p] = "none"]
    /\ url' = [url EXCEPT ![p] = NoUrl]
    /\ handle' = [handle EXCEPT ![p] = NoHandle]
    /\ attempt' = [attempt EXCEPT ![p] = 0]
    /\ answer' = [answer EXCEPT ![p] = "none"]
    /\ UNCHANGED call

\* The call goes on to its next request, at the step `where' of it.
Request(p, next, where) ==
    /\ Goto(p, where)
    /\ stage' = [stage EXCEPT ![p] = next]
    /\ answer' = [answer EXCEPT ![p] = "none"]
    /\ UNCHANGED <<owner, call, url, handle, attempt, result>>

(***************************************************************************)
(* Calls.  A read begins only once the manager has found the session ready *)
(* (ConnectionManager._ensure_ready_for_reads, which waits for a stop() in *)
(* progress); nothing repeats that check during the read.                  *)
(***************************************************************************)
ShuttingDown == \E s \in Sessions : call[s] = "shutdown" /\ pc[s] # "idle"

\* Mutant: the reads are let through unchecked.
ManagerReadyUnchecked == TRUE

ManagerReady == initialized /\ ~ShuttingDown

UnlockedCallInProgress ==
    \E p \in Processes : call[p] \in {"read", "terminalInfo"} /\ pc[p] # "idle"

CallLocked(s) ==
    /\ pc[s] = "idle"
    /\ \E c \in LockingCalls : call' = [call EXCEPT ![s] = c]
    /\ Goto(s, "lock")
    /\ result' = [result EXCEPT ![s] = "none"]
    /\ UNCHANGED <<owner, shared, stage, url, handle, attempt, answer, service>>

CallTerminalInfo(s) ==
    /\ pc[s] = "idle" /\ ~metadata
    /\ Overlap \/ ~ShuttingDown
    /\ call' = [call EXCEPT ![s] = "terminalInfo"]
    /\ result' = [result EXCEPT ![s] = "none"]
    /\ stage' = [stage EXCEPT ![s] = "terminalInfo"]
    /\ Goto(s, "ensure")
    /\ UNCHANGED <<owner, shared, url, handle, attempt, answer, service>>

CallRead(r) ==
    /\ pc[r] = "idle" /\ ManagerReady
    /\ call' = [call EXCEPT ![r] = "read"]
    /\ result' = [result EXCEPT ![r] = "none"]
    /\ stage' = [stage EXCEPT ![r] = "read"]
    /\ Goto(r, "url")
    /\ UNCHANGED <<owner, shared, url, handle, attempt, answer, service>>

CanEnter(s) ==
    /\ owner = Nobody
    /\ call[s] = "shutdown" /\ ~Overlap => ~UnlockedCallInProgress

\* Mutant: shutdown() does not take the lock.
EnterLockShutdownFree(s) ==
    /\ pc[s] = "lock" /\ (CanEnter(s) \/ call[s] = "shutdown")
    /\ owner' = IF call[s] = "shutdown" THEN owner ELSE s
    /\ LET first == IF call[s] = "login" /\ initialized THEN "readiness" ELSE "initialize"
       IN  IF call[s] = "shutdown"
             THEN Goto(s, "close") /\ UNCHANGED stage
             ELSE Goto(s, "ensure") /\ stage' = [stage EXCEPT ![s] = first]
    /\ UNCHANGED <<shared, call, url, handle, attempt, answer, result, service>>

\* login() initializes a client that is not initialized.
EnterLock(s) ==
    /\ pc[s] = "lock" /\ CanEnter(s)
    /\ owner' = s
    /\ LET first == IF call[s] = "login" /\ initialized THEN "readiness" ELSE "initialize"
       IN  IF call[s] = "shutdown"
             THEN Goto(s, "close") /\ UNCHANGED stage
             ELSE Goto(s, "ensure") /\ stage' = [stage EXCEPT ![s] = first]
    /\ UNCHANGED <<shared, call, url, handle, attempt, answer, result, service>>

(***************************************************************************)
(* shutdown(): the URL is reset last, after the handle is closed.          *)
(***************************************************************************)
\* Mutant: the handle is dropped, not closed.
CloseForgets(s) ==
    /\ pc[s] = "close"
    /\ initialized' = FALSE /\ metadata' = FALSE /\ region' = NoRegion
    /\ http' = NoHandle
    /\ Goto(s, "resetUrl")
    /\ UNCHANGED <<owner, baseUrl, openHandles, locals, service>>

Close(s) ==
    /\ pc[s] = "close"
    /\ initialized' = FALSE /\ metadata' = FALSE /\ region' = NoRegion
    /\ http' = NoHandle /\ openHandles' = openHandles \ {http}
    /\ Goto(s, "resetUrl")
    /\ UNCHANGED <<owner, baseUrl, locals, service>>

ResetUrl(s) ==
    /\ pc[s] = "resetUrl"
    /\ baseUrl' = ConfiguredUrl
    /\ Return(s, "true")
    /\ UNCHANGED <<initialized, metadata, region, http, openHandles, service>>

(***************************************************************************)
(* _client_url(): the URL is looked at, defaulted and read again.          *)
(***************************************************************************)
DefaultUrl == IF baseUrl = NoUrl THEN RegionHost(region) ELSE baseUrl

CheckUrl(p) ==
    /\ pc[p] = "url"
    /\ baseUrl' = DefaultUrl
    /\ Goto(p, "useUrl")
    /\ UNCHANGED <<owner, initialized, metadata, region, http, openHandles, locals, service>>

\* Reset meanwhile, the URL has no rstrip(): login() catches the exception,
\* a read lets it through.
UseUrl(p) ==
    /\ pc[p] = "useUrl"
    /\ IF baseUrl = NoUrl
         THEN Return(p, IF stage[p] = "account" THEN "false" ELSE "raised")
         ELSE /\ url' = [url EXCEPT ![p] = baseUrl]
              /\ Goto(p, "ensure")
              /\ UNCHANGED <<owner, call, stage, handle, attempt, answer, result>>
    /\ UNCHANGED <<shared, service>>

(***************************************************************************)
(* _ensure_http_client() and the attempts of _request_metaapi().           *)
(***************************************************************************)
EnsureHttp(p) ==
    /\ pc[p] = "ensure" /\ owner \in {p, Nobody}
    /\ \E h \in (IF http # NoHandle THEN {http}
                 ELSE Handles \ (openHandles \cup {handle[q] : q \in Processes})) :
          /\ http' = h /\ openHandles' = openHandles \cup {h}
          /\ handle' = [handle EXCEPT ![p] = h]
    /\ attempt' = [attempt EXCEPT ![p] = 1]
    /\ Goto(p, "exchange")
    /\ UNCHANGED <<owner, initialized, metadata, region, baseUrl,
                   call, stage, url, answer, result, service>>

\* "retryable": a timeout or another httpx.RequestError; "fatal": any other
\* exception (a closed handle raises one), an HTTP error or a body that is not
\* JSON; "shape": no body, or one of another type.
Outcomes(p) ==
    IF handle[p] \notin openHandles THEN {"fatal"}
    ELSE IF service = "down" THEN {"retryable", "fatal", "shape"}
    ELSE IF stage[p] \in Provisioning \/ (service = "up" /\ Serves(url[p])) THEN {"ok"}
    ELSE {"fatal"}

\* Mutant: a failed initialize() leaves the mark of an earlier one.
FailKeepsSession(p) ==
    /\ Return(p, "false")
    /\ UNCHANGED shared

\* MetaApiError: initialize() marks the client closed, the others do not.
Fail(p) ==
    /\ initialized' = (initialized /\ stage[p] # "initialize")
    /\ Return(p, "false")
    /\ UNCHANGED <<metadata, region, baseUrl, http, openHandles>>

MayRetry(p) == attempt[p] < RetryCount + 1

Pause(p) ==
    /\ MayRetry(p)
    /\ Goto(p, "pause")
    /\ UNCHANGED <<owner, shared, locals>>

Exchange(p) ==
    /\ pc[p] = "exchange"
    /\ \E o \in Outcomes(p) :
          IF o = "retryable" THEN Pause(p) \/ (~MayRetry(p) /\ Fail(p))
          ELSE IF o \in {"fatal", "shape"} THEN Fail(p)
          ELSE IF stage[p] \in Provisioning
            THEN /\ answer' = [answer EXCEPT ![p] = service]
                 /\ Goto(p, "region")
                 /\ UNCHANGED <<owner, shared, call, stage, url, handle, attempt, result>>
            ELSE Return(p, "true") /\ UNCHANGED shared
    /\ UNCHANGED service

\* Mutant: the attempts are not counted.
RetrySameAttempt(p) ==
    /\ pc[p] = "pause"
    /\ Goto(p, "exchange")
    /\ UNCHANGED <<owner, shared, locals, service>>

Retry(p) ==
    /\ pc[p] = "pause"
    /\ attempt' = [attempt EXCEPT ![p] = @ + 1]
    /\ Goto(p, "exchange")
    /\ UNCHANGED <<owner, shared, call, stage, url, handle, answer, result, service>>

(***************************************************************************)
(* _refresh_account_metadata(): cache the metadata and the region, then    *)
(* derive the URL unless there is one.  initialize() and login() go on.    *)
(***************************************************************************)
\* Mutant: the region of the account is not taken over.
SetRegionSkipped(p) ==
    /\ pc[p] = "region"
    /\ metadata' = TRUE
    /\ Goto(p, "metadata")
    /\ UNCHANGED <<owner, initialized, region, baseUrl, http, openHandles, locals, service>>

SetRegion(p) ==
    /\ pc[p] = "region"
    /\ metadata' = TRUE
    /\ region' = IF AccountRegion # NoRegion THEN AccountRegion ELSE region
    /\ Goto(p, "metadata")
    /\ UNCHANGED <<owner, initialized, baseUrl, http, openHandles, locals, service>>

UseMetadata(p) ==
    /\ pc[p] = "metadata"
    /\ baseUrl' = DefaultUrl
    /\ LET deployed == answer[p] # "notDeployed"
       IN  /\ initialized' = IF stage[p] = "initialize" THEN deployed ELSE initialized
           /\ CASE stage[p] = "initialize" /\ deployed /\ call[p] = "login" ->
                     Request(p, "readiness", "ensure")
                [] stage[p] = "readiness" /\ answer[p] = "up" ->
                     Request(p, "account", "url")
                [] stage[p] = "initialize" /\ deployed /\ call[p] = "initialize" ->
                     Return(p, "true")
                [] stage[p] = "terminalInfo" ->
                     Return(p, "true")
                [] OTHER ->
                     Return(p, "false")
    /\ UNCHANGED <<metadata, region, http, openHandles, service>>

ServiceChanges ==
    /\ service' \in Services
    /\ UNCHANGED <<owner, shared, pc, locals>>

-----------------------------------------------------------------------------
Step(p) ==
    \/ EnterLock(p) \/ Close(p) \/ ResetUrl(p)
    \/ CheckUrl(p) \/ UseUrl(p) \/ EnsureHttp(p) \/ Exchange(p) \/ Retry(p)
    \/ SetRegion(p) \/ UseMetadata(p)

Next ==
    \/ \E s \in Sessions : CallLocked(s) \/ CallTerminalInfo(s)
    \/ \E r \in Readers : CallRead(r)
    \/ \E p \in Processes : Step(p)
    \/ ServiceChanges

Spec == Init /\ [][Next]_vars

\* Threads run, and a thread that waits for the lock gets it some time: the
\* others pause outside the lock between their calls.
Fairness == \A p \in Processes : SF_vars(Step(p))

FairSpec == Spec /\ Fairness

-----------------------------------------------------------------------------
TypeOK ==
    /\ owner \in Processes \cup {Nobody}
    /\ initialized \in BOOLEAN /\ metadata \in BOOLEAN
    /\ region \in Regions \cup {NoRegion}
    /\ baseUrl \in Regions \cup {ExplicitUrl, NoUrl}
    /\ http \in Handles \cup {NoHandle} /\ openHandles \subseteq Handles
    /\ pc \in [Processes -> Pcs] /\ call \in [Processes -> Calls]
    /\ stage \in [Processes -> Stages]
    /\ url \in [Processes -> Regions \cup {ExplicitUrl, NoUrl}]
    /\ handle \in [Processes -> Handles \cup {NoHandle}]
    /\ attempt \in [Processes -> 0..(RetryCount + 1)]
    /\ answer \in [Processes -> Services \cup {"none"}]
    /\ result \in [Processes -> {"none", "true", "false", "raised"}]
    /\ service \in Services

\* Every handle that is open is the one the next shutdown() will close: no
\* interleaving of the lazy creation with shutdown() loses a connection pool.
NoHandleLeaks == openHandles = {http} \ {NoHandle}

\* initialize() and login() never find their HTTP handle closed under them,
\* during their retries neither: shutdown() waits until they have returned.
LockedCallsKeepTheirHandle ==
    \A s \in Sessions :
        owner = s /\ pc[s] \in {"exchange", "pause"} =>
            handle[s] = http /\ http \in openHandles

\* While no shutdown() overlaps an unlocked call, the reads of an initialized
\* client go to the host of the account, over an open handle.
ReadsUseTheSession ==
    \A r \in Readers :
        /\ result[r] # "raised"
        /\ pc[r] \in {"exchange", "pause"} => Serves(url[r]) /\ handle[r] \in openHandles

(***************************************************************************)
(* What the connection manager sees of the client.                         *)
(***************************************************************************)
\* The latest call of a caller, if it is one of those that take the lock.
Conversation(s) ==
    IF call[s] \in LockingCalls THEN [call |-> call[s], answer |-> result[s]]
                                ELSE [call |-> "none", answer |-> "none"]

Said == [s \in Sessions |-> Conversation(s)]

Session == INSTANCE BrokerSession
           WITH Callers <- Sessions, session <- initialized, said <- Said, turn <- owner

\* The client keeps the promise the connection manager relies on: its locked calls
\* act on the session in turn, each as the manager takes it to, at any interleaving
\* with each other, with terminal_info() and with the reads.
ImplementsSession == Session!Spec

\* Every call returns, whatever the service does: retries end, and no thread
\* waits for the lock for ever.
CallsReturn == \A p \in Processes : pc[p] # "idle" ~> pc[p] = "idle"

\* A caller that goes on trying to log in succeeds once the account stays
\* available: no state that earlier failures and shutdowns leave behind keeps
\* it out for ever.
LoginRecovers ==
    \A s \in Sessions :
        <>[](service = "up") /\ []<>(pc[s] = "lock" /\ call[s] = "login")
            => []<>(call[s] = "login" /\ result[s] = "true")
=============================================================================
