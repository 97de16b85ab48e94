-------------------------- MODULE ConnectionManager --------------------------
(***************************************************************************)
(* The bridge's connection manager (core/connection_manager.py): a         *)
(* lifecycle state guarded by one re-entrant lock, a background worker     *)
(* thread that opens the broker session and retries with backoff, and the  *)
(* lifecycle calls start(), stop() and restart() that race with it.        *)
(*                                                                         *)
(* A step of this module is one critical section, one client call or one   *)
(* unlocked write of the code.  stop() and restart() keep the lock over    *)
(* several steps, so their progress is `lock' and `stopPc'; whoever calls  *)
(* them (any number of callers) waits outside until the lock is free.      *)
(* Times are abstracted: a sleep may end at any moment.  Left out: the     *)
(* texts and clocks of _last_error, the terminal information, logging.     *)
(***************************************************************************)
EXTENDS Naturals

CONSTANTS
    Threads,        \* identities of worker threads; a finished one is reused
    Diags,          \* callers of _attempt_initialize_and_connect other than the worker
    NoThread,       \* _worker_thread before the first start()
    MaxRetries,     \* MT5_MAX_RETRIES; 0 means the retries never mark FAILED
    FloatLimit,     \* 1024: base_delay * 2**FloatLimit raises OverflowError
    BackoffBound,   \* cap of the failure counter, above everything it is compared with
    TimelyThreads   \* whether a thread that nothing blocks always outruns the join timeout

ASSUME ThreadsAssumption == Threads \cap Diags = {} /\ NoThread \notin Threads
ASSUME BackoffAssumption ==
    /\ MaxRetries \in Nat /\ FloatLimit \in Nat /\ BackoffBound \in Nat
    /\ BackoffBound > FloatLimit /\ BackoffBound >= MaxRetries
ASSUME TimelyAssumption == TimelyThreads \in BOOLEAN

VARIABLES
    state,              \* _state
    mt5Initialized,     \* _mt5_initialized
    startupTime,        \* whether _startup_time is set
    reconnectCount,     \* _reconnect_count
    stopEvent,          \* _stop_event
    workerThread,       \* _worker_thread
    lock,               \* "free", or the call that keeps _lock over several steps
    stopPc,             \* where that call is
    pc,                 \* where each worker thread and each direct attempt is
    backoff,            \* backoff_attempts of each worker thread
    clientInitialized,  \* MT5Client._initialized
    backend             \* what the broker service would answer now

lifecycle == <<state, mt5Initialized, startupTime>>
control   == <<stopEvent, workerThread, lock, stopPc>>
client    == <<clientInitialized, backend>>
counters  == <<reconnectCount, backoff>>
vars      == <<lifecycle, control, client, counters, pc>>

Processes == Threads \cup Diags

States == {"DISCONNECTED", "INITIALIZING", "CONNECTING", "CONNECTED", "FAILED",
           "SHUTTING_DOWN", "UNSUPPORTED_PLATFORM", "BACKEND_UNAVAILABLE"}

Unavailable == {"UNSUPPORTED_PLATFORM", "BACKEND_UNAVAILABLE"}

\* "down": initialize() fails; "noLogin": the account exists but is not
\* connected to the broker; "up": both calls succeed.
Backends == {"down", "noLogin", "up"}

\* The worker's loop, then the attempt it shares with a direct call.
LoopPcs    == {"head", "isConnected", "enter", "succeeded", "failed", "giveUp",
               "backoff", "errorSleep"}
AttemptPcs == {"own", "initialize", "rejected", "reset", "opened", "connecting",
               "login", "loginFailed", "connected"}

\* Places where a worker only waits, or is about to look at the stop event.
Parked == {"head", "backoff", "errorSleep"}

\* Where the two seconds of stop()'s join may not be enough: the step needs the
\* lock that stop() holds, or it is a network call.  The sleeps are shorter.
Lengthy == {"isConnected", "enter", "succeeded", "giveUp", "own", "initialize",
            "reset", "connecting", "login", "loginFailed", "connected"}

LegalFrom(s) ==
    CASE s = "DISCONNECTED"  -> {"INITIALIZING", "FAILED", "SHUTTING_DOWN"} \cup Unavailable
      [] s = "INITIALIZING"  -> {"CONNECTING", "FAILED", "SHUTTING_DOWN", "DISCONNECTED"}
      [] s = "CONNECTING"    -> {"CONNECTED", "FAILED", "SHUTTING_DOWN"}
      [] s = "CONNECTED"     -> {"SHUTTING_DOWN", "DISCONNECTED", "FAILED"}
      [] s = "FAILED"        -> {"INITIALIZING", "SHUTTING_DOWN", "DISCONNECTED"}
      [] s = "SHUTTING_DOWN" -> {"DISCONNECTED"}
      [] s = "UNSUPPORTED_PLATFORM" -> {"DISCONNECTED"}
      [] s = "BACKEND_UNAVAILABLE"  -> {"INITIALIZING", "DISCONNECTED"}

\* Mutant: the transition table is not consulted.
SetStateUnchecked(new) == state' = new

\* An illegal transition is logged and ignored.
SetState(new) == state' = IF new \in LegalFrom(state) THEN new ELSE state

WorkerAlive == workerThread \in Threads /\ pc[workerThread] # "idle"

Goto(p, where) == pc' = [pc EXCEPT ![p] = where]

-----------------------------------------------------------------------------
Init ==
    /\ state \in {"DISCONNECTED"} \cup Unavailable
    /\ mt5Initialized = FALSE /\ startupTime = FALSE
    /\ reconnectCount = 0 /\ backoff = [t \in Threads |-> 0]
    /\ stopEvent = FALSE /\ workerThread = NoThread
    /\ lock = "free" /\ stopPc = "none"
    /\ pc = [p \in Processes |-> "idle"]
    /\ clientInitialized = FALSE /\ backend \in Backends

(***************************************************************************)
(* start(): one critical section.  A live worker, even one that has been   *)
(* told to stop, makes it return without touching the stop event.          *)
(***************************************************************************)
\* Mutant: a worker that has been told to stop counts as gone.
CanSpawnOverStopping == (~WorkerAlive \/ stopEvent) /\ state \notin Unavailable

CanSpawn == ~WorkerAlive /\ state \notin Unavailable

Spawn ==
    \E t \in Threads :
        /\ pc[t] = "idle"
        /\ Goto(t, "head")
        /\ backoff' = [backoff EXCEPT ![t] = 0]
        /\ workerThread' = t
        /\ stopEvent' = FALSE

\* Mutant: the stop event is cleared before the worker is looked at.
StartBodyClearsFirst ==
    IF CanSpawn THEN Spawn ELSE stopEvent' = FALSE /\ UNCHANGED <<pc, backoff, workerThread>>

StartBody ==
    IF CanSpawn THEN Spawn ELSE UNCHANGED <<pc, backoff, workerThread, stopEvent>>

Start ==
    /\ lock = "free"
    /\ StartBody
    /\ UNCHANGED <<lifecycle, client, reconnectCount, lock, stopPc>>

(***************************************************************************)
(* stop() and restart(): the lock is kept from the first to the last step. *)
(***************************************************************************)
NothingToStop == state \in {"DISCONNECTED"} \cup Unavailable /\ ~WorkerAlive

ReconnectInProgress ==
    WorkerAlive /\ state \in {"DISCONNECTED", "INITIALIZING", "CONNECTING"}

BeginStop ==
    /\ SetState("SHUTTING_DOWN")
    /\ stopEvent' = TRUE
    /\ stopPc' = "decide"

Stop ==
    /\ lock = "free" /\ ~NothingToStop
    /\ BeginStop
    /\ lock' = "stop"
    /\ UNCHANGED <<mt5Initialized, startupTime, workerThread, client, counters, pc>>

\* The nested stop() may have nothing to do; start() then follows at once.
Restart ==
    /\ lock = "free" /\ ~ReconnectInProgress
    /\ lock' = "restart"
    /\ IF NothingToStop
         THEN stopPc' = "start" /\ UNCHANGED <<state, stopEvent>>
         ELSE BeginStop
    /\ UNCHANGED <<mt5Initialized, startupTime, workerThread, client, counters, pc>>

\* `if self._mt5_initialized': read once, with no protection from the worker.
StopDecide ==
    /\ stopPc = "decide"
    /\ stopPc' = IF mt5Initialized THEN "shutdown" ELSE "clear"
    /\ UNCHANGED <<lifecycle, stopEvent, workerThread, lock, client, counters, pc>>

\* client.shutdown() marks the client closed whatever it returns.
StopShutdown ==
    /\ stopPc = "shutdown"
    /\ clientInitialized' = FALSE
    /\ stopPc' = "clear"
    /\ UNCHANGED <<lifecycle, stopEvent, workerThread, lock, backend, counters, pc>>

\* Mutant: the state is left as it was during the shutdown.
StopClearKeepsState ==
    /\ stopPc = "clear"
    /\ mt5Initialized' = FALSE /\ startupTime' = FALSE
    /\ stopPc' = "join"
    /\ UNCHANGED <<state, stopEvent, workerThread, lock, client, counters, pc>>

StopClear ==
    /\ stopPc = "clear"
    /\ mt5Initialized' = FALSE /\ startupTime' = FALSE
    /\ SetState("DISCONNECTED")
    /\ stopPc' = "join"
    /\ UNCHANGED <<stopEvent, workerThread, lock, client, counters, pc>>

\* Mutant: the join has no timeout.
StopJoinForever ==
    /\ stopPc = "join" /\ ~WorkerAlive
    /\ IF lock = "restart" THEN stopPc' = "start" /\ UNCHANGED lock
                           ELSE stopPc' = "none" /\ lock' = "free"
    /\ UNCHANGED <<lifecycle, stopEvent, workerThread, client, counters, pc>>

\* The join gives up after its timeout, so it may end with the worker alive.
StopJoin ==
    /\ stopPc = "join"
    /\ TimelyThreads /\ WorkerAlive => pc[workerThread] \in Lengthy
    /\ IF lock = "restart" THEN stopPc' = "start" /\ UNCHANGED lock
                           ELSE stopPc' = "none" /\ lock' = "free"
    /\ UNCHANGED <<lifecycle, stopEvent, workerThread, client, counters, pc>>

RestartStart ==
    /\ stopPc = "start"
    /\ StartBody
    /\ lock' = "free" /\ stopPc' = "none"
    /\ UNCHANGED <<lifecycle, client, reconnectCount>>

LockHolder == StopDecide \/ StopShutdown \/ StopClear \/ StopJoin \/ RestartStart

(***************************************************************************)
(* The worker's loop around the attempt.                                   *)
(***************************************************************************)
\* Mutant: the loop condition forgets the stop event.
LoopHeadIgnoresStop(t) ==
    /\ pc[t] = "head"
    /\ Goto(t, IF state \in Unavailable THEN "head" ELSE "isConnected")
    /\ UNCHANGED <<lifecycle, control, client, counters>>

LoopHead(t) ==
    /\ pc[t] = "head"
    /\ Goto(t, IF stopEvent THEN "idle"
               ELSE IF state \in Unavailable THEN "head" ELSE "isConnected")
    /\ UNCHANGED <<lifecycle, control, client, counters>>

\* Mutant: the loop attempts a connection even while it has one.
CheckConnectedSkipped(t) ==
    /\ pc[t] = "isConnected" /\ lock = "free"
    /\ Goto(t, "enter")
    /\ UNCHANGED <<lifecycle, control, client, counters>>

\* While connected the loop only sleeps: the session is not looked at again.
CheckConnected(t) ==
    /\ pc[t] = "isConnected" /\ lock = "free"
    /\ Goto(t, IF state = "CONNECTED" THEN "head" ELSE "enter")
    /\ UNCHANGED <<lifecycle, control, client, counters>>

EnterInitializing(t) ==
    /\ pc[t] = "enter" /\ lock = "free"
    /\ SetState("INITIALIZING")
    /\ Goto(t, "own")
    /\ UNCHANGED <<mt5Initialized, startupTime, control, client, counters>>

AttemptSucceeded(t) ==
    /\ pc[t] = "succeeded" /\ lock = "free"
    /\ backoff' = [backoff EXCEPT ![t] = 0]
    /\ reconnectCount' = 0
    /\ startupTime' = TRUE
    /\ Goto(t, "head")
    /\ UNCHANGED <<state, mt5Initialized, control, client>>

NextBackoff(n) == IF n < BackoffBound THEN n + 1 ELSE n

\* The n-th failure in a row computes base * 2**(n - 1) as a float.
DelayOverflows(n) == n - 1 >= FloatLimit

GivesUp(n) == MaxRetries # 0 /\ n >= MaxRetries

AttemptFailed(t) ==
    /\ pc[t] = "failed"
    /\ LET n == NextBackoff(backoff[t])
       IN  /\ backoff' = [backoff EXCEPT ![t] = n]
           /\ reconnectCount' = n
           /\ Goto(t, IF DelayOverflows(n) THEN "errorSleep"
                      ELSE IF GivesUp(n) THEN "giveUp" ELSE "backoff")
    /\ UNCHANGED <<lifecycle, control, client>>

\* Mutant: the retries give up without saying so.
GiveUpSilently(t) ==
    /\ pc[t] = "giveUp" /\ lock = "free"
    /\ Goto(t, "backoff")
    /\ UNCHANGED <<lifecycle, control, client, counters>>

GiveUp(t) ==
    /\ pc[t] = "giveUp" /\ lock = "free"
    /\ SetState("FAILED")
    /\ Goto(t, "backoff")
    /\ UNCHANGED <<mt5Initialized, startupTime, control, client, counters>>

\* The wait ends when the delay is over or the stop event is seen; the
\* handler of unexpected exceptions sleeps one second.  Both loop.
Wake(t) ==
    /\ pc[t] \in {"backoff", "errorSleep"}
    /\ Goto(t, "head")
    /\ UNCHANGED <<lifecycle, control, client, counters>>

(***************************************************************************)
(* _attempt_initialize_and_connect, run by the worker or called directly.  *)
(***************************************************************************)
Return(p, ok) ==
    Goto(p, IF p \in Diags THEN "idle" ELSE IF ok THEN "succeeded" ELSE "failed")

DirectCall(d) ==
    /\ pc[d] = "idle"
    /\ Goto(d, "own")
    /\ UNCHANGED <<lifecycle, control, client, counters>>

Own(p) ==
    /\ pc[p] = "own" /\ lock = "free"
    /\ IF state \in {"DISCONNECTED", "FAILED"}
         THEN SetState("INITIALIZING") /\ Goto(p, "initialize")
         ELSE /\ UNCHANGED state
              /\ IF state = "INITIALIZING" THEN Goto(p, "initialize") ELSE Return(p, FALSE)
    /\ UNCHANGED <<mt5Initialized, startupTime, control, client, counters>>

\* MT5Client.initialize(): the flag follows the answer of the service.
ClientInitialize(p) ==
    /\ pc[p] = "initialize"
    /\ clientInitialized' = (backend # "down")
    /\ Goto(p, IF backend # "down" THEN "opened" ELSE "rejected")
    /\ UNCHANGED <<lifecycle, control, backend, counters>>

InitializeRejected(p) ==
    /\ pc[p] = "rejected"
    /\ mt5Initialized' = FALSE
    /\ Goto(p, "reset")
    /\ UNCHANGED <<state, startupTime, control, client, counters>>

ResetDisconnected(p) ==
    /\ pc[p] = "reset" /\ lock = "free"
    /\ SetState("DISCONNECTED")
    /\ Return(p, FALSE)
    /\ UNCHANGED <<mt5Initialized, startupTime, control, client, counters>>

\* The flag is written without the lock, also while stop() is clearing it.
InitializeOpened(p) ==
    /\ pc[p] = "opened"
    /\ mt5Initialized' = TRUE
    /\ Goto(p, "connecting")
    /\ UNCHANGED <<state, startupTime, control, client, counters>>

EnterConnecting(p) ==
    /\ pc[p] = "connecting" /\ lock = "free"
    /\ SetState("CONNECTING")
    /\ Goto(p, "login")
    /\ UNCHANGED <<mt5Initialized, startupTime, control, client, counters>>

\* MT5Client.login() initializes again a client that was shut down meanwhile.
ClientLogin(p) ==
    /\ pc[p] = "login"
    /\ clientInitialized' = (clientInitialized \/ backend # "down")
    /\ Goto(p, IF backend = "up" THEN "connected" ELSE "loginFailed")
    /\ UNCHANGED <<lifecycle, control, backend, counters>>

\* Mutant: a failed login asks for a transition that is not in the table.
LoginFailedDisconnects(p) ==
    /\ pc[p] = "loginFailed" /\ lock = "free"
    /\ SetState("DISCONNECTED")
    /\ Return(p, FALSE)
    /\ UNCHANGED <<mt5Initialized, startupTime, control, client, counters>>

LoginFailed(p) ==
    /\ pc[p] = "loginFailed" /\ lock = "free"
    /\ SetState("FAILED")
    /\ Return(p, FALSE)
    /\ UNCHANGED <<mt5Initialized, startupTime, control, client, counters>>

\* The result is True even if the transition was refused.
EnterConnected(p) ==
    /\ pc[p] = "connected" /\ lock = "free"
    /\ startupTime' = TRUE
    /\ SetState("CONNECTED")
    /\ Return(p, TRUE)
    /\ UNCHANGED <<mt5Initialized, control, client, counters>>

\* The broker service changes by itself.
BackendChanges ==
    /\ backend' \in Backends
    /\ UNCHANGED <<lifecycle, control, clientInitialized, counters, pc>>

-----------------------------------------------------------------------------
Loop(t) ==
    \/ LoopHead(t) \/ CheckConnected(t) \/ EnterInitializing(t)
    \/ AttemptSucceeded(t) \/ AttemptFailed(t) \/ GiveUp(t) \/ Wake(t)

Attempt(p) ==
    \/ Own(p) \/ ClientInitialize(p) \/ InitializeRejected(p) \/ ResetDisconnected(p)
    \/ InitializeOpened(p) \/ EnterConnecting(p)
    \/ ClientLogin(p) \/ LoginFailed(p) \/ EnterConnected(p)

Next ==
    \/ Start \/ Stop \/ Restart \/ LockHolder
    \/ \E t \in Threads : Loop(t)
    \/ \E p \in Processes : Attempt(p)
    \/ \E d \in Diags : DirectCall(d)
    \/ BackendChanges

Spec == Init /\ [][Next]_vars

\* Threads that run keep running and a call that holds the lock goes on.
\* Nobody has to call start(), stop() or restart(), nor the service to change.
Fairness ==
    /\ WF_vars(LockHolder)
    /\ \A t \in Threads : WF_vars(Loop(t) \/ Attempt(t))
    /\ \A d \in Diags : WF_vars(Attempt(d))

FairSpec == Spec /\ Fairness

-----------------------------------------------------------------------------
TypeOK ==
    /\ state \in States
    /\ mt5Initialized \in BOOLEAN /\ startupTime \in BOOLEAN
    /\ reconnectCount \in 0..BackoffBound
    /\ backoff \in [Threads -> 0..BackoffBound]
    /\ stopEvent \in BOOLEAN
    /\ workerThread \in Threads \cup {NoThread}
    /\ lock \in {"free", "stop", "restart"}
    /\ stopPc \in {"none", "decide", "shutdown", "clear", "join", "start"}
    /\ pc \in [Processes -> {"idle"} \cup LoopPcs \cup AttemptPcs]
    /\ clientInitialized \in BOOLEAN /\ backend \in Backends

\* At most one worker thread is alive, and it is the one _worker_thread names:
\* start() and restart() never leave two loops connecting at the same time,
\* not even when the join of stop() times out.
AtMostOneWorker ==
    \A t \in Threads : pc[t] # "idle" => workerThread = t

\* CONNECTED, the state the API handlers and the reads trust, is never shown
\* without an open session: the manager's flag and the client agree on it.
ConnectedMeansOpenSession ==
    state = "CONNECTED" => mt5Initialized /\ clientInitialized /\ startupTime

\* Whoever takes the lock to read the state (get_state, get_health) finds
\* either the state before a stop() or the one after it, never a half-done one.
StopIsAtomicToReaders ==
    lock = "free" => state # "SHUTTING_DOWN"

\* As long as the delay to its next retry can be computed, a worker that waits
\* for that retry after MaxRetries failures shows FAILED, until somebody asks it
\* to stop.  Once the delay overflows it waits in the handler of unexpected
\* exceptions, and FAILED is not shown (RetriesAtMaxInterval).
GivingUpIsVisible ==
    LET n == backoff[workerThread] IN
    WorkerAlive /\ ~stopEvent /\ pc[workerThread] \in {"backoff", "errorSleep"}
        /\ GivesUp(n) /\ ~DelayOverflows(n) => state = "FAILED"

\* A worker that waits, or is back at the head of its loop, when it is told to
\* stop never begins another attempt, and the request is not taken back before
\* it has exited.
ParkedWorkerObeysStop ==
    [][\A t \in Threads : stopEvent /\ pc[t] \in Parked =>
          \/ pc'[t] = "idle"
          \/ pc'[t] \in Parked /\ stopEvent']_vars

\* stop() and restart() return: the join timeout lets go of the lock even when
\* the worker it waits for is itself waiting for that lock.
LifecycleCallsReturn == lock # "free" ~> lock = "free"

\* A stopped worker exits once no lifecycle call holds the lock any more.
StoppedWorkerExits ==
    <>[](lock = "free") => (stopEvent /\ WorkerAlive ~> ~WorkerAlive)

\* Whatever happened before, a running worker connects if the service stays
\* reachable: no state the manager can be left in keeps it from connecting.
WorkerReconnects ==
    <>[](lock = "free" /\ WorkerAlive /\ ~stopEvent /\ backend = "up")
        => <>[](state = "CONNECTED")

\* The inductive invariant behind the properties above.  What the lock holder
\* has done so far shows in the state, and only there is it SHUTTING_DOWN.
LockInv ==
    /\ lock = "free" <=> stopPc = "none"
    /\ state = "SHUTTING_DOWN" <=> stopPc \in {"decide", "shutdown", "clear"}
    /\ state \in Unavailable =>
          \A p \in Processes : pc[p] \in {"idle", "own"} /\ (p \in Threads => pc[p] = "idle")
    /\ \A d \in Diags : pc[d] \notin LoopPcs

\* Where the worker is bounds the state: whoever stops it can only move the
\* state to SHUTTING_DOWN and on to DISCONNECTED.
StatesAt(where) ==
    CASE where \in {"initialize", "rejected", "reset", "opened", "connecting"} ->
            {"INITIALIZING", "SHUTTING_DOWN", "DISCONNECTED"}
      [] where \in {"login", "loginFailed", "connected"} ->
            {"CONNECTING", "SHUTTING_DOWN", "DISCONNECTED"}
      [] where \in {"enter", "own", "failed", "giveUp", "backoff", "errorSleep"} ->
            States \ {"CONNECTING", "CONNECTED"}
      [] where \in {"idle", "head", "isConnected", "succeeded"} ->
            States \ {"CONNECTING"}

\* The session is open from the moment the state says that it is being used.
SessionInv ==
    /\ \A t \in Threads : t = workerThread => state \in StatesAt(pc[t])
    /\ state = "CONNECTING" => WorkerAlive /\ mt5Initialized /\ clientInitialized
    /\ \A t \in Threads : state = "INITIALIZING" =>
          /\ pc[t] \in {"opened", "connecting"} => clientInitialized
          /\ pc[t] = "connecting" => mt5Initialized
    /\ ConnectedMeansOpenSession

Status ==
    CASE state \in {"DISCONNECTED", "FAILED"}      -> "down"
      [] state \in {"INITIALIZING", "CONNECTING"}  -> "opening"
      [] state = "CONNECTED"                       -> "up"
      [] state = "SHUTTING_DOWN"                   -> "closing"
      [] state \in Unavailable                     -> "unavailable"

Lifecycle == INSTANCE ConnectionLifecycle
                WITH status <- Status, session <- mt5Initialized /\ clientInitialized

\* The threads and locks of the manager together keep the simple promise: in
\* particular no step of the worker or of a late attempt takes down an
\* established connection, or closes the session under it.
ImplementsLifecycle == Lifecycle!Spec

-----------------------------------------------------------------------------
\* Stated by the project, refuted by the code (see README, findings).

\* After stop(), with the worker gone, the session is closed and the state is
\* DISCONNECTED.
StoppedMeansDisconnected ==
    stopEvent /\ lock = "free" /\ ~WorkerAlive =>
        state = "DISCONNECTED" /\ ~mt5Initialized

\* restart() leaves a worker that will go on connecting.
RestartLeavesAWorker ==
    [][lock = "restart" /\ lock' = "free" /\ state \notin Unavailable =>
          WorkerAlive' /\ ~stopEvent']_vars

\* After MaxRetries failures in a row the worker shows FAILED and waits the
\* maximal interval, and not the handler's second, which does neither.
RetriesAtMaxInterval ==
    \A t \in Threads : pc[t] = "errorSleep" => ~GivesUp(backoff[t])

\* The worker recovers a lost connection: CONNECTED does not outlive the session.
LossIsDetected ==
    (state = "CONNECTED" /\ backend = "down" /\ WorkerAlive)
        ~> (state # "CONNECTED" \/ backend # "down")
=============================================================================
