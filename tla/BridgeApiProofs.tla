--------------------------- MODULE BridgeApiProofs ---------------------------
(***************************************************************************)
(* Theorems about the connection manager, for any set of thread            *)
(* identities, any retry limits and any scheduling; about the bars, for    *)
(* any sequence of them; and about the application that both are part of.  *)
(***************************************************************************)
EXTENDS BridgeApi, ArrangementProofs

-----------------------------------------------------------------------------
(***************************************************************************)
(* The manager by itself.  The first three hold for any number of direct   *)
(* attempts; the last two assume that only the worker attempts, the case   *)
(* the application has, since with a direct attempt they fail.             *)
(***************************************************************************)
\* No action leaves the domains of the variables.
THEOREM TypeCorrect == Spec => []TypeOK
<1> USE ThreadsAssumption, BackoffAssumption DEF ThreadsAssumption, BackoffAssumption
<1> Threads \subseteq Processes /\ Diags \subseteq Processes
  BY DEF Processes
<1>1. Init => TypeOK
  <2> SUFFICES ASSUME Init PROVE TypeOK
    OBVIOUS
  <2>1. pc \in [Processes -> {"idle"} \cup LoopPcs \cup AttemptPcs]
    BY DEF Init
  <2>2. backoff \in [Threads -> 0..BackoffBound] /\ reconnectCount \in 0..BackoffBound
    BY DEF Init
  <2> QED
    BY <2>1, <2>2 DEF Init, TypeOK, States, Unavailable
<1>2. TypeOK /\ [Next]_vars => TypeOK'
  <2> SUFFICES ASSUME TypeOK, [Next]_vars PROVE TypeOK'
    OBVIOUS
  <2> USE DEF TypeOK, lifecycle, control, client, counters, SetState, LegalFrom, States,
              Unavailable, LoopPcs, AttemptPcs, Goto
  <2>0. StartBody => /\ pc' \in [Processes -> {"idle"} \cup LoopPcs \cup AttemptPcs]
                     /\ backoff' \in [Threads -> 0..BackoffBound]
                     /\ workerThread' \in Threads \cup {NoThread}
                     /\ stopEvent' \in BOOLEAN
    <3>1. CASE Spawn
      <4> PICK t \in Threads : /\ pc' = [pc EXCEPT ![t] = "head"]
                               /\ backoff' = [backoff EXCEPT ![t] = 0]
                               /\ workerThread' = t /\ stopEvent' = FALSE
        BY <3>1 DEF Spawn
      <4>1. backoff' \in [Threads -> 0..BackoffBound]
        OBVIOUS
      <4> QED
        BY <4>1
    <3> QED
      BY <3>1 DEF StartBody
  <2>1. CASE Start
    BY <2>0, <2>1 DEF Start
  <2>2. CASE Stop
    BY <2>2 DEF Stop, BeginStop
  <2>3. CASE Restart
    BY <2>3 DEF Restart, BeginStop
  <2>4. CASE LockHolder
    <3>1. CASE StopDecide
      BY <3>1 DEF StopDecide
    <3>2. CASE StopShutdown
      BY <3>2 DEF StopShutdown
    <3>3. CASE StopClear
      BY <3>3 DEF StopClear
    <3>4. CASE StopJoin
      BY <3>4 DEF StopJoin
    <3>5. CASE RestartStart
      BY <2>0, <3>5 DEF RestartStart
    <3> QED
      BY <2>4, <3>1, <3>2, <3>3, <3>4, <3>5 DEF LockHolder
  <2>5. ASSUME NEW t \in Threads, Loop(t) PROVE TypeOK'
    <3>1. CASE LoopHead(t)
      BY <3>1 DEF LoopHead
    <3>2. CASE CheckConnected(t)
      BY <3>2 DEF CheckConnected
    <3>3. CASE EnterInitializing(t)
      BY <3>3 DEF EnterInitializing
    <3>4. CASE AttemptSucceeded(t)
      BY <3>4 DEF AttemptSucceeded
    <3>5. CASE AttemptFailed(t)
      BY <3>5 DEF AttemptFailed, NextBackoff
    <3>6. CASE GiveUp(t)
      BY <3>6 DEF GiveUp
    <3>7. CASE Wake(t)
      BY <3>7 DEF Wake
    <3> QED
      BY <2>5, <3>1, <3>2, <3>3, <3>4, <3>5, <3>6, <3>7 DEF Loop
  <2>6. ASSUME NEW p \in Processes, Attempt(p) PROVE TypeOK'
    <3>1. CASE Own(p)
      BY <3>1 DEF Own, Return
    <3>2. CASE ClientInitialize(p)
      BY <3>2 DEF ClientInitialize
    <3>3. CASE InitializeRejected(p)
      BY <3>3 DEF InitializeRejected
    <3>4. CASE ResetDisconnected(p)
      BY <3>4 DEF ResetDisconnected, Return
    <3>5. CASE InitializeOpened(p)
      BY <3>5 DEF InitializeOpened
    <3>6. CASE EnterConnecting(p)
      BY <3>6 DEF EnterConnecting
    <3>7. CASE ClientLogin(p)
      BY <3>7 DEF ClientLogin
    <3>8. CASE LoginFailed(p)
      BY <3>8 DEF LoginFailed, Return
    <3>9. CASE EnterConnected(p)
      BY <3>9 DEF EnterConnected, Return
    <3> QED
      BY <2>6, <3>1, <3>2, <3>3, <3>4, <3>5, <3>6, <3>7, <3>8, <3>9 DEF Attempt
  <2>7. ASSUME NEW d \in Diags, DirectCall(d) PROVE TypeOK'
    BY <2>7 DEF DirectCall
  <2>8. CASE BackendChanges
    BY <2>8 DEF BackendChanges
  <2>9. CASE UNCHANGED vars
    BY <2>9 DEF vars
  <2> QED
    BY <2>1, <2>2, <2>3, <2>4, <2>5, <2>6, <2>7, <2>8, <2>9 DEF Next
<1> QED
  BY <1>1, <1>2, PTL DEF Spec

-----------------------------------------------------------------------------
\* The loop and the attempt move one process, from a place where it is alive,
\* and leave the control variables to the lifecycle calls.
LEMMA ProcessStep ==
    ASSUME TypeOK, NEW p \in Processes, Loop(p) \/ Attempt(p)
    PROVE  /\ pc[p] # "idle"
           /\ \A q \in Processes \ {p} : pc'[q] = pc[q]
           /\ UNCHANGED <<stopEvent, workerThread, lock, stopPc>>
<1> USE DEF TypeOK, control, Goto, Return
<1>1. CASE Loop(p)
  BY <1>1 DEF Loop, LoopHead, CheckConnected, EnterInitializing, AttemptSucceeded,
              AttemptFailed, GiveUp, Wake
<1>2. CASE Attempt(p)
  BY <1>2 DEF Attempt, Own, ClientInitialize, InitializeRejected, ResetDisconnected,
              InitializeOpened, EnterConnecting, ClientLogin, LoginFailed, EnterConnected
<1> QED
  BY <1>1, <1>2

\* The lock holder moves no process, except when restart() starts a worker.
LEMMA HolderStep ==
    ASSUME StopDecide \/ StopShutdown \/ StopClear \/ StopJoin
    PROVE  UNCHANGED <<pc, stopEvent, workerThread>>
BY DEF StopDecide, StopShutdown, StopClear, StopJoin, counters

\* start() creates a worker only where none is alive.
LEMMA StartStep ==
    ASSUME TypeOK, StartBody
    PROVE  \/ UNCHANGED <<pc, workerThread, stopEvent>>
           \/ \E t \in Threads : /\ pc[t] = "idle" /\ ~WorkerAlive
                                 /\ pc' = [pc EXCEPT ![t] = "head"]
                                 /\ workerThread' = t /\ stopEvent' = FALSE
                                 /\ state \notin Unavailable
BY DEF StartBody, Spawn, CanSpawn, Goto

\* There is never a second live worker: start() and restart() look at the
\* worker under the lock, and the worker they look at is the only one there is.
THEOREM SingleWorker == Spec => []AtMostOneWorker
<1> USE ThreadsAssumption DEF ThreadsAssumption
<1>1. Init => AtMostOneWorker
  BY DEF Init, AtMostOneWorker, Processes
<1>2. TypeOK /\ AtMostOneWorker /\ [Next]_vars => AtMostOneWorker'
  <2> SUFFICES ASSUME TypeOK, AtMostOneWorker, [Next]_vars PROVE AtMostOneWorker'
    OBVIOUS
  <2> USE DEF AtMostOneWorker
  <2> Threads \subseteq Processes /\ pc \in [Processes -> {"idle"} \cup LoopPcs \cup AttemptPcs]
    BY DEF Processes, TypeOK
  <2>1. ASSUME StartBody PROVE AtMostOneWorker'
    <3>1. CASE UNCHANGED <<pc, workerThread, stopEvent>>
      BY <3>1
    <3>2. ASSUME NEW t \in Threads, ~WorkerAlive, workerThread' = t,
                 pc' = [pc EXCEPT ![t] = "head"]
          PROVE  AtMostOneWorker'
      BY <3>2 DEF WorkerAlive
    <3> QED
      BY <2>1, <3>1, <3>2, StartStep
  <2>2. CASE Start
    BY <2>1, <2>2 DEF Start
  <2>3. CASE Stop \/ Restart
    BY <2>3 DEF Stop, Restart
  <2>4. CASE LockHolder
    BY <2>1, <2>4, HolderStep DEF LockHolder, RestartStart
  <2>5. ASSUME NEW t \in Threads, Loop(t) PROVE AtMostOneWorker'
    BY <2>5, ProcessStep
  <2>6. ASSUME NEW p \in Processes, Attempt(p) PROVE AtMostOneWorker'
    BY <2>6, ProcessStep
  <2>7. ASSUME NEW d \in Diags, DirectCall(d) PROVE AtMostOneWorker'
    BY <2>7 DEF DirectCall, Goto, control
  <2>8. CASE BackendChanges
    BY <2>8 DEF BackendChanges, control
  <2>9. CASE UNCHANGED vars
    BY <2>9 DEF vars, control
  <2> QED
    BY <2>2, <2>3, <2>4, <2>5, <2>6, <2>7, <2>8, <2>9 DEF Next
<1> QED
  BY <1>1, <1>2, TypeCorrect, PTL DEF Spec

\* A parked worker that has been told to stop can only exit: nothing clears the
\* stop event while it lives.
THEOREM ParkedWorkerStops == Spec => ParkedWorkerObeysStop
<1>1. TypeOK /\ AtMostOneWorker /\ [Next]_vars =>
        \A t \in Threads : stopEvent /\ pc[t] \in Parked =>
          \/ pc'[t] = "idle"
          \/ pc'[t] \in Parked /\ stopEvent'
  <2> SUFFICES ASSUME TypeOK, AtMostOneWorker, [Next]_vars,
                      NEW t \in Threads, stopEvent, pc[t] \in Parked
               PROVE  pc'[t] = "idle" \/ (pc'[t] \in Parked /\ stopEvent')
    OBVIOUS
  <2> USE DEF Parked
  <2> /\ Threads \subseteq Processes /\ Diags \cap Threads = {}
      /\ pc \in [Processes -> {"idle"} \cup LoopPcs \cup AttemptPcs]
    BY ThreadsAssumption DEF ThreadsAssumption, Processes, TypeOK
  <2>0. WorkerAlive
    BY DEF AtMostOneWorker, WorkerAlive
  <2>1. CASE Start
    BY <2>0, <2>1, StartStep DEF Start
  <2>2. CASE Stop \/ Restart
    BY <2>2 DEF Stop, Restart, BeginStop
  <2>3. CASE LockHolder
    BY <2>0, <2>3, HolderStep, StartStep DEF LockHolder, RestartStart
  <2>4. ASSUME NEW u \in Threads, Loop(u) PROVE pc'[t] = "idle" \/ (pc'[t] \in Parked /\ stopEvent')
    <3>1. CASE u = t
      BY <2>4, <3>1 DEF Loop, LoopHead, CheckConnected, EnterInitializing, AttemptSucceeded,
                        AttemptFailed, GiveUp, Wake, Goto, control
    <3>2. CASE u # t
      BY <2>4, <3>2, ProcessStep
    <3> QED
      BY <3>1, <3>2
  <2>5. ASSUME NEW p \in Processes, Attempt(p) PROVE pc'[t] = "idle" \/ (pc'[t] \in Parked /\ stopEvent')
    <3>1. p # t
      BY <2>5 DEF Attempt, Own, ClientInitialize, InitializeRejected, ResetDisconnected,
                  InitializeOpened, EnterConnecting, ClientLogin, LoginFailed, EnterConnected
    <3> QED
      BY <2>5, <3>1, ProcessStep
  <2>6. ASSUME NEW d \in Diags, DirectCall(d) PROVE pc'[t] = "idle" \/ (pc'[t] \in Parked /\ stopEvent')
    BY <2>6 DEF DirectCall, Goto, control
  <2>7. CASE BackendChanges
    BY <2>7 DEF BackendChanges, control
  <2>8. CASE UNCHANGED vars
    BY <2>8 DEF vars, control
  <2> QED
    BY <2>1, <2>2, <2>3, <2>4, <2>5, <2>6, <2>7, <2>8 DEF Next
<1> QED
  BY <1>1, TypeCorrect, SingleWorker, PTL DEF Spec, ParkedWorkerObeysStop

-----------------------------------------------------------------------------
\* The lock, the progress of its holder and SHUTTING_DOWN go together; where
\* the platform is unavailable no attempt gets past its first check.
LEMMA LockInvariant == Spec => []LockInv
<1> USE ThreadsAssumption DEF ThreadsAssumption
<1>1. Init => LockInv
  BY DEF Init, LockInv, Unavailable, Processes, LoopPcs
<1>2. TypeOK /\ AtMostOneWorker /\ LockInv /\ [Next]_vars => LockInv'
  <2> SUFFICES ASSUME TypeOK, AtMostOneWorker, LockInv, [Next]_vars PROVE LockInv'
    OBVIOUS
  <2> /\ Threads \subseteq Processes /\ Diags \subseteq Processes
      /\ pc \in [Processes -> {"idle"} \cup LoopPcs \cup AttemptPcs]
      /\ state \in States
    BY DEF Processes, TypeOK
  <2>0. WorkerAlive => state \notin Unavailable
    BY DEF LockInv, WorkerAlive
  <2>1. CASE Start
    <3>1. state' = state /\ lock' = lock /\ stopPc' = stopPc
      BY <2>1 DEF Start, lifecycle
    <3> QED
      BY <2>1, <3>1, StartStep DEF Start, LockInv, LoopPcs
  <2>2. CASE Stop
    BY <2>0, <2>2 DEF Stop, BeginStop, NothingToStop, SetState, LegalFrom, Unavailable, States, LockInv
  <2>3. CASE Restart
    BY <2>0, <2>3 DEF Restart, BeginStop, NothingToStop, SetState, LegalFrom, Unavailable, States, LockInv
  <2>4. CASE LockHolder
    <3>1. CASE StopDecide
      BY <3>1 DEF StopDecide, LockInv, lifecycle, TypeOK
    <3>2. CASE StopShutdown
      BY <3>2 DEF StopShutdown, LockInv, lifecycle, TypeOK
    <3>3. CASE StopClear
      BY <3>3 DEF StopClear, LockInv, SetState, LegalFrom, Unavailable
    <3>4. CASE StopJoin
      BY <3>4 DEF StopJoin, LockInv, lifecycle, TypeOK
    <3>5. CASE RestartStart
      <4>1. state' = state /\ lock' = "free" /\ stopPc' = "none" /\ stopPc = "start"
        BY <3>5 DEF RestartStart, lifecycle
      <4> QED
        BY <3>5, <4>1, StartStep DEF RestartStart, LockInv, LoopPcs
    <3> QED
      BY <2>4, <3>1, <3>2, <3>3, <3>4, <3>5 DEF LockHolder
  <2>5. ASSUME NEW t \in Threads, Loop(t) PROVE LockInv'
    <3>1. /\ pc[t] # "idle" /\ state \notin Unavailable
          /\ lock' = lock /\ stopPc' = stopPc
          /\ \A q \in Processes \ {t} : pc'[q] = pc[q]
      BY <2>5, ProcessStep DEF LockInv
    <3>2. state' = state \/ (lock = "free" /\ state' \notin Unavailable \cup {"SHUTTING_DOWN"})
      BY <2>5, <3>1 DEF Loop, LoopHead, CheckConnected, EnterInitializing, AttemptSucceeded,
            AttemptFailed, GiveUp, Wake, SetState, LegalFrom, States, Unavailable, lifecycle, LockInv
    <3> QED
      BY <3>1, <3>2 DEF LockInv
  <2>6. ASSUME NEW p \in Processes, Attempt(p) PROVE LockInv'
    <3>1. /\ pc[p] # "idle" /\ lock' = lock /\ stopPc' = stopPc
          /\ \A q \in Processes \ {p} : pc'[q] = pc[q]
      BY <2>6, ProcessStep
    <3>2. p \in Diags => pc'[p] \notin LoopPcs
      BY <2>6 DEF Attempt, Own, ClientInitialize, InitializeRejected, ResetDisconnected,
            InitializeOpened, EnterConnecting, ClientLogin, LoginFailed, EnterConnected, Goto,
            Return, LoopPcs
    <3>3. CASE state \in Unavailable
      <4>1. p \in Diags /\ pc[p] = "own" /\ Own(p)
        BY <2>6, <3>1, <3>3 DEF LockInv, Processes, Attempt, Own, ClientInitialize,
              InitializeRejected, ResetDisconnected, InitializeOpened, EnterConnecting,
              ClientLogin, LoginFailed, EnterConnected
      <4>2. state' = state /\ pc'[p] = "idle"
        BY <3>3, <4>1 DEF Own, Unavailable, Return, Goto
      <4> QED
        BY <3>1, <3>2, <3>3, <4>1, <4>2 DEF LockInv
    <3>4. CASE state \notin Unavailable
      <4>1. state' = state \/ (lock = "free" /\ state' \notin Unavailable \cup {"SHUTTING_DOWN"})
        BY <2>6, <3>4 DEF Attempt, Own, ClientInitialize, InitializeRejected, ResetDisconnected,
              InitializeOpened, EnterConnecting, ClientLogin, LoginFailed, EnterConnected,
              SetState, LegalFrom, States, Unavailable, lifecycle, LockInv
      <4> QED
        BY <3>1, <3>2, <3>4, <4>1 DEF LockInv
    <3> QED
      BY <3>3, <3>4
  <2>7. ASSUME NEW d \in Diags, DirectCall(d) PROVE LockInv'
    BY <2>7 DEF DirectCall, Goto, control, lifecycle, LockInv, LoopPcs
  <2>8. CASE BackendChanges
    BY <2>8 DEF BackendChanges, control, lifecycle, LockInv
  <2>9. CASE UNCHANGED vars
    BY <2>9 DEF vars, control, lifecycle, LockInv
  <2> QED
    BY <2>1, <2>2, <2>3, <2>4, <2>5, <2>6, <2>7, <2>8, <2>9 DEF Next
<1> QED
  BY <1>1, <1>2, TypeCorrect, SingleWorker, PTL DEF Spec

\* A reader that takes the lock never sees SHUTTING_DOWN: the whole of stop()
\* is one transition to it.
THEOREM StopAtomic == Spec => []StopIsAtomicToReaders
<1>1. LockInv => StopIsAtomicToReaders
  BY DEF LockInv, StopIsAtomicToReaders
<1> QED
  BY <1>1, LockInvariant, PTL

\* As long as the delay does not overflow, FAILED stays visible while the worker
\* waits: whoever takes the state away from it sets the stop event first, and the
\* other way out is the worker's own.
THEOREM GivingUpVisible ==
    ASSUME Diags = {}
    PROVE  Spec => []GivingUpIsVisible
<1> USE ThreadsAssumption DEF ThreadsAssumption
<1> Processes = Threads
  BY DEF Processes
<1> DEFINE StopIsAsked == stopPc \in {"decide", "shutdown", "clear"} => stopEvent
<1>1. Init => GivingUpIsVisible /\ StopIsAsked
  BY DEF Init, GivingUpIsVisible, WorkerAlive
<1>2. TypeOK /\ LockInv /\ StopIsAsked /\ [Next]_vars => StopIsAsked'
  <2> SUFFICES ASSUME TypeOK, LockInv, StopIsAsked, [Next]_vars PROVE StopIsAsked'
    OBVIOUS
  <2>1. CASE Start
    BY <2>1 DEF Start, LockInv
  <2>2. CASE Stop \/ Restart
    BY <2>2 DEF Stop, Restart, BeginStop
  <2>3. CASE LockHolder
    BY <2>3, HolderStep DEF LockHolder, StopDecide, StopShutdown, StopClear, StopJoin, RestartStart
  <2>4. ASSUME NEW p \in Processes, Loop(p) \/ Attempt(p) PROVE StopIsAsked'
    BY <2>4, ProcessStep
  <2>5. CASE BackendChanges \/ UNCHANGED vars
    BY <2>5 DEF BackendChanges, vars, control
  <2> QED
    BY <2>1, <2>2, <2>3, <2>4, <2>5 DEF Next
<1>3. TypeOK /\ AtMostOneWorker /\ LockInv /\ StopIsAsked /\ GivingUpIsVisible /\ [Next]_vars
        => GivingUpIsVisible'
  <2> SUFFICES ASSUME TypeOK, AtMostOneWorker, LockInv, StopIsAsked, GivingUpIsVisible, [Next]_vars,
                      WorkerAlive', ~stopEvent',
                      pc'[workerThread'] \in {"backoff", "errorSleep"},
                      GivesUp(backoff'[workerThread']), ~DelayOverflows(backoff'[workerThread'])
               PROVE  state' = "FAILED"
    BY DEF GivingUpIsVisible, GivesUp, DelayOverflows
  <2> USE DEF GivingUpIsVisible, WorkerAlive
  <2> pc \in [Threads -> {"idle"} \cup LoopPcs \cup AttemptPcs] /\ state \in States
    BY DEF TypeOK
  <2>1. ASSUME StartBody, state' = state PROVE state' = "FAILED"
    BY <2>1 DEF StartBody, Spawn, Goto
  <2>2. CASE Start
    BY <2>1, <2>2 DEF Start, lifecycle
  <2>3. CASE Stop
    BY <2>3 DEF Stop, BeginStop
  <2>4. CASE Restart
    BY <2>4 DEF Restart, BeginStop, counters
  <2>5. CASE StopDecide \/ StopShutdown \/ StopJoin
    BY <2>5, HolderStep DEF StopDecide, StopShutdown, StopJoin, lifecycle, counters
  <2>6. CASE StopClear
    BY <2>6, HolderStep DEF StopClear
  <2>7. CASE RestartStart
    BY <2>1, <2>7 DEF RestartStart, lifecycle
  <2>8. ASSUME NEW t \in Threads, Loop(t) \/ Attempt(t) PROVE state' = "FAILED"
    <3>1. t = workerThread /\ workerThread' = workerThread /\ stopEvent' = stopEvent
      BY <2>8, ProcessStep DEF AtMostOneWorker
    <3>2. pc'[t] \in {"backoff", "errorSleep"}
      BY <3>1
    <3>3. CASE AttemptFailed(t)
      BY <3>1, <3>2, <3>3 DEF AttemptFailed, Goto, TypeOK
    <3>4. CASE GiveUp(t)
      <4>1. state \notin Unavailable \cup {"SHUTTING_DOWN"}
        BY <3>4 DEF GiveUp, LockInv, Unavailable
      <4> QED
        BY <3>4, <4>1 DEF GiveUp, SetState, LegalFrom, States, Unavailable
    <3>5. CASE ~AttemptFailed(t) /\ ~GiveUp(t)
      BY <2>8, <3>2, <3>5 DEF Loop, LoopHead, CheckConnected, EnterInitializing, AttemptSucceeded,
         Wake, Attempt, Own, ClientInitialize, InitializeRejected, ResetDisconnected,
         InitializeOpened, EnterConnecting, ClientLogin, LoginFailed, EnterConnected, Goto, Return
    <3> QED
      BY <3>3, <3>4, <3>5
  <2>9. CASE BackendChanges
    BY <2>9 DEF BackendChanges, lifecycle, control, counters
  <2>10. CASE UNCHANGED vars
    BY <2>10 DEF vars, lifecycle, control, counters
  <2> QED
    BY <2>2, <2>3, <2>4, <2>5, <2>6, <2>7, <2>8, <2>9, <2>10 DEF Next, LockHolder
<1> QED
  BY <1>1, <1>2, <1>3, TypeCorrect, SingleWorker, LockInvariant, PTL DEF Spec

-----------------------------------------------------------------------------
\* While only the worker attempts, CONNECTED always has an open session behind
\* it.  The invariant follows the worker: each place bounds the states it can
\* find, because the only interference, stop(), leads to DISCONNECTED, from
\* where the transition table lets a late attempt go nowhere but back.
THEOREM SessionInvariant ==
    ASSUME Diags = {}
    PROVE  Spec => []SessionInv
<1> USE ThreadsAssumption DEF ThreadsAssumption
<1> Processes = Threads
  BY DEF Processes
<1>1. Init => SessionInv
  BY DEF Init, SessionInv, StatesAt, States, Unavailable, ConnectedMeansOpenSession
<1>2. TypeOK /\ AtMostOneWorker /\ LockInv /\ SessionInv /\ [Next]_vars => SessionInv'
  <2> SUFFICES ASSUME TypeOK, AtMostOneWorker, LockInv, SessionInv, [Next]_vars PROVE SessionInv'
    OBVIOUS
  <2> /\ pc \in [Threads -> {"idle"} \cup LoopPcs \cup AttemptPcs]
      /\ state \in States /\ workerThread \in Threads \cup {NoThread}
    BY DEF TypeOK
  <2>0. ASSUME StartBody, UNCHANGED <<lifecycle, client>> PROVE SessionInv'
    <3>1. CASE UNCHANGED <<pc, workerThread, stopEvent>>
      BY <2>0, <3>1 DEF lifecycle, client, SessionInv, StatesAt, WorkerAlive, ConnectedMeansOpenSession
    <3>2. ASSUME NEW t \in Threads, pc[t] = "idle", ~WorkerAlive, workerThread' = t,
                 pc' = [pc EXCEPT ![t] = "head"]
          PROVE  SessionInv'
      BY <2>0, <3>2 DEF lifecycle, client, SessionInv, StatesAt, ConnectedMeansOpenSession
    <3> QED
      BY <2>0, <3>1, <3>2, StartStep
  <2>1. CASE Start
    BY <2>0, <2>1 DEF Start
  \* Both begin with SHUTTING_DOWN, which every place of the worker allows.
  <2>2. CASE Stop \/ Restart
    <3>1. /\ UNCHANGED <<pc, workerThread, mt5Initialized, clientInitialized, startupTime>>
          /\ state' = state \/ state' = "SHUTTING_DOWN"
      BY <2>2 DEF Stop, Restart, BeginStop, SetState, client
    <3>2. (\A q \in Threads : q = workerThread => state \in StatesAt(pc[q]))'
      BY <3>1 DEF SessionInv, StatesAt, States, LoopPcs, AttemptPcs
    <3> QED
      BY <3>1, <3>2 DEF SessionInv, WorkerAlive, ConnectedMeansOpenSession
  <2>3. CASE LockHolder
    <3>1. CASE StopDecide \/ StopJoin
      BY <3>1 DEF StopDecide, StopJoin, lifecycle, client, counters, SessionInv, StatesAt, WorkerAlive,
                  ConnectedMeansOpenSession
    \* The session is closed only while the state is SHUTTING_DOWN.
    <3>2. CASE StopShutdown
      BY <3>2 DEF StopShutdown, LockInv, lifecycle, counters, SessionInv, WorkerAlive,
                  ConnectedMeansOpenSession
    <3>3. CASE StopClear
      <4>1. state' = "DISCONNECTED" /\ UNCHANGED <<pc, workerThread>>
        BY <3>3 DEF StopClear, LockInv, SetState, LegalFrom
      <4> QED
        BY <4>1 DEF SessionInv, StatesAt, States, ConnectedMeansOpenSession, LoopPcs, AttemptPcs
    <3>4. CASE RestartStart
      BY <2>0, <3>4 DEF RestartStart
    <3> QED
      BY <2>3, <3>1, <3>2, <3>3, <3>4 DEF LockHolder
  <2>4. ASSUME NEW t \in Threads, Loop(t) \/ Attempt(t) PROVE SessionInv'
    <3>1. /\ pc[t] # "idle" /\ workerThread = t /\ workerThread' = t
          /\ \A q \in Threads \ {t} : pc'[q] = pc[q] /\ pc[q] = "idle"
          /\ state \in StatesAt(pc[t])
      BY <2>4, ProcessStep DEF AtMostOneWorker, SessionInv
    <3> DEFINE Moved ==
                 /\ state' \in StatesAt(pc'[t])
                 /\ state' = "CONNECTING" => mt5Initialized' /\ clientInitialized'
                 /\ state' = "CONNECTED" => mt5Initialized' /\ clientInitialized' /\ startupTime'
                 /\ state' = "INITIALIZING" =>
                       /\ pc'[t] \in {"opened", "connecting"} => clientInitialized'
                       /\ pc'[t] = "connecting" => mt5Initialized'
    <3> state # "SHUTTING_DOWN" \/ lock # "free"
      BY DEF LockInv
    <3> /\ mt5Initialized \in BOOLEAN /\ clientInitialized \in BOOLEAN /\ startupTime \in BOOLEAN
      BY DEF TypeOK
    <3>2. Moved
      <4> USE <3>1 DEF SessionInv, ConnectedMeansOpenSession, StatesAt, States, Goto, lifecycle, client
      <4>1. CASE LoopHead(t)
        BY <4>1 DEF LoopHead
      <4>2. CASE CheckConnected(t)
        BY <4>2 DEF CheckConnected
      <4>3. CASE EnterInitializing(t)
        BY <4>3 DEF EnterInitializing, SetState, LegalFrom, Unavailable
      <4>4. CASE AttemptSucceeded(t)
        BY <4>4 DEF AttemptSucceeded
      <4>5. CASE AttemptFailed(t)
        BY <4>5 DEF AttemptFailed
      <4>6. CASE GiveUp(t)
        BY <4>6 DEF GiveUp, SetState, LegalFrom, Unavailable
      <4>7. CASE Wake(t)
        BY <4>7 DEF Wake
      <4>8. CASE Own(t)
        BY <4>8 DEF Own, Return, SetState, LegalFrom, Unavailable
      <4>9. CASE ClientInitialize(t)
        BY <4>9 DEF ClientInitialize
      <4>10. CASE InitializeRejected(t)
        BY <4>10 DEF InitializeRejected
      <4>11. CASE ResetDisconnected(t)
        BY <4>11 DEF ResetDisconnected, Return, SetState, LegalFrom, Unavailable
      <4>12. CASE InitializeOpened(t)
        BY <4>12 DEF InitializeOpened
      <4>13. CASE EnterConnecting(t)
        BY <4>13 DEF EnterConnecting, SetState, LegalFrom, Unavailable
      <4>14. CASE ClientLogin(t)
        BY <4>14 DEF ClientLogin
      <4>15. CASE LoginFailed(t)
        BY <4>15 DEF LoginFailed, Return, SetState, LegalFrom, Unavailable
      <4>16. CASE EnterConnected(t)
        BY <4>16 DEF EnterConnected, Return, SetState, LegalFrom, Unavailable
      <4> QED
        BY <2>4, <4>1, <4>2, <4>3, <4>4, <4>5, <4>6, <4>7, <4>8, <4>9, <4>10, <4>11, <4>12, <4>13, <4>14, <4>15, <4>16 DEF Loop, Attempt
    <3>3. (\A q \in Threads : q = workerThread => state \in StatesAt(pc[q]))'
      BY <3>1, <3>2 DEF StatesAt
    <3>4. \A q \in Threads : state' = "INITIALIZING" =>
            /\ pc'[q] \in {"opened", "connecting"} => clientInitialized'
            /\ pc'[q] = "connecting" => mt5Initialized'
      <4>1. \A q \in Threads \ {t} : pc'[q] \notin {"opened", "connecting"}
        BY <3>1
      <4> HIDE <3>1
      <4> QED
        BY <3>2, <4>1
    <3>5. state' = "CONNECTING" => WorkerAlive'
      BY <3>1, <3>2 DEF WorkerAlive, StatesAt
    <3> QED
      BY <3>2, <3>3, <3>4, <3>5 DEF SessionInv, ConnectedMeansOpenSession
  <2>5. CASE BackendChanges
    BY <2>5 DEF BackendChanges, control, lifecycle, SessionInv, StatesAt, WorkerAlive,
                ConnectedMeansOpenSession
  <2>6. CASE UNCHANGED vars
    BY <2>6 DEF vars, control, lifecycle, client, SessionInv, StatesAt, WorkerAlive,
                ConnectedMeansOpenSession
  <2> QED
    BY <2>1, <2>2, <2>3, <2>4, <2>5, <2>6 DEF Next
<1> QED
  BY <1>1, <1>2, TypeCorrect, SingleWorker, LockInvariant, PTL DEF Spec

\* CONNECTED is never shown without an open session.
THEOREM ConnectedHasSession ==
    ASSUME Diags = {}
    PROVE  Spec => []ConnectedMeansOpenSession
<1>1. SessionInv => ConnectedMeansOpenSession
  BY DEF SessionInv
<1> QED
  BY <1>1, SessionInvariant, PTL

-----------------------------------------------------------------------------
\* The manager's threads and locks implement the simple lifecycle: every step
\* of theirs is one of its steps or changes nothing in it.
THEOREM Implementation ==
    ASSUME Diags = {}
    PROVE  Spec => ImplementsLifecycle
<1> USE ThreadsAssumption DEF ThreadsAssumption
<1> Processes = Threads
  BY DEF Processes
<1> DEFINE session == mt5Initialized /\ clientInitialized
<1>1. Init => Lifecycle!Init
  BY DEF Init, Lifecycle!Init, Status, Unavailable
<1>2. TypeOK /\ AtMostOneWorker /\ LockInv /\ SessionInv /\ SessionInv' /\ [Next]_vars
        => [Lifecycle!Next]_<<Status, session>>
  <2> SUFFICES ASSUME TypeOK, AtMostOneWorker, LockInv, SessionInv, SessionInv', [Next]_vars
               PROVE  [Lifecycle!Next]_<<Status, session>>
    OBVIOUS
  <2> USE DEF Lifecycle!Next, Lifecycle!Begin, Lifecycle!SessionChanges, Lifecycle!Establish,
              Lifecycle!GiveUp, Lifecycle!Close, Lifecycle!Closed
  <2> /\ state \in States
      /\ mt5Initialized \in BOOLEAN /\ clientInitialized \in BOOLEAN
    BY DEF TypeOK
  <2>0. ASSUME UNCHANGED <<state, mt5Initialized, clientInitialized>>
        PROVE  [Lifecycle!Next]_<<Status, session>>
    BY <2>0 DEF Status
  <2>1. CASE Start
    BY <2>0, <2>1 DEF Start, lifecycle, client
  <2>2. CASE Stop \/ Restart
    <3>1. /\ UNCHANGED <<mt5Initialized, clientInitialized>> /\ state # "SHUTTING_DOWN"
          /\ state' = state \/ (state' = "SHUTTING_DOWN" /\ state \notin Unavailable)
      <4>1. UNCHANGED <<mt5Initialized, clientInitialized>> /\ lock = "free"
        BY <2>2 DEF Stop, Restart, client
      <4>2. state # "SHUTTING_DOWN"
        BY <4>1 DEF LockInv
      <4>3. state' = state \/ SetState("SHUTTING_DOWN")
        BY <2>2 DEF Stop, Restart, BeginStop
      <4>4. state \in Unavailable => "SHUTTING_DOWN" \notin LegalFrom(state)
        BY DEF LegalFrom, Unavailable
      <4> QED
        BY <4>1, <4>2, <4>3, <4>4 DEF SetState
    <3> QED
      BY <2>0, <3>1 DEF Status, States, Unavailable
  <2>3. CASE LockHolder
    <3>1. CASE StopDecide \/ StopJoin \/ RestartStart
      BY <2>0, <3>1 DEF StopDecide, StopJoin, RestartStart, lifecycle, client
    <3>2. CASE StopShutdown
      <4>1. /\ UNCHANGED <<state, mt5Initialized>> /\ clientInitialized' = FALSE
            /\ state = "SHUTTING_DOWN"
        BY <3>2 DEF StopShutdown, LockInv, lifecycle
      <4> QED
        BY <4>1 DEF Status, Unavailable
    <3>3. CASE StopClear
      <4>1. mt5Initialized' = FALSE /\ state = "SHUTTING_DOWN" /\ state' = "DISCONNECTED"
        BY <3>3 DEF StopClear, LockInv, SetState, LegalFrom
      <4> QED
        BY <4>1 DEF Status, Unavailable
    <3> QED
      BY <2>3, <3>1, <3>2, <3>3 DEF LockHolder
  \* A step of the worker keeps the state, or moves it along the attempt.
  <2>4. ASSUME NEW t \in Threads, Loop(t) \/ Attempt(t) PROVE [Lifecycle!Next]_<<Status, session>>
    <3> state \in StatesAt(pc[t]) /\ state \notin Unavailable
      BY <2>4, ProcessStep DEF AtMostOneWorker, SessionInv, LockInv
    <3> state # "SHUTTING_DOWN" \/ lock # "free"
      BY DEF LockInv
    <3>1. \/ UNCHANGED <<state, mt5Initialized, clientInitialized>>
          \/ state' = state /\ state # "CONNECTED" /\ session' \in BOOLEAN
          \/ /\ UNCHANGED <<mt5Initialized, clientInitialized>>
             /\ \/ state \in {"DISCONNECTED", "FAILED"}
                      /\ state' \in {"INITIALIZING", "DISCONNECTED", "FAILED"}
                \/ state \in {"INITIALIZING", "CONNECTING"}
                      /\ state' \in {"INITIALIZING", "CONNECTING", "DISCONNECTED", "FAILED"}
                \/ state = "CONNECTING" /\ state' = "CONNECTED" /\ session
      <4> USE DEF StatesAt, States, lifecycle, client, SessionInv
      <4>1. CASE LoopHead(t)
        BY <4>1 DEF LoopHead
      <4>2. CASE CheckConnected(t)
        BY <4>2 DEF CheckConnected
      <4>3. CASE EnterInitializing(t)
        BY <4>3 DEF EnterInitializing, SetState, LegalFrom, Unavailable
      <4>4. CASE AttemptSucceeded(t)
        BY <4>4 DEF AttemptSucceeded
      <4>5. CASE AttemptFailed(t)
        BY <4>5 DEF AttemptFailed
      <4>6. CASE GiveUp(t)
        BY <4>6 DEF GiveUp, SetState, LegalFrom, Unavailable
      <4>7. CASE Wake(t)
        BY <4>7 DEF Wake
      <4>8. CASE Own(t)
        BY <4>8 DEF Own, SetState, LegalFrom, Unavailable
      <4>9. CASE ClientInitialize(t)
        BY <4>9 DEF ClientInitialize
      <4>10. CASE InitializeRejected(t)
        BY <4>10 DEF InitializeRejected
      <4>11. CASE ResetDisconnected(t)
        BY <4>11 DEF ResetDisconnected, SetState, LegalFrom, Unavailable
      <4>12. CASE InitializeOpened(t)
        BY <4>12 DEF InitializeOpened
      <4>13. CASE EnterConnecting(t)
        BY <4>13 DEF EnterConnecting, SetState, LegalFrom, Unavailable
      <4>14. CASE ClientLogin(t)
        BY <4>14 DEF ClientLogin
      <4>15. CASE LoginFailed(t)
        BY <4>15 DEF LoginFailed, SetState, LegalFrom, Unavailable
      <4>16. CASE EnterConnected(t)
        BY <4>16 DEF EnterConnected, SetState, LegalFrom, Unavailable
      <4> QED
        BY <2>4, <4>1, <4>2, <4>3, <4>4, <4>5, <4>6, <4>7, <4>8, <4>9, <4>10, <4>11, <4>12, <4>13, <4>14, <4>15, <4>16 DEF Loop, Attempt
    <3> QED
      BY <2>0, <3>1 DEF Status, Unavailable, States
  <2>5. CASE BackendChanges
    BY <2>0, <2>5 DEF BackendChanges, lifecycle
  <2>6. CASE UNCHANGED vars
    BY <2>0, <2>6 DEF vars, lifecycle, client
  <2> QED
    BY <2>1, <2>2, <2>3, <2>4, <2>5, <2>6 DEF Next
<1> QED
  BY <1>1, <1>2, TypeCorrect, SingleWorker, LockInvariant, SessionInvariant, PTL
     DEF Spec, ImplementsLifecycle, Lifecycle!Spec

-----------------------------------------------------------------------------
(***************************************************************************)
(* The bars.  What is checked, sorted and reduced is the sequence that     *)
(* came, along the positions that passed the checks (c), along an order of *)
(* these (p), along the first positions of each time (f).                  *)
(***************************************************************************)
LEMMA ByTimeIsStrict ==
    ASSUME NEW bs \in Seq(Bar)
    PROVE  StrictOrder(DOMAIN bs, ByTime(bs))
<1>1. \A i \in DOMAIN bs : i \in Nat /\ bs[i].time \in Int
  <2>1. \A i \in DOMAIN bs : i \in Nat /\ bs[i] \in Bar
    BY ElementType
  <2> QED
    BY <2>1 DEF Bar
<1> DEFINE Before(i, j) == bs[i].time < bs[j].time \/ (bs[i].time = bs[j].time /\ i < j)
<1>2. \A i, j \in DOMAIN bs : <<i, j>> \in ByTime(bs) <=> Before(i, j)
  BY DEF ByTime
<1>3. /\ \A i \in DOMAIN bs : ~Before(i, i)
      /\ \A i, j, k \in DOMAIN bs : Before(i, j) /\ Before(j, k) => Before(i, k)
      /\ \A i, j \in DOMAIN bs : i # j => Before(i, j) \/ Before(j, i)
  BY <1>1
<1> HIDE DEF Before
<1> QED
  BY <1>2, <1>3 DEF StrictOrder

\* A sorted sequence is the one that came along a list of all its positions, by
\* time and, within a time, as they came.
LEMMA SortedAlong ==
    ASSUME NEW bs \in Seq(Bar)
    PROVE  \E p \in [DOMAIN bs -> DOMAIN bs] :
              /\ \A k, l \in DOMAIN bs : k < l =>
                    \/ bs[p[k]].time < bs[p[l]].time
                    \/ bs[p[k]].time = bs[p[l]].time /\ p[k] < p[l]
              /\ \A i \in DOMAIN bs : \E k \in DOMAIN bs : p[k] = i
              /\ SortedByTime(bs) \in Seq(Bar) /\ DOMAIN SortedByTime(bs) = DOMAIN bs
              /\ \A k \in DOMAIN bs : SortedByTime(bs)[k] = bs[p[k]]
<1>1. DOMAIN bs = 1..Len(bs) /\ Len(bs) \in Nat
  OBVIOUS
<1>2. IsFiniteSet(DOMAIN bs) /\ Cardinality(DOMAIN bs) = Len(bs)
  BY <1>1, FS_Interval
<1>3. PICK p : Lists(p, DOMAIN bs, ByTime(bs)) /\ SortedByTime(bs) = Along(bs, p)
  BY <1>2, ByTimeIsStrict, PickedAlong DEF SortedByTime
<1>4. p \in [1..Len(bs) -> DOMAIN bs] /\ 1..Cardinality(DOMAIN bs) = DOMAIN bs
  BY <1>1, <1>2, <1>3 DEF Lists
<1>5. /\ SortedByTime(bs) \in Seq(Bar) /\ DOMAIN SortedByTime(bs) = DOMAIN bs
      /\ \A k \in DOMAIN bs : SortedByTime(bs)[k] = bs[p[k]]
  <2>1. PICK n \in Nat : n = Len(bs)
    BY <1>1
  <2>2. p \in [1..n -> DOMAIN bs]
    BY <1>4, <2>1
  <2>3. /\ Along(bs, p) \in Seq(Bar) /\ DOMAIN Along(bs, p) = 1..n
        /\ \A k \in 1..n : Along(bs, p)[k] = bs[p[k]]
    BY <2>2, AlongIsSequence
  <2> QED
    BY <1>1, <1>3, <2>1, <2>3, Zenon
<1>6. /\ \A k, l \in DOMAIN bs : k < l => <<p[k], p[l]>> \in ByTime(bs)
      /\ \A i \in DOMAIN bs : \E k \in DOMAIN bs : p[k] = i
  BY <1>3, <1>4 DEF Lists
<1>7. \A k, l \in DOMAIN bs : k < l =>
          \/ bs[p[k]].time < bs[p[l]].time
          \/ bs[p[k]].time = bs[p[l]].time /\ p[k] < p[l]
  BY <1>6 DEF ByTime
<1> QED
  BY <1>1, <1>4, <1>5, <1>6, <1>7

\* The bars that pass the checks, where they were.
LEMMA CheckedAlong ==
    ASSUME NEW raw \in Seq(Bar)
    PROVE  \E c \in [DOMAIN Checked(raw) -> {i \in DOMAIN raw : Valid(raw[i])}] :
              /\ \A k, l \in DOMAIN Checked(raw) : k < l => c[k] < c[l]
              /\ \A i \in DOMAIN raw : Valid(raw[i]) => \E k \in DOMAIN Checked(raw) : c[k] = i
              /\ Checked(raw) \in Seq(Bar)
              /\ \A k \in DOMAIN Checked(raw) : Checked(raw)[k] = raw[c[k]]
<1> DEFINE V == {i \in DOMAIN raw : Valid(raw[i])}
<1>1. V \in SUBSET DOMAIN raw
  OBVIOUS
<1>2. IsFiniteSet(V) /\ Cardinality(V) \in Nat
  <2>1. IsFiniteSet(1..Len(raw)) /\ DOMAIN raw = 1..Len(raw)
    BY FS_Interval
  <2>2. IsFiniteSet(V)
    BY <1>1, <2>1, FS_Subset
  <2> QED
    BY <2>2, FS_CardinalityType
<1>3. Checked(raw) = Subsequence(raw, V)
  BY DEF Checked
<1>4. \A i \in DOMAIN raw : Valid(raw[i]) <=> i \in V
  OBVIOUS
<1> HIDE DEF V
<1>5. PICK c : /\ c \in [1..Cardinality(V) -> V]
               /\ \A k, l \in 1..Cardinality(V) : k < l => c[k] < c[l]
               /\ \A i \in V : \E k \in 1..Cardinality(V) : c[k] = i
               /\ Subsequence(raw, V) = Along(raw, c)
  BY <1>1, SubsequenceAlong
<1>6. /\ Checked(raw) \in Seq(Bar) /\ DOMAIN Checked(raw) = 1..Cardinality(V)
      /\ \A k \in 1..Cardinality(V) : Checked(raw)[k] = raw[c[k]]
  <2>1. /\ Along(raw, c) \in Seq(Bar) /\ DOMAIN Along(raw, c) = 1..Cardinality(V)
        /\ \A k \in 1..Cardinality(V) : Along(raw, c)[k] = raw[c[k]]
    <3>1. c \in [1..Cardinality(V) -> DOMAIN raw]
      BY <1>1, <1>5
    <3> QED
      BY <1>2, <3>1, AlongIsSequence
  <2> QED
    BY <1>3, <1>5, <2>1, Zenon
<1> QED
  BY <1>4, <1>5, <1>6 DEF V

\* The last bar of a time that some bar has.
LEMMA LastOfTimeIs ==
    ASSUME NEW bs \in Seq(Bar), NEW i \in DOMAIN bs
    PROVE  LET m == LastOfTime(bs, bs[i].time)
           IN  /\ m \in DOMAIN bs /\ bs[m].time = bs[i].time
               /\ \A j \in DOMAIN bs : j > m => bs[j].time # bs[i].time
<1> DEFINE P == {j \in DOMAIN bs : bs[j].time = bs[i].time}
           IsLast(m) == bs[m].time = bs[i].time
                        /\ \A j \in (m + 1)..Len(bs) : bs[j].time # bs[i].time
<1>1. P \in SUBSET (1..Len(bs)) /\ P # {} /\ Len(bs) \in Nat /\ DOMAIN bs = 1..Len(bs)
  OBVIOUS
<1>2. PICK m \in P : \A j \in P : j <= m
  <2> HIDE DEF P
  <2> QED
    BY <1>1, FirstAndLast
<1>3. m \in DOMAIN bs /\ IsLast(m)
  BY <1>1, <1>2
<1>4. LastOfTime(bs, bs[i].time) = CHOOSE k \in DOMAIN bs : IsLast(k)
  BY DEF LastOfTime
<1>5. LastOfTime(bs, bs[i].time) \in DOMAIN bs /\ IsLast(LastOfTime(bs, bs[i].time))
  <2> HIDE DEF IsLast
  <2> QED
    BY <1>3, <1>4
<1> QED
  BY <1>1, <1>5

\* One bar for each time, in the place of the first and with the value of the last.
LEMMA DeduplicatedAlong ==
    ASSUME NEW bs \in Seq(Bar)
    PROVE  \E n \in Nat : \E f \in [1..n -> FirstsOfTime(bs)] :
              /\ \A k, l \in 1..n : k < l => f[k] < f[l]
              /\ \A i \in FirstsOfTime(bs) : \E k \in 1..n : f[k] = i
              /\ Deduplicated(bs) \in Seq(Bar) /\ DOMAIN Deduplicated(bs) = 1..n
              /\ \A k \in 1..n : Deduplicated(bs)[k] = bs[LastOfTime(bs, bs[f[k]].time)]
<1> DEFINE F == FirstsOfTime(bs)
<1>1. F \in SUBSET DOMAIN bs
  BY DEF FirstsOfTime
<1>2. IsFiniteSet(F) /\ Cardinality(F) \in Nat
  <2>1. IsFiniteSet(1..Len(bs)) /\ DOMAIN bs = 1..Len(bs)
    BY FS_Interval
  <2>2. IsFiniteSet(F)
    BY <1>1, <2>1, FS_Subset
  <2> QED
    BY <2>2, FS_CardinalityType
<1>3. Deduplicated(bs) = [k \in DOMAIN Subsequence(bs, F) |->
                             bs[LastOfTime(bs, Subsequence(bs, F)[k].time)]]
  BY DEF Deduplicated
<1> HIDE DEF F
<1>4. PICK f : /\ f \in [1..Cardinality(F) -> F]
               /\ \A k, l \in 1..Cardinality(F) : k < l => f[k] < f[l]
               /\ \A i \in F : \E k \in 1..Cardinality(F) : f[k] = i
               /\ Subsequence(bs, F) = Along(bs, f)
  BY <1>1, SubsequenceAlong
<1>5. /\ DOMAIN Subsequence(bs, F) = 1..Cardinality(F)
      /\ \A k \in 1..Cardinality(F) : Subsequence(bs, F)[k] = bs[f[k]]
  <2>1. /\ DOMAIN Along(bs, f) = 1..Cardinality(F)
        /\ \A k \in 1..Cardinality(F) : Along(bs, f)[k] = bs[f[k]]
    <3>1. f \in [1..Cardinality(F) -> DOMAIN bs]
      BY <1>1, <1>4
    <3> QED
      BY <1>2, <3>1, AlongIsSequence
  <2> QED
    BY <1>4, <2>1, Zenon
<1>6. /\ DOMAIN Deduplicated(bs) = 1..Cardinality(F)
      /\ \A k \in 1..Cardinality(F) : Deduplicated(bs)[k] = bs[LastOfTime(bs, bs[f[k]].time)]
  BY <1>3, <1>5
<1>7. \A k \in 1..Cardinality(F) : bs[LastOfTime(bs, bs[f[k]].time)] \in Bar
  <2> TAKE k \in 1..Cardinality(F)
  <2>1. f[k] \in DOMAIN bs
    BY <1>1, <1>4
  <2> QED
    BY <2>1, LastOfTimeIs, ElementType
<1>8. Deduplicated(bs) \in [1..Cardinality(F) -> Bar]
  BY <1>3, <1>5, <1>7
<1>9. Deduplicated(bs) \in Seq(Bar)
  BY <1>2, <1>8
<1> QED
  BY <1>2, <1>4, <1>6, <1>9 DEF F

\* g lists the positions of the valid bars: by time and, within a time, as they came.
ListsValid(g, sorted, raw) ==
    /\ g \in [DOMAIN sorted -> DOMAIN raw]
    /\ \A k \in DOMAIN sorted : Valid(raw[g[k]]) /\ sorted[k] = raw[g[k]]
    /\ \A k, l \in DOMAIN sorted : k < l =>
          \/ sorted[k].time < sorted[l].time
          \/ sorted[k].time = sorted[l].time /\ g[k] < g[l]
    /\ \A i \in DOMAIN raw : Valid(raw[i]) => \E k \in DOMAIN sorted : g[k] = i

\* Sorting what passed the checks is the sequence that came along such a list.
LEMMA CheckedAndSorted ==
    ASSUME NEW raw \in Seq(Bar), NEW sorted, sorted = SortedByTime(Checked(raw))
    PROVE  sorted \in Seq(Bar) /\ \E g : ListsValid(g, sorted, raw)
<1> DEFINE checked == Checked(raw)
<1>1. PICK c \in [DOMAIN checked -> {i \in DOMAIN raw : Valid(raw[i])}] :
              /\ \A k, l \in DOMAIN checked : k < l => c[k] < c[l]
              /\ \A i \in DOMAIN raw : Valid(raw[i]) => \E k \in DOMAIN checked : c[k] = i
              /\ checked \in Seq(Bar)
              /\ \A k \in DOMAIN checked : checked[k] = raw[c[k]]
  BY CheckedAlong
<1> HIDE DEF checked
<1>2. PICK p \in [DOMAIN checked -> DOMAIN checked] :
              /\ \A k, l \in DOMAIN checked : k < l =>
                    \/ checked[p[k]].time < checked[p[l]].time
                    \/ checked[p[k]].time = checked[p[l]].time /\ p[k] < p[l]
              /\ \A i \in DOMAIN checked : \E k \in DOMAIN checked : p[k] = i
              /\ sorted \in Seq(Bar) /\ DOMAIN sorted = DOMAIN checked
              /\ \A k \in DOMAIN checked : sorted[k] = checked[p[k]]
  BY <1>1, SortedAlong DEF checked
<1> DEFINE g == [k \in DOMAIN sorted |-> c[p[k]]]
<1>3. g \in [DOMAIN sorted -> DOMAIN raw]
  BY <1>1, <1>2
<1>4. \A k \in DOMAIN sorted : Valid(raw[g[k]]) /\ sorted[k] = raw[g[k]]
  BY <1>1, <1>2
<1>5. \A k, l \in DOMAIN sorted : k < l =>
          \/ sorted[k].time < sorted[l].time
          \/ sorted[k].time = sorted[l].time /\ g[k] < g[l]
  <2> TAKE k, l \in DOMAIN sorted
  <2>1. p[k] \in DOMAIN checked /\ p[l] \in DOMAIN checked
    BY <1>2
  <2>2. sorted[k] = checked[p[k]] /\ sorted[l] = checked[p[l]]
    BY <1>2
  <2>3. p[k] < p[l] => g[k] < g[l]
    BY <1>1, <2>1
  <2>4. k < l => \/ checked[p[k]].time < checked[p[l]].time
                 \/ checked[p[k]].time = checked[p[l]].time /\ p[k] < p[l]
    BY <1>2
  <2> HIDE DEF g
  <2> QED
    BY <2>2, <2>3, <2>4, Zenon
<1>6. \A i \in DOMAIN raw : Valid(raw[i]) => \E k \in DOMAIN sorted : g[k] = i
  <2> SUFFICES ASSUME NEW i \in DOMAIN raw, Valid(raw[i])
               PROVE  \E k \in DOMAIN sorted : g[k] = i
    OBVIOUS
  <2>1. PICK q \in DOMAIN checked : c[q] = i
    BY <1>1
  <2>2. PICK k \in DOMAIN checked : p[k] = q
    BY <1>2
  <2> QED
    BY <1>2, <2>1, <2>2
<1> HIDE DEF g
<1>7. ListsValid(g, sorted, raw)
  BY <1>3, <1>4, <1>5, <1>6, Zenon DEF ListsValid
<1> QED
  BY <1>2, <1>7, Zenon

\* The position of a bar that no valid bar of its time comes after.
Latest(raw, i) ==
    Valid(raw[i]) /\ \A l \in DOMAIN raw : l > i /\ Valid(raw[l]) => raw[l].time # raw[i].time

\* What is answered ascends, and holds the last valid bar of each time, for any
\* sequence of bars.
LEMMA NormalizedIsLatest ==
    ASSUME NEW raw \in Seq(Bar), NEW out, out = Normalized(raw)
    PROVE  /\ \A i, j \in DOMAIN out : i < j => out[i].time < out[j].time
           /\ {out[i] : i \in DOMAIN out} =
                 {raw[i] : i \in {k \in DOMAIN raw : Latest(raw, k)}}
<1>0. PICK sorted : sorted = SortedByTime(Checked(raw))
  OBVIOUS
<1>1. sorted \in Seq(Bar) /\ \E g : ListsValid(g, sorted, raw)
  BY <1>0, CheckedAndSorted
<1>2. PICK g : ListsValid(g, sorted, raw)
  BY <1>1
<1> USE DEF ListsValid
<1>3. PICK n \in Nat : \E f \in [1..n -> FirstsOfTime(sorted)] :
              /\ \A k, l \in 1..n : k < l => f[k] < f[l]
              /\ \A i \in FirstsOfTime(sorted) : \E k \in 1..n : f[k] = i
              /\ DOMAIN Deduplicated(sorted) = 1..n
              /\ \A k \in 1..n :
                    Deduplicated(sorted)[k] = sorted[LastOfTime(sorted, sorted[f[k]].time)]
  BY <1>1, DeduplicatedAlong
<1>4. PICK f \in [1..n -> FirstsOfTime(sorted)] :
              /\ \A k, l \in 1..n : k < l => f[k] < f[l]
              /\ \A i \in FirstsOfTime(sorted) : \E k \in 1..n : f[k] = i
              /\ DOMAIN out = 1..n
              /\ \A k \in 1..n : out[k] = sorted[LastOfTime(sorted, sorted[f[k]].time)]
  BY <1>0, <1>3 DEF Normalized
<1> DEFINE last(k) == LastOfTime(sorted, sorted[k].time)
<1>5. \A k \in DOMAIN sorted : /\ last(k) \in DOMAIN sorted
                               /\ sorted[last(k)].time = sorted[k].time
                               /\ \A j \in DOMAIN sorted : j > last(k) =>
                                     sorted[j].time # sorted[k].time
  BY <1>1, LastOfTimeIs
<1> HIDE DEF last
<1>6. \A k \in 1..n : f[k] \in DOMAIN sorted /\ out[k] = sorted[last(f[k])]
  BY <1>4 DEF FirstsOfTime, last
<1>7. /\ \A k \in DOMAIN sorted : k \in Nat /\ sorted[k].time \in Int
      /\ \A i \in DOMAIN raw : i \in Nat
  <2>1. \A k \in DOMAIN sorted : k \in Nat /\ sorted[k] \in Bar
    BY <1>1, ElementType
  <2> QED
    BY <2>1, ElementType DEF Bar
<1>8. \A k, l \in 1..n : k < l => out[k].time < out[l].time
  <2> SUFFICES ASSUME NEW k \in 1..n, NEW l \in 1..n, k < l
               PROVE  out[k].time < out[l].time
    OBVIOUS
  <2>1. f[k] \in DOMAIN sorted /\ f[l] \in DOMAIN sorted /\ f[k] < f[l]
    BY <1>4, <1>6
  <2>2. f[l] \in FirstsOfTime(sorted) /\ f[k] \in 1..(f[l] - 1)
    BY <1>1, <1>4, <1>7, <2>1
  <2>3. sorted[f[k]].time # sorted[f[l]].time
    BY <2>2 DEF FirstsOfTime
  <2>4. sorted[f[k]].time < sorted[f[l]].time
    BY <1>2, <2>1, <2>3
  <2> QED
    BY <1>5, <1>6, <2>1, <2>4
<1>9. ASSUME NEW k \in DOMAIN sorted
      PROVE  Latest(raw, g[k]) <=> last(k) = k
  <2>1. ASSUME last(k) = k PROVE Latest(raw, g[k])
    <3> SUFFICES ASSUME NEW l \in DOMAIN raw, l > g[k], Valid(raw[l]),
                        raw[l].time = raw[g[k]].time
                 PROVE  FALSE
      BY <1>2 DEF Latest
    <3>1. PICK j \in DOMAIN sorted : g[j] = l
      BY <1>2
    <3>2. sorted[j].time = sorted[k].time /\ g[j] > g[k]
      BY <1>2, <3>1
    <3>3. ~(j > k)
      BY <1>5, <2>1, <3>2
    <3>4. j # k /\ ~(j < k)
      BY <1>2, <1>7, <3>2
    <3> QED
      BY <1>7, <3>3, <3>4
  <2>2. ASSUME last(k) # k PROVE ~Latest(raw, g[k])
    <3>1. last(k) \in DOMAIN sorted /\ sorted[last(k)].time = sorted[k].time
      BY <1>5
    <3>2. last(k) > k
      BY <1>5, <1>7, <2>2, <3>1
    <3>3. g[last(k)] > g[k]
      BY <1>2, <1>7, <3>1, <3>2
    <3> QED
      BY <1>2, <3>1, <3>3 DEF Latest
  <2> QED
    BY <2>1, <2>2
<1>10. \A k \in 1..n : \E i \in DOMAIN raw : Latest(raw, i) /\ out[k] = raw[i]
  <2> TAKE k \in 1..n
  <2> DEFINE m == last(f[k])
  <2>1. m \in DOMAIN sorted /\ out[k] = sorted[m]
    BY <1>5, <1>6
  <2>2. last(m) = m
    <3>1. sorted[m].time = sorted[f[k]].time
      BY <1>5, <1>6
    <3> QED
      BY <3>1 DEF last
  <2>3. Latest(raw, g[m]) /\ g[m] \in DOMAIN raw /\ sorted[m] = raw[g[m]]
    BY <1>2, <1>9, <2>1, <2>2
  <2> QED
    BY <2>1, <2>3
<1>11. \A i \in DOMAIN raw : Latest(raw, i) => \E k \in 1..n : out[k] = raw[i]
  <2> SUFFICES ASSUME NEW i \in DOMAIN raw, Latest(raw, i)
               PROVE  \E k \in 1..n : out[k] = raw[i]
    OBVIOUS
  <2>1. PICK m \in DOMAIN sorted : g[m] = i
    BY <1>2 DEF Latest
  <2>2. last(m) = m /\ sorted[m] = raw[i]
    BY <1>2, <1>9, <2>1
  <2> DEFINE same == {j \in DOMAIN sorted : sorted[j].time = sorted[m].time}
  <2>3. same # {} /\ same \in SUBSET (1..Len(sorted)) /\ Len(sorted) \in Nat
    BY <1>1, <2>1
  <2>4. PICK first \in same : \A j \in same : first <= j
    <3> HIDE DEF same
    <3> QED
      BY <2>3, FirstAndLast
  <2>5. first \in FirstsOfTime(sorted)
    <3>1. first \in DOMAIN sorted /\ first \in Nat /\ DOMAIN sorted = 1..Len(sorted)
      BY <1>1, <1>7
    <3>2. \A j \in 1..(first - 1) : j \in DOMAIN sorted /\ ~(first <= j)
      BY <2>3, <3>1
    <3> QED
      BY <2>4, <3>1, <3>2 DEF FirstsOfTime
  <2>6. PICK k \in 1..n : f[k] = first
    BY <1>4, <2>5
  <2>7. sorted[first].time = sorted[m].time
    OBVIOUS
  <2>8. last(first) = last(m)
    BY <2>7 DEF last
  <2> QED
    BY <1>6, <2>2, <2>6, <2>8
<1>12. \A i, j \in DOMAIN out : i < j => out[i].time < out[j].time
  BY <1>4, <1>8
<1>13. {out[i] : i \in DOMAIN out} = {raw[i] : i \in {k \in DOMAIN raw : Latest(raw, k)}}
  <2> DEFINE L == {k \in DOMAIN raw : Latest(raw, k)}
  <2>1. \A i \in DOMAIN out : \E j \in L : out[i] = raw[j]
    BY <1>4, <1>10
  <2>2. \A j \in L : \E i \in DOMAIN out : out[i] = raw[j]
    BY <1>4, <1>11
  <2> HIDE DEF L
  <2>3. {out[i] : i \in DOMAIN out} = {raw[i] : i \in L}
    BY <2>1, <2>2
  <2> QED
    BY <2>3 DEF L
<1> QED
  BY <1>12, <1>13

\* Nothing is answered only if no bar passed the checks.
LEMMA NormalizedIsEmpty ==
    ASSUME NEW raw \in Seq(Bar)
    PROVE  (Normalized(raw) # <<>>) <=> (Checked(raw) # <<>>)
<1> DEFINE checked == Checked(raw)
           sorted == SortedByTime(checked)
           out == Deduplicated(sorted)
<1>1. checked \in Seq(Bar)
  BY CheckedAlong
<1> HIDE DEF checked
<1>2. sorted \in Seq(Bar) /\ DOMAIN sorted = DOMAIN checked
  BY <1>1, SortedAlong
<1> HIDE DEF sorted
<1>3. PICK n \in Nat : \E f \in [1..n -> FirstsOfTime(sorted)] :
              /\ \A i \in FirstsOfTime(sorted) : \E k \in 1..n : f[k] = i
              /\ out \in Seq(Bar) /\ DOMAIN out = 1..n
  BY <1>2, DeduplicatedAlong
<1> HIDE DEF out
<1>4. PICK f \in [1..n -> FirstsOfTime(sorted)] :
              /\ \A i \in FirstsOfTime(sorted) : \E k \in 1..n : f[k] = i
              /\ out \in Seq(Bar) /\ DOMAIN out = 1..n
  BY <1>3
<1>5. out # <<>> => checked # <<>>
  <2> SUFFICES ASSUME out # <<>> PROVE checked # <<>>
    OBVIOUS
  <2>1. 1 \in 1..n
    BY <1>4
  <2>2. f[1] \in DOMAIN sorted
    BY <1>4, <2>1 DEF FirstsOfTime
  <2> QED
    BY <1>2, <2>2
<1>6. checked # <<>> => out # <<>>
  <2> SUFFICES ASSUME checked # <<>> PROVE out # <<>>
    OBVIOUS
  <2>1. 1 \in DOMAIN sorted
    BY <1>1, <1>2
  <2>2. 1 \in FirstsOfTime(sorted)
    BY <2>1 DEF FirstsOfTime
  <2> QED
    BY <1>4, <2>2
<1> QED
  BY <1>5, <1>6 DEF out, sorted, checked, Normalized

-----------------------------------------------------------------------------
(***************************************************************************)
(* The application.  A step of it is a step of its manager or leaves it    *)
(* alone, so that the theorems about the manager are theorems about it.    *)
(* What is said of the session assumes, as in the application, that only   *)
(* the worker attempts.                                                    *)
(***************************************************************************)
ManagerStep == LockHolder \/ (\E t \in Threads : Loop(t) \/ Attempt(t)) \/ BackendChanges

\* The handlers, and Receive, change nothing in the manager.
LEMMA HandlersReadOnly ==
    ASSUME Receive \/ Handle
    PROVE  UNCHANGED <<manager, phase>>
BY DEF Receive, Handle, Authenticate, Validate, Gate, Trade, Ready, Read, Respond,
       ReadHealth, ReadCapabilities, Log, manager

\* The manager inside the application runs as ConnectionManager says.
THEOREM ManagerInside == AppSpec => Spec
<1>1. AppInit => Init
  BY DEF AppInit
<1>2. [AppNext]_appVars => [Next]_vars
  <2> SUFFICES ASSUME [AppNext]_appVars PROVE [Next]_vars
    OBVIOUS
  <2>1. CASE Startup
    BY <2>1 DEF Startup, Next
  <2>2. CASE Shutdown
    BY <2>2 DEF Shutdown, Next, vars, manager
  <2>3. CASE Receive \/ Handle
    BY <2>3, HandlersReadOnly DEF vars, manager
  <2>4. CASE Beside
    BY <2>4 DEF Beside, Next, Processes
  <2>5. CASE UNCHANGED appVars
    BY <2>5 DEF appVars, vars, manager
  <2> QED
    BY <2>1, <2>2, <2>3, <2>4, <2>5 DEF AppNext
<1> QED
  BY <1>1, <1>2, PTL DEF AppSpec, Spec

\* What the theorems about the manager say of its states.
ManagerInv == TypeOK /\ AtMostOneWorker /\ LockInv /\ SessionInv

LEMMA ManagerInvariants ==
    ASSUME Diags = {}
    PROVE  AppSpec => []ManagerInv
BY ManagerInside, TypeCorrect, SingleWorker, LockInvariant, SessionInvariant, PTL DEF ManagerInv

-----------------------------------------------------------------------------
\* With the lock free, nothing that runs beside the event loop takes it, and
\* nothing ends an established connection.
LEMMA ConnectedStays ==
    ASSUME Diags = {}, ManagerInv, lock = "free", ManagerStep
    PROVE  /\ lock' = "free"
           /\ state = "CONNECTED" => state' = "CONNECTED" /\ mt5Initialized' = mt5Initialized
<1> USE DEF ManagerInv
<1>1. ~LockHolder
  BY DEF LockHolder, StopDecide, StopShutdown, StopClear, StopJoin, RestartStart, LockInv
<1>2. CASE BackendChanges
  BY <1>2 DEF BackendChanges, lifecycle, control
<1>3. ASSUME NEW t \in Threads, Loop(t) \/ Attempt(t)
      PROVE  /\ lock' = "free"
             /\ state = "CONNECTED" => state' = "CONNECTED" /\ mt5Initialized' = mt5Initialized
  <2>1. pc[t] # "idle" /\ lock' = lock
    BY <1>3, ProcessStep DEF Processes
  <2>2. state \in StatesAt(pc[t])
    BY <2>1 DEF AtMostOneWorker, SessionInv
  <2>3. pc[t] \in {"idle"} \cup LoopPcs \cup AttemptPcs
    BY DEF TypeOK, Processes
  <2>4. state = "CONNECTED" => pc[t] \in {"head", "isConnected", "succeeded"}
    BY <2>1, <2>2, <2>3 DEF StatesAt, States, LoopPcs, AttemptPcs
  <2>5. state = "CONNECTED" => UNCHANGED <<state, mt5Initialized>>
    BY <1>3, <2>4 DEF Loop, LoopHead, CheckConnected, EnterInitializing, AttemptSucceeded,
          AttemptFailed, GiveUp, Wake, Attempt, Own, ClientInitialize, InitializeRejected,
          ResetDisconnected, InitializeOpened, EnterConnecting, ClientLogin, LoginFailed,
          EnterConnected, lifecycle
  <2> QED
    BY <2>1, <2>5
<1> QED
  BY <1>1, <1>2, <1>3 DEF ManagerStep

\* Every request is for one of the endpoints.
Requests == [endpoint : Endpoints, authorized : BOOLEAN, valid : BOOLEAN]

RequestOK == request \in Requests

LEMMA RequestType == AppSpec => []RequestOK
<1>1. AppInit => RequestOK
  <2>1. "health" \in Endpoints /\ FALSE \in BOOLEAN
    BY DEF Endpoints
  <2>2. [endpoint |-> "health", authorized |-> FALSE, valid |-> FALSE] \in Requests
    BY <2>1, Zenon DEF Requests
  <2>3. AppInit => request = [endpoint |-> "health", authorized |-> FALSE, valid |-> FALSE]
    BY Zenon DEF AppInit
  <2> QED
    BY <2>2, <2>3, Zenon DEF RequestOK
<1>2. RequestOK /\ [AppNext]_appVars => RequestOK'
  <2> SUFFICES ASSUME RequestOK, [AppNext]_appVars PROVE RequestOK'
    OBVIOUS
  <2> USE DEF RequestOK
  <2>1. CASE Receive
    BY <2>1 DEF Receive, Requests
  <2>2. CASE ~Receive
    <3>1. request' = request
      BY <2>2 DEF AppNext, Startup, Shutdown, Handle, Authenticate, Validate, Gate, Trade, Ready,
            Read, Respond, ReadHealth, ReadCapabilities, Log, Beside, handler, appVars
    <3> QED
      BY <3>1
  <2> QED
    BY <2>1, <2>2
<1> QED
  BY <1>1, <1>2, PTL DEF AppSpec

\* stop() closes the session only in the phase "stopping", and no handler runs
\* then: the manager's lock is free while requests are served.
LEMMA ServedUndisturbed ==
    ASSUME Diags = {}, ManagerInv, AppInv, Beside
    PROVE  AppInv'
<1> USE DEF AppInv, HealthyMeansSession, GateHolds, served, handler
<1>1. UNCHANGED <<phase, handler>> /\ ManagerStep
  BY DEF Beside, ManagerStep
<1>2. CASE phase = "stopping"
  BY <1>1, <1>2
<1>3. CASE phase # "stopping"
  <2>1. /\ lock' = "free"
        /\ state = "CONNECTED" => state' = "CONNECTED" /\ mt5Initialized' = mt5Initialized
    BY <1>1, <1>3, ConnectedStays
  <2> QED
    BY <1>1, <1>3, <2>1
<1> QED
  BY <1>2, <1>3

\* The inductive invariant of the application.
THEOREM AppInvariant ==
    ASSUME Diags = {}
    PROVE  AppSpec => []AppInv
<1>1. AppInit => AppInv
  BY DEF AppInit, Init, AppInv, HealthyMeansSession, GateHolds
<1>2. ManagerInv /\ RequestOK /\ AppInv /\ [AppNext]_appVars => AppInv'
  <2> SUFFICES ASSUME ManagerInv, RequestOK, AppInv, [AppNext]_appVars PROVE AppInv'
    OBVIOUS
  <2> USE DEF AppInv, HealthyMeansSession, GateHolds
  <2>0. state = "CONNECTED" => mt5Initialized /\ startupTime
    BY DEF ManagerInv, SessionInv, ConnectedMeansOpenSession
  <2>1. CASE Startup
    BY <2>1 DEF Startup, Start, lifecycle, handler, served
  <2>2. CASE Shutdown
    BY <2>2 DEF Shutdown, handler, served
  <2>3. CASE Receive
    BY <2>3 DEF Receive, manager, lifecycle, control
  <2>4. CASE Authenticate
    BY <2>4 DEF Authenticate, Answer, manager, lifecycle, control, served
  <2>5. CASE Validate
    <3>1. UNCHANGED <<phase, lock, state, mt5Initialized, startupTime, request, report>>
      BY <2>5 DEF Validate, manager, lifecycle, control
    <3>2. \/ at' = "log"
          \/ answer' = answer /\ at' = "health" /\ request.endpoint = "health"
          \/ answer' = answer /\ at' = "gate" /\ request.endpoint \in Gated
          \/ answer' = answer /\ at' = "ready" /\ request.endpoint \notin Gated
                /\ request.endpoint # "health"
      BY <2>5 DEF Validate, Answer
    <3>3. at' = "log" => request.endpoint # "health"
      BY <2>5, Zenon DEF Validate, Answer, Parameterized
    <3>4. request.endpoint \in {"account", "positions", "symbols", "bars"} => left' = 1
      BY <2>5 DEF Validate, Reads
    <3>5. request.endpoint \in {"market", "history"} => left' = 2
      BY <2>5 DEF Validate, Reads
    <3>6. request.endpoint \in Endpoints
      BY DEF RequestOK, Requests
    <3>7. at' \in {"gate", "ready"} /\ request.endpoint # "trade" => left' \in 1..2
      BY <3>2, <3>4, <3>5, <3>6 DEF Endpoints, Gated
    <3> QED
      BY <2>5, <3>1, <3>2, <3>3, <3>7 DEF Endpoints, Gated, Validate
  <2>6. CASE Gate
    BY <2>6, <2>0 DEF Gate, Answer, manager, lifecycle, control, served, Gated
  <2>7. CASE Trade
    BY <2>7 DEF Trade, Answer, manager, lifecycle, control, served
  <2>8. CASE Ready
    <3>1. UNCHANGED <<phase, lock, state, mt5Initialized, startupTime, request, report, answer>>
      BY <2>8 DEF Ready, manager, lifecycle, control
    <3>2. CASE state = "CONNECTED" /\ mt5Initialized
      <4>1. at' = "read" /\ left' = left
        BY <2>8, <3>2 DEF Ready
      <4> QED
        BY <2>8, <3>1, <3>2, <4>1 DEF Ready
    <3>3. CASE ~(state = "CONNECTED" /\ mt5Initialized)
      <4>1. left' = left - 1 /\ at' = IF left = 1 THEN "respond" ELSE "ready"
        BY <2>8, <3>3, Zenon DEF Ready
      <4> QED
        BY <2>8, <3>1, <3>3, <4>1 DEF Ready
    <3> QED
      BY <3>2, <3>3
  <2>9. CASE Read
    BY <2>9 DEF Read, manager, lifecycle, control
  <2>10. CASE Respond
    BY <2>10 DEF Respond, Answer, manager, lifecycle, control, served
  <2>11. CASE ReadHealth
    BY <2>11, <2>0 DEF ReadHealth, manager, lifecycle, control
  <2>12. CASE ReadCapabilities
    <3>1. UNCHANGED <<manager, phase, request>>
      BY <2>12, Zenon DEF ReadCapabilities
    <3>2. at = "capabilities" /\ at' = "log"
      BY <2>12, Zenon DEF ReadCapabilities, Answer
    <3>3. answer' = IF report.state = "CONNECTED" THEN "SUCCESS" ELSE "CONNECTION_NOT_READY"
      BY <2>12, Zenon DEF ReadCapabilities, Answer
    <3>4. report.state = "CONNECTED" =>
            report' = [state |-> "CONNECTED", initialized |-> TRUE, uptime |-> TRUE]
      <4> DEFINE healthy == [state |-> "CONNECTED", initialized |-> TRUE, uptime |-> TRUE]
      <4>1. SUFFICES ASSUME report.state = "CONNECTED" PROVE report' = healthy
        OBVIOUS
      <4>2. report = healthy
        BY <3>2, <4>1
      <4>3. (report.initialized \/ mt5Initialized) = TRUE
        BY <4>2
      <4>4. report' = [report EXCEPT !.initialized = report.initialized \/ mt5Initialized]
        BY <2>12, Zenon DEF ReadCapabilities
      <4>5. report' = [report EXCEPT !.initialized = TRUE]
        BY <4>3, <4>4, Zenon
      <4> QED
        BY <4>2, <4>5
    <3> QED
      BY <3>1, <3>2, <3>3, <3>4 DEF manager, control
  <2>13. CASE Log
    BY <2>13 DEF Log, manager, lifecycle, control, served
  <2>14. CASE Beside
    BY <2>14, ServedUndisturbed
  <2>15. CASE UNCHANGED appVars
    BY <2>15 DEF appVars, manager, lifecycle, control, handler, served
  <2> QED
    BY <2>1, <2>2, <2>3, <2>4, <2>5, <2>6, <2>7, <2>8, <2>9, <2>10, <2>11, <2>12, <2>13,
       <2>14, <2>15 DEF AppNext, Handle
<1> QED
  BY <1>1, <1>2, ManagerInvariants, RequestType, PTL DEF AppSpec

\* Every variable of the application stays in its type.
THEOREM AppTypeCorrect ==
    ASSUME Diags = {}
    PROVE  AppSpec => []AppTypeOK
<1> DEFINE AppType ==
      /\ phase \in {"starting", "serving", "stopping"}
      /\ at \in {"idle", "authenticate", "validate", "gate", "service", "ready", "read", "respond",
                 "health", "capabilities", "log"}
      /\ left \in 0..2 /\ found \in BOOLEAN /\ failed \in BOOLEAN /\ bars \in RawBars \cup {<<>>}
      /\ report \in [state : States \cup {"none"}, initialized : BOOLEAN, uptime : BOOLEAN]
      /\ answer \in Codes
<1>1. AppInit => AppType
  <2> SUFFICES ASSUME AppInit PROVE AppType
    OBVIOUS
  <2>1. found \in BOOLEAN /\ failed \in BOOLEAN /\ bars \in RawBars \cup {<<>>}
    BY Zenon DEF AppInit
  <2>2. NoReport \in [state : States \cup {"none"}, initialized : BOOLEAN, uptime : BOOLEAN]
    BY Zenon DEF NoReport
  <2> QED
    BY <2>1, <2>2 DEF AppInit, Codes
<1>2. TypeOK /\ RequestOK /\ AppInv /\ AppType /\ [AppNext]_appVars => AppType'
  <2> SUFFICES ASSUME TypeOK, RequestOK, AppInv, AppType, [AppNext]_appVars PROVE AppType'
    OBVIOUS
  <2>1. CASE Startup \/ Shutdown \/ Beside \/ UNCHANGED appVars
    BY <2>1 DEF Startup, Shutdown, Beside, appVars, handler, served
  <2>2. CASE Receive
    <3>1. found' \in BOOLEAN /\ failed' \in BOOLEAN /\ bars' \in RawBars \cup {<<>>}
      BY <2>2, Zenon DEF Receive
    <3>2. NoReport \in [state : States \cup {"none"}, initialized : BOOLEAN, uptime : BOOLEAN]
      BY Zenon DEF NoReport
    <3> QED
      BY <2>2, <3>1, <3>2 DEF Receive, Codes
  <2>3. CASE Authenticate \/ Gate \/ Trade \/ Log
    BY <2>3 DEF Authenticate, Gate, Trade, Log, Answer, served, Codes
  <2>4. CASE Validate
    <3>1. left' \in 0..2
      BY <2>4 DEF Validate, Reads
    <3> QED
      BY <2>4, <3>1 DEF Validate, Answer, Codes
  <2>5. CASE Ready \/ Read
    <3>1. left \in 1..2
      BY <2>5 DEF Ready, Read, AppInv
    <3>2. left' \in 0..2 /\ UNCHANGED <<phase, report, answer>>
      BY <2>5, <3>1 DEF Ready, Read
    <3>3. at' \in {"ready", "read", "respond"}
      BY <2>5 DEF Ready, Read
    <3>4. found' \in BOOLEAN /\ failed' \in BOOLEAN
      BY <2>5, Zenon DEF Ready, Read
    <3>5. bars' \in RawBars \cup {<<>>}
      BY <2>5 DEF Ready, Read, CopyRates
    <3> QED
      BY <3>2, <3>3, <3>4, <3>5
  <2>6. CASE Respond
    <3>1. answer' \in Codes
      <4>1. PICK code \in Answers : Answer(code)
        BY <2>6 DEF Respond
      <4>2. /\ AccountAnswers \subseteq Codes /\ PositionsAnswers \subseteq Codes
            /\ SymbolsAnswers \subseteq Codes /\ QuoteAnswers \subseteq Codes
            /\ BarsAnswers \subseteq Codes /\ HistoryAnswers \subseteq Codes
        BY DEF AccountAnswers, PositionsAnswers, SymbolsAnswers, QuoteAnswers, BarsAnswers,
               HistoryAnswers, Codes
      <4>3. request.endpoint \in {"account", "positions", "symbols", "market", "bars", "history"}
        BY <2>6 DEF Respond, AppInv, RequestOK, Requests, Endpoints
      <4> QED
        BY <4>1, <4>2, <4>3 DEF Answers, Answer
    <3> QED
      BY <2>6, <3>1 DEF Respond, Answer, served
  <2>7. CASE ReadHealth
    BY <2>7 DEF ReadHealth, TypeOK
  <2>8. CASE ReadCapabilities
    BY <2>8 DEF ReadCapabilities, Answer, TypeOK, Codes
  <2> QED
    BY <2>1, <2>2, <2>3, <2>4, <2>5, <2>6, <2>7, <2>8 DEF AppNext, Handle
<1>3. TypeOK /\ RequestOK /\ AppType => AppTypeOK
  BY DEF AppTypeOK, RequestOK, Requests
<1>4. AppSpec => []TypeOK
  BY ManagerInside, TypeCorrect, PTL
<1> QED
  BY <1>1, <1>2, <1>3, <1>4, RequestType, AppInvariant, PTL DEF AppSpec

\* A health report of success is of one moment: what its first read finds in a
\* connected manager is all the second could add.
THEOREM HealthIsOfOneMoment ==
    ASSUME Diags = {}
    PROVE  AppSpec => []HealthyMeansSession
<1>1. AppInv => HealthyMeansSession
  BY DEF AppInv
<1> QED
  BY <1>1, AppInvariant, PTL

\* The state a handler has checked is not stale when it goes on to the service.
THEOREM GateStaysTrue ==
    ASSUME Diags = {}
    PROVE  AppSpec => []GateHolds
<1>1. AppInv => GateHolds
  BY DEF AppInv
<1> QED
  BY <1>1, AppInvariant, PTL

\* While a handler reads from the broker the session is open and the worker is at
\* none of the places from which it calls the client.
THEOREM ReadsUndisturbed ==
    ASSUME Diags = {}
    PROVE  AppSpec => []ReadsAreUndisturbed
<1>1. ManagerInv /\ AppInv => ReadsAreUndisturbed
  <2> SUFFICES ASSUME ManagerInv, AppInv, at = "read" PROVE
         /\ state = "CONNECTED" /\ mt5Initialized /\ clientInitialized
         /\ \A t \in Threads : pc[t] \in {"idle", "head", "isConnected", "succeeded"}
    BY DEF ReadsAreUndisturbed
  <2>1. state = "CONNECTED" /\ mt5Initialized
    BY DEF AppInv
  <2>2. clientInitialized
    BY <2>1 DEF ManagerInv, SessionInv, ConnectedMeansOpenSession
  <2>3. ASSUME NEW t \in Threads PROVE pc[t] \in {"idle", "head", "isConnected", "succeeded"}
    <3>1. pc[t] \in {"idle"} \cup LoopPcs \cup AttemptPcs
      BY DEF ManagerInv, TypeOK, Processes
    <3>2. pc[t] # "idle" => state \in StatesAt(pc[t])
      BY DEF ManagerInv, AtMostOneWorker, SessionInv
    <3> QED
      BY <2>1, <3>1, <3>2 DEF StatesAt, States, LoopPcs, AttemptPcs
  <2> QED
    BY <2>1, <2>2, <2>3
<1> QED
  BY <1>1, AppInvariant, ManagerInvariants, PTL

\* The bars answered are one for each time, the last valid one that came, ascending.
THEOREM BarsOrdered == AppSpec => []BarsAscendingLatest
<1> DEFINE BarsCame == bars \in RawBars \cup {<<>>}
<1>1. AppInit => BarsCame
  BY DEF AppInit
<1>2. BarsCame /\ [AppNext]_appVars => BarsCame'
  <2> SUFFICES ASSUME BarsCame, [AppNext]_appVars PROVE BarsCame'
    OBVIOUS
  <2>1. CASE Read
    BY <2>1 DEF Read, CopyRates
  <2>2. CASE Receive
    BY <2>2 DEF Receive
  <2>3. CASE Startup \/ Shutdown \/ Beside
    BY <2>3 DEF Startup, Shutdown, Beside, handler, served
  <2>4. CASE Authenticate \/ Validate \/ Gate \/ Trade \/ Ready
    BY <2>4 DEF Authenticate, Validate, Gate, Trade, Ready, served
  <2>5. CASE Respond \/ ReadHealth \/ ReadCapabilities \/ Log
    BY <2>5 DEF Respond, ReadHealth, ReadCapabilities, Log, served
  <2>6. CASE UNCHANGED appVars
    BY <2>6 DEF appVars, handler, served
  <2> QED
    BY <2>1, <2>2, <2>3, <2>4, <2>5, <2>6 DEF AppNext, Handle
<1>3. BarsCame => BarsAscendingLatest
  <2> SUFFICES ASSUME BarsCame PROVE BarsAscendingLatest
    OBVIOUS
  <2>1. bars \in Seq(Bar)
    <3>1. <<>> \in Seq(Bar)
      OBVIOUS
    <3> QED
      BY <3>1, RawBarsAssumption DEF RawBarsAssumption
  <2>2. /\ \A i, j \in DOMAIN Normalized(bars) :
              i < j => Normalized(bars)[i].time < Normalized(bars)[j].time
        /\ {Normalized(bars)[i] : i \in DOMAIN Normalized(bars)} =
              {bars[i] : i \in {k \in DOMAIN bars : Latest(bars, k)}}
    BY <2>1, NormalizedIsLatest
  <2> QED
    BY <2>2, Zenon DEF BarsAscendingLatest, Latest
<1> QED
  BY <1>1, <1>2, <1>3, PTL DEF AppSpec
=============================================================================
