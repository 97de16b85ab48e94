------------------------ MODULE MetaApiClientProofs ------------------------
(***************************************************************************)
(* Proofs about MetaApiClient, for any number of callers, handles and      *)
(* regions, and any overlap of the calls.                                  *)
(*                                                                         *)
(* Types need that a request pauses only before an attempt that is still   *)
(* allowed (PausesCount).  That a locked call keeps its handle needs that  *)
(* only the owner of the lock closes one (LockInv), and that there is one  *)
(* open handle at most (NoHandleLeaks).                                    *)
(*                                                                         *)
(* The last section is the refinement of BrokerSession, which the          *)
(* connection manager is written against.                                  *)
(***************************************************************************)
EXTENDS MetaApiClient, TLAPS

USE DEF LockingCalls

PausesCount == \A p \in Processes : pc[p] = "pause" => MayRetry(p)

TypeInv == TypeOK /\ PausesCount

LockInv ==
    \A p \in Processes :
        /\ pc[p] \in {"close", "resetUrl"} => owner = p
        /\ owner = p => pc[p] \notin {"idle", "lock"}

HandleInv == LockInv /\ NoHandleLeaks /\ LockedCallsKeepTheirHandle

-----------------------------------------------------------------------------
(***************************************************************************)
(* Types.                                                                  *)
(***************************************************************************)
LEMMA DefaultUrlType == ASSUME TypeOK PROVE DefaultUrl \in Regions \cup {ExplicitUrl, NoUrl}
BY RegionsAssumption DEF TypeOK, DefaultUrl, RegionHost

LEMMA InitTypes == Init => TypeInv
<1> SUFFICES ASSUME Init PROVE TypeInv
  OBVIOUS
<1>1. TypeOK
  <2>1. /\ owner \in Processes \cup {Nobody} /\ initialized \in BOOLEAN /\ metadata \in BOOLEAN
        /\ region \in Regions \cup {NoRegion} /\ service \in Services
        /\ http \in Handles \cup {NoHandle} /\ openHandles \subseteq Handles
    BY DEF Init
  <2>2. baseUrl \in Regions \cup {ExplicitUrl, NoUrl}
    BY RegionsAssumption DEF Init
  <2>3. /\ pc \in [Processes -> Pcs] /\ call \in [Processes -> Calls]
        /\ stage \in [Processes -> Stages]
    BY DEF Init, Pcs, Calls, Stages
  <2>4. attempt \in [Processes -> 0..(RetryCount + 1)]
    BY ClientAssumption DEF Init
  <2>5. /\ url \in [Processes -> Regions \cup {ExplicitUrl, NoUrl}]
        /\ handle \in [Processes -> Handles \cup {NoHandle}]
        /\ answer \in [Processes -> Services \cup {"none"}]
        /\ result \in [Processes -> {"none", "true", "false", "raised"}]
    BY DEF Init
  <2>6. QED
    BY <2>1, <2>2, <2>3, <2>4, <2>5 DEF TypeOK
<1>2. PausesCount
  BY DEF Init, PausesCount
<1>3. QED
  BY <1>1, <1>2 DEF TypeInv

LEMMA ReturnTypes ==
    ASSUME TypeOK, NEW p \in Processes, NEW v \in {"true", "false", "raised"}, Return(p, v)
    PROVE  /\ owner' \in Processes \cup {Nobody}
           /\ pc' \in [Processes -> Pcs] /\ call' \in [Processes -> Calls]
           /\ stage' \in [Processes -> Stages]
           /\ url' \in [Processes -> Regions \cup {ExplicitUrl, NoUrl}]
           /\ handle' \in [Processes -> Handles \cup {NoHandle}]
           /\ attempt' \in [Processes -> 0..(RetryCount + 1)]
           /\ answer' \in [Processes -> Services \cup {"none"}]
           /\ result' \in [Processes -> {"none", "true", "false", "raised"}]
BY ClientAssumption DEF TypeOK, Return, Goto, Pcs, Calls, Stages

LEMMA CallTypes ==
    ASSUME TypeOK, NEW p \in Processes, NEW c \in Calls, NEW w \in Pcs, NEW s \in Stages,
           call' = [call EXCEPT ![p] = c], Goto(p, w),
           result' = [result EXCEPT ![p] = "none"],
           stage' = stage \/ stage' = [stage EXCEPT ![p] = s],
           UNCHANGED <<owner, shared, url, handle, attempt, answer, service>>
    PROVE  TypeOK'
BY DEF TypeOK, Goto, shared

LEMMA StepTypeOK == TypeInv /\ [Next]_vars => TypeOK'
<1> SUFFICES ASSUME TypeOK, PausesCount, [Next]_vars PROVE TypeOK'
  BY DEF TypeInv
<1> USE DEF shared, locals
<1>1. ASSUME NEW s \in Sessions, CallLocked(s) PROVE TypeOK'
  BY <1>1, CallTypes DEF CallLocked, Calls, Pcs, Stages, Processes
<1>2. ASSUME NEW s \in Sessions, CallTerminalInfo(s) PROVE TypeOK'
  BY <1>2, CallTypes DEF CallTerminalInfo, Calls, Pcs, Stages, Processes
<1>3. ASSUME NEW r \in Readers, CallRead(r) PROVE TypeOK'
  BY <1>3, CallTypes DEF CallRead, Calls, Pcs, Stages, Processes
<1>4. ASSUME NEW p \in Processes, EnterLock(p) PROVE TypeOK'
  BY <1>4 DEF EnterLock, TypeOK, Goto, Pcs, Stages
<1>5. ASSUME NEW p \in Processes, Close(p) PROVE TypeOK'
  BY <1>5 DEF Close, TypeOK, Goto, Pcs
<1>6. ASSUME NEW p \in Processes, ResetUrl(p) PROVE TypeOK'
  <2>1. baseUrl' \in Regions \cup {ExplicitUrl, NoUrl}
    BY <1>6, RegionsAssumption DEF ResetUrl
  <2>2. QED
    BY <1>6, <2>1, ReturnTypes DEF ResetUrl, TypeOK
<1>7. ASSUME NEW p \in Processes, CheckUrl(p) PROVE TypeOK'
  BY <1>7, DefaultUrlType DEF CheckUrl, TypeOK, Goto, Pcs
<1>8. ASSUME NEW p \in Processes, UseUrl(p) PROVE TypeOK'
  <2>1. CASE baseUrl = NoUrl
    BY <1>8, <2>1, ReturnTypes DEF UseUrl, TypeOK
  <2>2. CASE baseUrl # NoUrl
    BY <1>8, <2>2 DEF UseUrl, TypeOK, Goto, Pcs
  <2>3. QED
    BY <2>1, <2>2
<1>9. ASSUME NEW p \in Processes, EnsureHttp(p) PROVE TypeOK'
  <2>1. PICK h \in Handles : /\ http' = h /\ openHandles' = openHandles \cup {h}
                             /\ handle' = [handle EXCEPT ![p] = h]
    BY <1>9 DEF EnsureHttp, TypeOK
  <2>2. attempt' \in [Processes -> 0..(RetryCount + 1)]
    BY <1>9, ClientAssumption DEF EnsureHttp, TypeOK
  <2>3. QED
    BY <1>9, <2>1, <2>2 DEF EnsureHttp, TypeOK, Goto, Pcs
<1>10. ASSUME NEW p \in Processes, Exchange(p) PROVE TypeOK'
  <2>1. CASE Pause(p)
    BY <1>10, <2>1 DEF Exchange, Pause, TypeOK, Goto, Pcs
  <2>2. CASE Fail(p)
    BY <1>10, <2>2, ReturnTypes DEF Exchange, Fail, TypeOK
  <2>3. CASE /\ answer' = [answer EXCEPT ![p] = service] /\ Goto(p, "region")
             /\ UNCHANGED <<owner, shared, call, stage, url, handle, attempt, result>>
    BY <1>10, <2>3 DEF Exchange, TypeOK, Goto, Pcs
  <2>4. CASE Return(p, "true") /\ UNCHANGED shared
    BY <1>10, <2>4, ReturnTypes DEF Exchange, TypeOK
  <2>5. QED
    BY <1>10, <2>1, <2>2, <2>3, <2>4 DEF Exchange
<1>11. ASSUME NEW p \in Processes, Retry(p) PROVE TypeOK'
  <2>1. attempt[p] + 1 \in 0..(RetryCount + 1)
    BY <1>11, ClientAssumption DEF Retry, PausesCount, MayRetry, TypeOK
  <2>2. QED
    BY <1>11, <2>1 DEF Retry, TypeOK, Goto, Pcs
<1>12. ASSUME NEW p \in Processes, SetRegion(p) PROVE TypeOK'
  BY <1>12, RegionsAssumption DEF SetRegion, TypeOK, Goto, Pcs
<1>13. ASSUME NEW p \in Processes, UseMetadata(p) PROVE TypeOK'
  <2>1. baseUrl' \in Regions \cup {ExplicitUrl, NoUrl} /\ initialized' \in BOOLEAN
    BY <1>13, DefaultUrlType DEF UseMetadata, TypeOK
  <2>2. CASE Request(p, "readiness", "ensure") \/ Request(p, "account", "url")
    BY <1>13, <2>1, <2>2 DEF UseMetadata, Request, TypeOK, Goto, Pcs, Stages
  <2>3. CASE Return(p, "true") \/ Return(p, "false")
    BY <1>13, <2>1, <2>3, ReturnTypes DEF UseMetadata, TypeOK
  <2>4. QED
    BY <1>13, <2>2, <2>3 DEF UseMetadata
<1>14. CASE ServiceChanges
  BY <1>14 DEF ServiceChanges, TypeOK
<1>15. CASE UNCHANGED vars
  BY <1>15 DEF vars, TypeOK
<1>16. QED
  BY <1>1, <1>2, <1>3, <1>4, <1>5, <1>6, <1>7, <1>8, <1>9, <1>10, <1>11, <1>12, <1>13,
     <1>14, <1>15 DEF Next, Step

LEMMA StepPausesCount == TypeInv /\ [Next]_vars => PausesCount'
<1> SUFFICES ASSUME TypeOK, PausesCount, [Next]_vars, NEW q \in Processes, pc'[q] = "pause"
             PROVE  MayRetry(q)'
  BY DEF TypeInv, PausesCount
<1>1. ASSUME NEW p \in Processes, Exchange(p), pc'[p] = "pause"
      PROVE  MayRetry(p) /\ attempt' = attempt
  BY <1>1 DEF Exchange, Pause, Fail, Return, Goto, TypeOK, locals
<1>2. ASSUME pc'[q] = pc[q], attempt'[q] = attempt[q] PROVE MayRetry(q)'
  BY <1>2 DEF PausesCount, MayRetry
<1>3. ASSUME NEW p \in Processes, p # q,
             Step(p) \/ CallLocked(p) \/ CallTerminalInfo(p) \/ CallRead(p)
      PROVE  pc'[q] = pc[q] /\ attempt'[q] = attempt[q]
  <2> USE <1>3 DEF Goto, locals, TypeOK
  <2>1. CASE CallLocked(p) \/ CallTerminalInfo(p) \/ CallRead(p)
    BY <2>1 DEF CallLocked, CallTerminalInfo, CallRead
  <2>2. CASE EnterLock(p) \/ Close(p) \/ ResetUrl(p) \/ CheckUrl(p) \/ UseUrl(p)
    BY <2>2 DEF EnterLock, Close, ResetUrl, CheckUrl, UseUrl, Return
  <2>3. CASE EnsureHttp(p) \/ Retry(p) \/ SetRegion(p)
    BY <2>3 DEF EnsureHttp, Retry, SetRegion
  <2>4. CASE Exchange(p)
    BY <2>4 DEF Exchange, Pause, Fail, Return
  <2>5. CASE UseMetadata(p)
    BY <2>5 DEF UseMetadata, Request, Return
  <2>6. QED
    BY <2>1, <2>2, <2>3, <2>4, <2>5 DEF Step
<1>4. ASSUME Step(q) \/ CallLocked(q) \/ CallTerminalInfo(q) \/ CallRead(q)
      PROVE  Exchange(q)
  <2> USE DEF Goto, TypeOK
  <2>1. ~(CallLocked(q) \/ CallTerminalInfo(q) \/ CallRead(q))
    BY DEF CallLocked, CallTerminalInfo, CallRead
  <2>2. ~(EnterLock(q) \/ Close(q) \/ ResetUrl(q) \/ CheckUrl(q) \/ UseUrl(q))
    BY DEF EnterLock, Close, ResetUrl, CheckUrl, UseUrl, Return
  <2>3. ~(EnsureHttp(q) \/ Retry(q) \/ SetRegion(q))
    BY DEF EnsureHttp, Retry, SetRegion
  <2>4. ~UseMetadata(q)
    BY DEF UseMetadata, Request, Return
  <2>5. QED
    BY <1>4, <2>1, <2>2, <2>3, <2>4 DEF Step
<1>5. CASE ServiceChanges \/ UNCHANGED vars
  BY <1>5, <1>2 DEF ServiceChanges, vars, locals
<1>6. QED
  <2>1. ASSUME Exchange(q) PROVE MayRetry(q)'
    BY <2>1, <1>1 DEF MayRetry
  <2>2. QED
    BY <1>2, <1>3, <1>4, <1>5, <2>1 DEF Next, Processes

LEMMA Types == Spec => []TypeInv
<1>1. TypeInv /\ [Next]_vars => TypeInv'
  BY StepTypeOK, StepPausesCount DEF TypeInv
<1>2. QED
  BY InitTypes, <1>1, PTL DEF Spec

\* Type correctness; with it, no request is attempted more than RetryCount + 1
\* times.
THEOREM TypeCorrect == Spec => []TypeOK
<1>1. TypeInv => TypeOK
  BY DEF TypeInv
<1>2. QED
  BY Types, <1>1, PTL

-----------------------------------------------------------------------------
(***************************************************************************)
(* The lock and the HTTP handle.                                           *)
(***************************************************************************)
Calling(p) == CallLocked(p) \/ CallTerminalInfo(p) \/ CallRead(p)

\* What a step of p leaves alone of another caller q.
LEMMA Frame ==
    ASSUME TypeOK, NEW p \in Processes, NEW q \in Processes, q # p, Step(p) \/ Calling(p)
    PROVE  /\ pc'[q] = pc[q] /\ handle'[q] = handle[q]
           /\ owner' = q <=> owner = q
<1> USE ProcessesAssumption DEF Goto, locals, TypeOK, Processes
<1>1. CASE Calling(p)
  BY <1>1 DEF Calling, CallLocked, CallTerminalInfo, CallRead
<1>2. CASE EnterLock(p) \/ Close(p) \/ CheckUrl(p)
  BY <1>2 DEF EnterLock, CanEnter, Close, CheckUrl
<1>3. CASE ResetUrl(p) \/ UseUrl(p)
  BY <1>3 DEF ResetUrl, UseUrl, Return
<1>4. CASE EnsureHttp(p) \/ Retry(p) \/ SetRegion(p)
  BY <1>4 DEF EnsureHttp, Retry, SetRegion
<1>5. CASE Exchange(p)
  BY <1>5 DEF Exchange, Pause, Fail, Return
<1>6. CASE UseMetadata(p)
  BY <1>6 DEF UseMetadata, Request, Return
<1>7. QED
  BY <1>1, <1>2, <1>3, <1>4, <1>5, <1>6 DEF Step

LEMMA HandlesFrame ==
    ASSUME NEW p \in Processes, Step(p) \/ Calling(p), ~Close(p), ~EnsureHttp(p)
    PROVE  UNCHANGED <<http, openHandles>>
<1>1. CASE Calling(p)
  BY <1>1 DEF Calling, CallLocked, CallTerminalInfo, CallRead, shared
<1>2. CASE EnterLock(p) \/ CheckUrl(p) \/ ResetUrl(p) \/ UseUrl(p) \/ Retry(p) \/ SetRegion(p)
  BY <1>2 DEF EnterLock, CheckUrl, ResetUrl, UseUrl, Retry, SetRegion, shared
<1>3. CASE Exchange(p)
  BY <1>3 DEF Exchange, Pause, Fail, shared
<1>4. CASE UseMetadata(p)
  BY <1>4 DEF UseMetadata
<1>5. QED
  BY <1>1, <1>2, <1>3, <1>4 DEF Step

\* What a step of p establishes about p itself.
LEMMA OwnLock ==
    ASSUME TypeOK, LockInv, NEW p \in Processes, Step(p) \/ Calling(p)
    PROVE  /\ pc'[p] \in {"close", "resetUrl"} => owner' = p
           /\ owner' = p => pc'[p] \notin {"idle", "lock"}
<1> USE ProcessesAssumption DEF Goto, locals, TypeOK, Processes, LockInv
<1>1. CASE Calling(p)
  BY <1>1 DEF Calling, CallLocked, CallTerminalInfo, CallRead
<1>2. CASE EnterLock(p) \/ Close(p) \/ CheckUrl(p)
  BY <1>2 DEF EnterLock, Close, CheckUrl
<1>3. CASE ResetUrl(p) \/ UseUrl(p)
  BY <1>3 DEF ResetUrl, UseUrl, Return
<1>4. CASE EnsureHttp(p) \/ Retry(p) \/ SetRegion(p)
  BY <1>4 DEF EnsureHttp, Retry, SetRegion
<1>5. CASE Exchange(p)
  BY <1>5 DEF Exchange, Pause, Fail, Return
<1>6. CASE UseMetadata(p)
  BY <1>6 DEF UseMetadata, Request, Return
<1>7. QED
  BY <1>1, <1>2, <1>3, <1>4, <1>5, <1>6 DEF Step

LEMMA StepLock == TypeOK /\ LockInv /\ [Next]_vars => LockInv'
<1> SUFFICES ASSUME TypeOK, LockInv, [Next]_vars PROVE LockInv'
  OBVIOUS
<1>1. ASSUME NEW p \in Processes, Step(p) \/ Calling(p) PROVE LockInv'
  <2>1. ASSUME NEW q \in Processes, q # p
        PROVE  /\ pc'[q] \in {"close", "resetUrl"} => owner' = q
               /\ owner' = q => pc'[q] \notin {"idle", "lock"}
    BY <1>1, <2>1, Frame DEF LockInv
  <2>2. QED
    BY <1>1, <2>1, OwnLock DEF LockInv
<1>2. CASE ServiceChanges \/ UNCHANGED vars
  BY <1>2 DEF ServiceChanges, vars, LockInv
<1>3. QED
  BY <1>1, <1>2 DEF Next, Calling, Processes

LEMMA StepNoHandleLeaks == TypeOK /\ NoHandleLeaks /\ [Next]_vars => NoHandleLeaks'
<1> SUFFICES ASSUME TypeOK, NoHandleLeaks, [Next]_vars PROVE NoHandleLeaks'
  OBVIOUS
<1> USE DEF NoHandleLeaks
<1>1. ASSUME NEW p \in Processes, Close(p) PROVE NoHandleLeaks'
  BY <1>1 DEF Close
<1>2. ASSUME NEW p \in Processes, EnsureHttp(p) PROVE NoHandleLeaks'
  <2>1. PICK h \in Handles : /\ http' = h /\ openHandles' = openHandles \cup {h}
                             /\ http # NoHandle => h = http
    BY <1>2 DEF EnsureHttp, TypeOK
  <2>2. h # NoHandle
    BY HandlesAssumption
  <2>3. QED
    BY <2>1, <2>2
<1>3. CASE UNCHANGED <<http, openHandles>>
  BY <1>3
<1>4. CASE ServiceChanges \/ UNCHANGED vars
  BY <1>3, <1>4 DEF ServiceChanges, vars, shared
<1>5. QED
  BY <1>1, <1>2, <1>3, <1>4, HandlesFrame DEF Next, Calling, Processes

LEMMA StepKeepsHandle == TypeOK /\ HandleInv /\ [Next]_vars => LockedCallsKeepTheirHandle'
<1> SUFFICES ASSUME TypeOK, HandleInv, [Next]_vars, NEW s \in Sessions,
                    owner' = s, pc'[s] \in {"exchange", "pause"}
             PROVE  handle'[s] = http' /\ http' \in openHandles'
  BY DEF LockedCallsKeepTheirHandle
<1> USE DEF HandleInv
<1>0. s \in Processes
  BY DEF Processes
<1>1. ASSUME NEW p \in Processes, p # s, Step(p) \/ Calling(p)
      PROVE  handle'[s] = http' /\ http' \in openHandles'
  <2>1. owner = s /\ pc[s] \in {"exchange", "pause"} /\ handle'[s] = handle[s]
    BY <1>0, <1>1, Frame
  \* Only the owner of the lock closes or creates a handle.
  <2>2. ~Close(p) /\ ~EnsureHttp(p)
    BY <1>1, <2>1, <1>0, ProcessesAssumption DEF LockInv, Close, EnsureHttp, Processes
  <2>3. QED
    BY <1>1, <2>1, <2>2, HandlesFrame DEF LockedCallsKeepTheirHandle
<1>2. ASSUME Step(s) \/ Calling(s) PROVE handle'[s] = http' /\ http' \in openHandles'
  <2> USE <1>0 DEF Goto, TypeOK
  <2>1. CASE EnsureHttp(s)
    BY <2>1 DEF EnsureHttp
  <2>2. CASE Exchange(s) \/ Retry(s)
    <3>1. handle' = handle /\ UNCHANGED <<http, openHandles>> /\ owner' = owner
      BY <1>2, <2>2 DEF Exchange, Retry, Pause, Fail, Return, locals, shared
    <3>2. pc[s] \in {"exchange", "pause"}
      BY <2>2 DEF Exchange, Retry
    <3>3. QED
      BY <3>1, <3>2 DEF LockedCallsKeepTheirHandle
  <2>3. CASE Calling(s)
    BY <2>3 DEF Calling, CallLocked, CallTerminalInfo, CallRead
  <2>4. CASE EnterLock(s) \/ Close(s) \/ CheckUrl(s) \/ ResetUrl(s) \/ UseUrl(s) \/ SetRegion(s)
    BY <2>4 DEF EnterLock, Close, CheckUrl, ResetUrl, UseUrl, SetRegion, Return
  <2>5. CASE UseMetadata(s)
    BY <2>5 DEF UseMetadata, Request, Return
  <2>6. QED
    BY <1>2, <2>1, <2>2, <2>3, <2>4, <2>5 DEF Step
<1>3. CASE ServiceChanges \/ UNCHANGED vars
  BY <1>3 DEF ServiceChanges, vars, shared, locals, LockedCallsKeepTheirHandle
<1>4. QED
  BY <1>1, <1>2, <1>3 DEF Next, Calling, Processes

LEMMA HandleInvariance == Spec => []HandleInv
<1>1. Init => HandleInv
  BY ProcessesAssumption
     DEF Init, HandleInv, LockInv, NoHandleLeaks, LockedCallsKeepTheirHandle, Processes
<1>2. TypeOK /\ HandleInv /\ [Next]_vars => HandleInv'
  BY StepLock, StepNoHandleLeaks, StepKeepsHandle DEF HandleInv
<1>3. QED
  BY TypeCorrect, <1>1, <1>2, PTL DEF Spec

\* Whatever creates and closes the HTTP handle at the same time, an open one is
\* never lost.
THEOREM HandlesAreClosed == Spec => []NoHandleLeaks
<1>1. HandleInv => NoHandleLeaks
  BY DEF HandleInv
<1>2. QED
  BY HandleInvariance, <1>1, PTL

\* And initialize() and login() keep theirs, through all their retries.
THEOREM LockedHandles == Spec => []LockedCallsKeepTheirHandle
<1>1. HandleInv => LockedCallsKeepTheirHandle
  BY DEF HandleInv
<1>2. QED
  BY HandleInvariance, <1>1, PTL

-----------------------------------------------------------------------------
(***************************************************************************)
(* The reads of a session that no shutdown() overlaps.                     *)
(*                                                                         *)
(* A call that holds the lock, or that shutdown() waits for, is never      *)
(* going on beside close and resetUrl (ShutdownAlone), so that the URL it  *)
(* has found set stays, and is the account's since the region was known    *)
(* when it was derived (HostInv).                                          *)
(***************************************************************************)
Locked(p) == call[p] \in LockingCalls /\ pc[p] \notin {"idle", "lock"}

Unlocked(p) == call[p] \in {"read", "terminalInfo"} /\ pc[p] # "idle"

\* What goes with the stage a call is at.
CallShape(p) ==
    /\ pc[p] = "lock" => call[p] \in LockingCalls
    /\ pc[p] # "idle" => call[p] # "none"
    /\ Locked(p) => owner = p
    /\ pc[p] \in {"close", "resetUrl"} => call[p] = "shutdown"
    /\ call[p] = "shutdown" => p \in Sessions
    /\ call[p] = "read" => p \in Readers
    /\ call[p] = "read" /\ pc[p] # "idle" =>
           stage[p] = "read" /\ pc[p] \in {"url", "useUrl", "ensure", "exchange", "pause"}
    /\ p \in Readers => call[p] \in {"none", "read"}

CallsInv == \A p \in Processes : CallShape(p)

ShutdownAlone ==
    \A p, q \in Processes : pc[p] \in {"close", "resetUrl"} => ~Unlocked(q)

\* What p knows of the session, and of the request it makes.
Hosted(p) ==
    /\ pc[p] = "resetUrl" => ~initialized
    /\ pc[p] = "metadata" => region = AccountRegion
    /\ pc[p] \in {"url", "useUrl"} => baseUrl # NoUrl
    /\ p \in Readers =>
          /\ result[p] # "raised"
          /\ pc[p] \in {"ensure", "exchange", "pause"} => Serves(url[p])
          /\ pc[p] \in {"exchange", "pause"} => handle[p] \in openHandles

SessionInv ==
    /\ region \in {NoRegion, AccountRegion}
    /\ baseUrl # NoUrl => Serves(baseUrl)
    /\ initialized => baseUrl # NoUrl

HostInv == SessionInv /\ \A p \in Processes : Hosted(p)

ReadsInv == LockInv /\ CallsInv /\ ShutdownAlone /\ HostInv

LEMMA InitReads == Init => ReadsInv
<1> SUFFICES ASSUME Init PROVE ReadsInv
  OBVIOUS
<1>1. LockInv
  BY ProcessesAssumption DEF Init, LockInv, Processes
<1>2. CallsInv
  BY DEF Init, CallsInv, CallShape, Locked
<1>3. ShutdownAlone
  BY DEF Init, ShutdownAlone
<1>4. SessionInv
  BY RegionsAssumption DEF Init, SessionInv, Serves
<1>5. \A p \in Processes : Hosted(p)
  BY DEF Init, Hosted
<1>6. QED
  BY <1>1, <1>2, <1>3, <1>4, <1>5 DEF ReadsInv, HostInv

CallingAs(p) ==
    \/ p \in Sessions /\ (CallLocked(p) \/ CallTerminalInfo(p))
    \/ p \in Readers /\ CallRead(p)

\* What a step of p leaves alone of another caller's call.
LEMMA CallFrame ==
    ASSUME TypeOK, NEW p \in Processes, NEW q \in Processes, q # p, Step(p) \/ Calling(p)
    PROVE  /\ pc'[q] = pc[q] /\ call'[q] = call[q] /\ stage'[q] = stage[q]
           /\ url'[q] = url[q] /\ handle'[q] = handle[q] /\ result'[q] = result[q]
<1> USE DEF Goto, locals, TypeOK
<1>1. CASE Calling(p)
  BY <1>1 DEF Calling, CallLocked, CallTerminalInfo, CallRead
<1>2. CASE EnterLock(p) \/ Close(p) \/ CheckUrl(p)
  BY <1>2 DEF EnterLock, Close, CheckUrl
<1>3. CASE ResetUrl(p) \/ UseUrl(p)
  BY <1>3 DEF ResetUrl, UseUrl, Return
<1>4. CASE EnsureHttp(p) \/ Retry(p) \/ SetRegion(p)
  BY <1>4 DEF EnsureHttp, Retry, SetRegion
<1>5. CASE Exchange(p)
  BY <1>5 DEF Exchange, Pause, Fail, Return
<1>6. CASE UseMetadata(p)
  BY <1>6 DEF UseMetadata, Request, Return
<1>7. QED
  BY <1>1, <1>2, <1>3, <1>4, <1>5, <1>6 DEF Step

\* A read only makes the request it was called for.
LEMMA OwnCall ==
    ASSUME TypeOK, CallsInv, NEW p \in Processes, Step(p) \/ CallingAs(p)
    PROVE  CallShape(p)'
<1> USE ProcessesAssumption DEF Goto, locals, TypeOK, Processes, CallsInv, CallShape, Locked
<1>1. CASE CallingAs(p)
  <2>1. CASE CallLocked(p) /\ p \in Sessions
    BY <2>1 DEF CallLocked
  <2>2. CASE CallTerminalInfo(p) /\ p \in Sessions
    BY <2>2 DEF CallTerminalInfo
  <2>3. CASE CallRead(p) /\ p \in Readers
    BY <2>3 DEF CallRead
  <2>4. QED
    BY <1>1, <2>1, <2>2, <2>3 DEF CallingAs
<1>2. CASE EnterLock(p)
  BY <1>2 DEF EnterLock
<1>3. CASE Close(p) \/ CheckUrl(p) \/ EnsureHttp(p) \/ Retry(p)
  BY <1>3 DEF Close, CheckUrl, EnsureHttp, Retry
<1>4. CASE ResetUrl(p) \/ UseUrl(p)
  BY <1>4 DEF ResetUrl, UseUrl, Return
<1>5. CASE SetRegion(p)
  BY <1>5 DEF SetRegion
<1>6. CASE Exchange(p)
  <2>1. pc[p] = "exchange" /\ call' = call
    BY <1>6 DEF Exchange, Pause, Fail, Return
  <2>2. CASE pc'[p] = "idle"
    BY <2>1, <2>2
  <2>3. CASE pc'[p] = "pause" /\ UNCHANGED <<owner, stage>>
    BY <2>1, <2>3
  <2>4. CASE pc'[p] = "region" /\ stage[p] \in Provisioning /\ UNCHANGED <<owner, stage>>
    BY <2>1, <2>4 DEF Provisioning
  <2>5. QED
    BY <1>6, <2>2, <2>3, <2>4 DEF Exchange, Pause, Fail, Return
<1>7. CASE UseMetadata(p)
  BY <1>7 DEF UseMetadata, Request, Return
<1>8. QED
  BY <1>1, <1>2, <1>3, <1>4, <1>5, <1>6, <1>7 DEF Step

LEMMA StepCalls == TypeOK /\ CallsInv /\ [Next]_vars => CallsInv'
<1> SUFFICES ASSUME TypeOK, CallsInv, [Next]_vars PROVE CallsInv'
  OBVIOUS
<1>1. ASSUME NEW p \in Processes, Step(p) \/ CallingAs(p) PROVE CallsInv'
  <2>1. ASSUME NEW q \in Processes, q # p PROVE CallShape(q)'
    BY <1>1, <2>1, CallFrame, Frame DEF CallsInv, CallShape, Locked, CallingAs, Calling
  <2>2. QED
    BY <1>1, <2>1, OwnCall DEF CallsInv
<1>2. CASE ServiceChanges \/ UNCHANGED vars
  BY <1>2 DEF ServiceChanges, vars, locals, CallsInv, CallShape, Locked
<1>3. QED
  BY <1>1, <1>2 DEF Next, CallingAs, Processes

\* Beside a shutdown() under way nobody is in the middle of a call.
LEMMA OthersWait ==
    ASSUME LockInv, CallsInv, ShutdownAlone, NEW p \in Processes,
           pc[p] \in {"close", "resetUrl"}, NEW q \in Processes, q # p, pc[q] \in Pcs,
           call[q] \in Calls
    PROVE  pc[q] \in {"idle", "lock"}
<1>1. owner = p /\ ~Unlocked(q)
  BY DEF LockInv, ShutdownAlone
<1>2. QED
  BY <1>1 DEF CallsInv, CallShape, Locked, Unlocked, Calls

\* Only shutdown() gets to close, and only when nobody is in an unlocked call.
LEMMA StepGoesOn ==
    ASSUME TypeOK, CallsInv, NEW p \in Processes, Step(p)
    PROVE  /\ call' = call /\ pc[p] # "idle"
           /\ pc'[p] \in {"close", "resetUrl"} => pc[p] = "close" \/ EnterLock(p)
<1> USE DEF Goto, locals, TypeOK
<1>1. CASE EnterLock(p) \/ Close(p) \/ CheckUrl(p)
  BY <1>1 DEF EnterLock, Close, CheckUrl
<1>2. CASE ResetUrl(p) \/ UseUrl(p)
  BY <1>2 DEF ResetUrl, UseUrl, Return
<1>3. CASE EnsureHttp(p) \/ Retry(p) \/ SetRegion(p)
  BY <1>3 DEF EnsureHttp, Retry, SetRegion
<1>4. CASE Exchange(p)
  BY <1>4 DEF Exchange, Pause, Fail, Return
<1>5. CASE UseMetadata(p)
  BY <1>5 DEF UseMetadata, Request, Return
<1>6. QED
  BY <1>1, <1>2, <1>3, <1>4, <1>5 DEF Step

LEMMA StepShutdownAlone ==
    ASSUME ~Overlap PROVE TypeOK /\ LockInv /\ CallsInv /\ ShutdownAlone /\ [Next]_vars
                              => ShutdownAlone'
<1> SUFFICES ASSUME TypeOK, LockInv, CallsInv, ShutdownAlone, [Next]_vars,
                    NEW a \in Processes, NEW b \in Processes, pc'[a] \in {"close", "resetUrl"},
                    Unlocked(b)'
             PROVE  FALSE
  BY DEF ShutdownAlone
<1>1. ASSUME NEW p \in Processes, EnterLock(p) PROVE FALSE
  <2>1. /\ call' = call /\ pc[p] = "lock" /\ CanEnter(p) /\ owner = Nobody
        /\ call[p] \in LockingCalls
        /\ pc'[p] = IF call[p] = "shutdown" THEN "close" ELSE "ensure"
    BY <1>1 DEF EnterLock, CanEnter, Goto, TypeOK, CallsInv, CallShape
  <2>2. b # p /\ pc'[b] = pc[b]
    BY <1>1, <2>1, CallFrame DEF Unlocked, Step
  <2>3. Unlocked(b)
    BY <2>1, <2>2 DEF Unlocked
  <2>4. CASE a = p
    <3>1. call[p] = "shutdown" /\ ~UnlockedCallInProgress
      BY <2>1, <2>4 DEF CanEnter
    <3>2. QED
      BY <2>3, <3>1 DEF UnlockedCallInProgress, Unlocked
  <2>5. CASE a # p
    <3>1. pc[a] \in {"close", "resetUrl"}
      BY <1>1, <2>5, CallFrame DEF Step
    <3>2. QED
      BY <2>3, <3>1 DEF ShutdownAlone
  <2>6. QED
    BY <2>4, <2>5
<1>2. ASSUME NEW p \in Processes, Step(p), ~EnterLock(p) PROVE FALSE
  <2>1. pc[a] \in {"close", "resetUrl"}
    BY <1>2, CallFrame, StepGoesOn
  <2>2. Unlocked(b)
    BY <1>2, CallFrame, StepGoesOn DEF Unlocked
  <2>3. QED
    BY <2>1, <2>2 DEF ShutdownAlone
<1>3. ASSUME NEW p \in Processes, CallingAs(p) PROVE FALSE
  <2>1. pc'[p] \notin {"close", "resetUrl"}
    BY <1>3 DEF CallingAs, CallLocked, CallTerminalInfo, CallRead, Goto, TypeOK
  <2>2. pc[a] \in {"close", "resetUrl"}
    BY <1>3, <2>1, CallFrame DEF CallingAs, Calling
  <2>3. call[a] = "shutdown" /\ a \in Sessions
    BY <2>2 DEF CallsInv, CallShape
  <2>4. ShuttingDown
    BY <2>2, <2>3 DEF ShuttingDown
  <2>5. CallLocked(p)
    BY <1>3, <2>4 DEF CallingAs, CallTerminalInfo, CallRead, ManagerReady
  <2>6. b # p
    BY <2>5 DEF CallLocked, Unlocked, TypeOK
  <2>7. Unlocked(b)
    BY <1>3, <2>6, CallFrame DEF CallingAs, Calling, Unlocked
  <2>8. QED
    BY <2>2, <2>7 DEF ShutdownAlone
<1>4. CASE ServiceChanges \/ UNCHANGED vars
  BY <1>4 DEF ServiceChanges, vars, locals, ShutdownAlone, Unlocked
<1>5. QED
  BY <1>1, <1>2, <1>3, <1>4 DEF Next, CallingAs, Processes

-----------------------------------------------------------------------------
\* What another caller knows stays true as long as nobody closes the session.
LEMMA OthersHosted ==
    ASSUME TypeOK, HostInv, NEW p \in Processes, NEW q \in Processes, q # p,
           Step(p) \/ Calling(p), openHandles \subseteq openHandles',
           baseUrl # NoUrl => baseUrl' # NoUrl,
           region = AccountRegion => region' = AccountRegion,
           pc[q] = "resetUrl" => (initialized' => initialized)
    PROVE  Hosted(q)'
<1>1. /\ pc'[q] = pc[q] /\ url'[q] = url[q] /\ handle'[q] = handle[q]
      /\ result'[q] = result[q]
  BY CallFrame
<1>2. Hosted(q)
  BY DEF HostInv
<1>3. QED
  BY <1>1, <1>2 DEF Hosted, Serves

\* A step that leaves the session as it is.
LEMMA SessionStays ==
    ASSUME TypeOK, HostInv, NEW p \in Processes, Step(p) \/ Calling(p), Hosted(p)',
           openHandles \subseteq openHandles', baseUrl' = baseUrl, region' = region,
           initialized' => initialized
    PROVE  HostInv'
<1>1. SessionInv'
  BY DEF HostInv, SessionInv, Serves
<1>2. ASSUME NEW q \in Processes, q # p PROVE Hosted(q)'
  BY <1>2, OthersHosted
<1>3. QED
  BY <1>1, <1>2 DEF HostInv

LEMMA CallingHosted ==
    ASSUME TypeOK, HostInv, NEW p \in Processes, CallingAs(p)
    PROVE  HostInv'
<1>1. Calling(p) /\ UNCHANGED shared
  BY DEF CallingAs, Calling, CallLocked, CallTerminalInfo, CallRead
<1>2. pc'[p] = "url" => baseUrl # NoUrl
  BY DEF CallingAs, CallLocked, CallTerminalInfo, CallRead, Goto, TypeOK, HostInv, SessionInv,
         ManagerReady
<1>3. pc'[p] \in {"lock", "ensure", "url"} /\ result'[p] = "none"
      /\ (p \in Readers => pc'[p] = "url")
  BY ProcessesAssumption
     DEF CallingAs, CallLocked, CallTerminalInfo, CallRead, Goto, TypeOK
<1>4. Hosted(p)'
  BY <1>1, <1>2, <1>3 DEF Hosted, shared
<1>5. QED
  BY <1>1, <1>4, SessionStays DEF shared

\* A caller in a stage of the locked calls, or of terminal_info(), is no reader.
LEMMA NoReader ==
    ASSUME CallsInv, NEW p \in Processes,
           pc[p] \in {"lock", "close", "resetUrl", "region", "metadata"}
    PROVE  p \notin Readers
BY DEF CallsInv, CallShape

LEMMA EnterHosted ==
    ASSUME TypeOK, CallsInv, HostInv, NEW p \in Processes, EnterLock(p)
    PROVE  HostInv'
<1>1. p \notin Readers
  BY NoReader DEF EnterLock
<1>2. UNCHANGED shared /\ pc'[p] \in {"close", "ensure"}
  BY DEF EnterLock, Goto, TypeOK
<1>3. Hosted(p)'
  BY <1>1, <1>2 DEF Hosted
<1>4. QED
  BY <1>2, <1>3, SessionStays DEF Step, shared

LEMMA ClosingHosted ==
    ASSUME TypeOK, LockInv, CallsInv, ShutdownAlone, HostInv, NEW p \in Processes,
           Close(p) \/ ResetUrl(p)
    PROVE  HostInv'
<1>1. pc[p] \in {"close", "resetUrl"}
  BY DEF Close, ResetUrl
<1>2. p \notin Readers
  BY <1>1, NoReader
<1>3. ASSUME NEW q \in Processes, q # p PROVE Hosted(q)'
  <2>1. pc[q] \in {"idle", "lock"}
    BY <1>1, <1>3, OthersWait DEF TypeOK
  <2>2. pc'[q] = pc[q] /\ result'[q] = result[q]
    BY <1>3, CallFrame DEF Step
  <2>3. QED
    BY <2>1, <2>2 DEF HostInv, Hosted
<1>4. CASE Close(p)
  <2>1. Hosted(p)'
    BY <1>2, <1>4 DEF Close, Hosted, Goto, TypeOK
  <2>2. SessionInv'
    BY <1>4 DEF Close, HostInv, SessionInv, Serves
  <2>3. QED
    BY <1>3, <2>1, <2>2 DEF HostInv
<1>5. CASE ResetUrl(p)
  <2>1. ~initialized' /\ pc'[p] = "idle" /\ region' = region /\ baseUrl' = ConfiguredUrl
    BY <1>5 DEF ResetUrl, Return, Goto, HostInv, Hosted, TypeOK
  <2>2. Hosted(p)'
    BY <1>2, <2>1 DEF Hosted
  <2>3. SessionInv'
    BY <2>1, RegionsAssumption DEF HostInv, SessionInv, Serves
  <2>4. QED
    BY <1>3, <2>2, <2>3 DEF HostInv
<1>6. QED
  BY <1>4, <1>5

LEMMA UrlHosted ==
    ASSUME TypeOK, CallsInv, HostInv, NEW p \in Processes, CheckUrl(p) \/ UseUrl(p)
    PROVE  HostInv'
<1>1. baseUrl # NoUrl /\ Serves(baseUrl)
  BY DEF CheckUrl, UseUrl, HostInv, Hosted, SessionInv
<1>2. CASE CheckUrl(p)
  <2>1. baseUrl' = baseUrl
    BY <1>1, <1>2 DEF CheckUrl, DefaultUrl
  <2>2. Hosted(p)'
    BY <1>1, <1>2, <2>1 DEF CheckUrl, Hosted, HostInv, Goto, TypeOK, locals
  <2>3. QED
    BY <1>2, <2>1, <2>2, SessionStays DEF Step, CheckUrl
<1>3. CASE UseUrl(p)
  <2>1. url'[p] = baseUrl /\ pc'[p] = "ensure" /\ UNCHANGED <<shared, result>>
    BY <1>1, <1>3 DEF UseUrl, Goto, TypeOK
  <2>2. Hosted(p)'
    BY <1>1, <2>1 DEF Hosted, HostInv, Serves
  <2>3. QED
    BY <1>3, <2>1, <2>2, SessionStays DEF Step, shared
<1>4. QED
  BY <1>2, <1>3

LEMMA EnsureHosted ==
    ASSUME TypeOK, CallsInv, HostInv, NEW p \in Processes, EnsureHttp(p)
    PROVE  HostInv'
<1>1. PICK h \in Handles \cup {http} : /\ openHandles' = openHandles \cup {h}
                                       /\ handle' = [handle EXCEPT ![p] = h]
  BY DEF EnsureHttp, TypeOK
<1>2. /\ pc[p] = "ensure" /\ pc'[p] = "exchange"
      /\ UNCHANGED <<initialized, region, baseUrl, url, result>>
  BY DEF EnsureHttp, Goto, TypeOK
<1>3. Hosted(p)'
  BY <1>1, <1>2 DEF Hosted, HostInv, Serves, TypeOK
<1>4. QED
  BY <1>1, <1>2, <1>3, SessionStays DEF Step

LEMMA ExchangeHosted ==
    ASSUME TypeOK, CallsInv, HostInv, NEW p \in Processes, Exchange(p) \/ Retry(p)
    PROVE  HostInv'
<1>1. /\ UNCHANGED <<region, baseUrl, openHandles>>
      /\ initialized' => initialized
      /\ pc[p] \in {"exchange", "pause"}
  <2>1. CASE Retry(p)
    BY <2>1 DEF Retry, shared
  <2>2. CASE Exchange(p)
    <3>1. UNCHANGED <<region, baseUrl, openHandles>> /\ pc[p] = "exchange"
      BY <2>2 DEF Exchange, Pause, Fail, shared
    <3>2. initialized' = initialized \/ Fail(p)
      BY <2>2 DEF Exchange, Pause, shared
    <3>3. CASE initialized' = initialized
      BY <3>1, <3>3
    <3>4. CASE Fail(p)
      <4>1. initialized' = (initialized /\ stage[p] # "initialize")
        BY <3>4 DEF Fail
      <4>2. initialized' => initialized
        BY <4>1, Zenon
      <4>3. QED
        BY <3>1, <4>2
    <3>5. QED
      BY <3>2, <3>3, <3>4
  <2>3. QED
    BY <2>1, <2>2
<1>2. \/ pc'[p] = "idle" /\ result'[p] \in {"true", "false"}
      \/ pc'[p] \in {"exchange", "pause", "region"} /\ UNCHANGED <<url, handle, result>>
  <2>1. CASE Retry(p)
    BY <2>1 DEF Retry, Goto, TypeOK
  <2>2. CASE Exchange(p)
    <3>1. CASE Pause(p)
      BY <3>1 DEF Pause, Goto, TypeOK, locals
    <3>2. CASE Fail(p) \/ Return(p, "true")
      BY <3>2 DEF Fail, Return, Goto, TypeOK
    <3>3. CASE Goto(p, "region") /\ UNCHANGED <<shared, call, stage, url, handle, result>>
      BY <3>3 DEF Goto, TypeOK
    <3>4. QED
      BY <2>2, <3>1, <3>2, <3>3 DEF Exchange
  <2>3. QED
    BY <2>1, <2>2
<1>3. Hosted(p)
  BY DEF HostInv
<1>4. Hosted(p)'
  BY <1>1, <1>2, <1>3 DEF Hosted, Serves
<1>5. QED
  BY <1>1, <1>4, SessionStays DEF Step

LEMMA SetRegionHosted ==
    ASSUME TypeOK, CallsInv, HostInv, NEW p \in Processes, SetRegion(p)
    PROVE  HostInv'
<1>1. p \notin Readers
  BY NoReader DEF SetRegion
<1>2. region' = AccountRegion /\ UNCHANGED <<initialized, baseUrl, openHandles>>
      /\ pc'[p] = "metadata"
  BY DEF SetRegion, HostInv, SessionInv, Goto, TypeOK
<1>3. Hosted(p)'
  BY <1>1, <1>2 DEF Hosted
<1>4. SessionInv'
  BY <1>2 DEF HostInv, SessionInv, Serves
<1>5. ASSUME NEW q \in Processes, q # p PROVE Hosted(q)'
  BY <1>2, <1>5, OthersHosted DEF Step
<1>6. QED
  BY <1>3, <1>4, <1>5 DEF HostInv

LEMMA UseMetadataHosted ==
    ASSUME TypeOK, LockInv, CallsInv, ShutdownAlone, HostInv, NEW p \in Processes,
           UseMetadata(p)
    PROVE  HostInv'
<1>1. p \notin Readers /\ pc[p] = "metadata" /\ region = AccountRegion
  BY NoReader DEF UseMetadata, HostInv, Hosted
<1>2. UNCHANGED <<region, openHandles>> /\ baseUrl' = DefaultUrl
  BY DEF UseMetadata
<1>3. baseUrl' # NoUrl /\ Serves(baseUrl') /\ (baseUrl # NoUrl => baseUrl' = baseUrl)
  BY <1>1, <1>2, RegionsAssumption
     DEF DefaultUrl, RegionHost, HostInv, SessionInv, Serves
<1>4. pc'[p] \notin {"metadata", "resetUrl"}
  BY DEF UseMetadata, Request, Return, Goto, TypeOK
<1>5. Hosted(p)'
  BY <1>1, <1>3, <1>4 DEF Hosted
<1>6. SessionInv'
  BY <1>2, <1>3 DEF HostInv, SessionInv, Serves
<1>7. ASSUME NEW q \in Processes, q # p PROVE Hosted(q)'
  <2>1. pc[q] # "resetUrl"
    BY <1>1, <1>7, OthersWait DEF TypeOK
  <2>2. QED
    BY <1>2, <1>3, <1>7, <2>1, OthersHosted DEF Step
<1>8. QED
  BY <1>5, <1>6, <1>7 DEF HostInv

LEMMA StepHost ==
    TypeOK /\ LockInv /\ CallsInv /\ ShutdownAlone /\ HostInv /\ [Next]_vars => HostInv'
<1> SUFFICES ASSUME TypeOK, LockInv, CallsInv, ShutdownAlone, HostInv, [Next]_vars
             PROVE  HostInv'
  OBVIOUS
<1>1. ASSUME NEW p \in Processes, Step(p) PROVE HostInv'
  BY <1>1, EnterHosted, ClosingHosted, UrlHosted, EnsureHosted, ExchangeHosted,
     SetRegionHosted, UseMetadataHosted DEF Step
<1>2. CASE ServiceChanges \/ UNCHANGED vars
  BY <1>2 DEF ServiceChanges, vars, shared, locals, HostInv, SessionInv, Hosted, Serves
<1>3. QED
  BY <1>1, <1>2, CallingHosted DEF Next, CallingAs, Processes

\* Whatever the other calls do, and whatever the service answers, a read that no
\* shutdown() overlaps goes to the account's host over an open handle.
THEOREM ReadsOfTheSession == ASSUME ~Overlap PROVE Spec => []ReadsUseTheSession
<1>1. TypeOK /\ ReadsInv /\ [Next]_vars => ReadsInv'
  BY StepLock, StepCalls, StepShutdownAlone, StepHost DEF ReadsInv
<1>2. ReadsInv => ReadsUseTheSession
  BY DEF ReadsInv, HostInv, Hosted, ReadsUseTheSession, Processes
<1>3. QED
  BY InitReads, TypeCorrect, <1>1, <1>2, PTL DEF Spec

-----------------------------------------------------------------------------
(***************************************************************************)
(* What the connection manager sees: the refinement of BrokerSession.      *)
(*                                                                         *)
(* The owner of the lock is the caller whose turn it is.  What it answers  *)
(* is true of the session because of the stage it has reached (Turn): a    *)
(* login that is still at its initialize request has found the session     *)
(* closed, and one beyond it open.  Nobody else is at a stage that closes  *)
(* or opens it (OthersLeaveSession).                                       *)
(***************************************************************************)
Turn(p) ==
    /\ p \in Sessions /\ call[p] \in LockingCalls
    /\ call[p] = "initialize" => stage[p] = "initialize"
    /\ call[p] = "login" =>
          /\ stage[p] \in {"initialize", "readiness", "account"}
          /\ initialized <=> stage[p] # "initialize"
    /\ call[p] = "shutdown" => pc[p] \in {"close", "resetUrl"}
    /\ pc[p] = "resetUrl" => ~initialized
    /\ pc[p] \in {"url", "useUrl"} => stage[p] = "account"

Answering(p) ==
    /\ call[p] \in LockingCalls =>
          IF pc[p] = "idle" THEN result[p] \in {"true", "false"} ELSE result[p] = "none"
    /\ call[p] = "terminalInfo" /\ pc[p] # "idle" => stage[p] = "terminalInfo"
    /\ owner = p => Turn(p)

AnswersInv == \A p \in Processes : Answering(p)

SeenInv == LockInv /\ CallsInv /\ AnswersInv

LEMMA InitSeen == Init => SeenInv
<1> SUFFICES ASSUME Init PROVE SeenInv
  OBVIOUS
<1>1. LockInv
  BY ProcessesAssumption DEF Init, LockInv, Processes
<1>2. CallsInv
  BY DEF Init, CallsInv, CallShape, Locked
<1>3. AnswersInv
  BY ProcessesAssumption DEF Init, AnswersInv, Answering, Processes
<1>4. QED
  BY <1>1, <1>2, <1>3 DEF SeenInv

\* A call in progress without the lock is terminal_info() or a read.
LEMMA WithoutTheLock ==
    ASSUME TypeOK, CallsInv, AnswersInv, NEW p \in Processes, owner # p,
           pc[p] \notin {"idle", "lock"}
    PROVE  /\ call[p] \in {"terminalInfo", "read"}
           /\ stage[p] \notin {"initialize", "readiness", "account"}
<1>1. CallShape(p) /\ Answering(p) /\ call[p] \in Calls
  BY DEF CallsInv, AnswersInv, TypeOK
<1>2. QED
  BY <1>1 DEF CallShape, Answering, Locked, Calls

\* It leaves the session, the lock and the locked calls as they are.
LEMMA OthersLeaveSession ==
    ASSUME TypeOK, SeenInv, NEW p \in Processes, owner # p, Step(p), ~EnterLock(p)
    PROVE  /\ UNCHANGED <<initialized, owner, call>>
           /\ call[p] \in {"terminalInfo", "read"}
           /\ pc'[p] # "idle" => stage'[p] = stage[p]
<1> USE DEF Goto, locals, TypeOK, SeenInv
<1>1. pc[p] \notin {"idle", "lock", "close", "resetUrl"} \/ Close(p) \/ ResetUrl(p)
  BY DEF Step, CheckUrl, UseUrl, EnsureHttp, Exchange, Retry, SetRegion, UseMetadata
<1>2. ~Close(p) /\ ~ResetUrl(p)
  BY DEF LockInv, Close, ResetUrl
<1>3. /\ call[p] \in {"terminalInfo", "read"}
      /\ stage[p] \notin {"initialize", "readiness", "account"}
  BY <1>1, <1>2, WithoutTheLock
<1>4. CASE CheckUrl(p) \/ UseUrl(p)
  BY <1>3, <1>4 DEF CheckUrl, UseUrl, Return, shared
<1>5. CASE EnsureHttp(p) \/ Retry(p) \/ SetRegion(p)
  BY <1>3, <1>5 DEF EnsureHttp, Retry, SetRegion, shared
<1>6. CASE Exchange(p)
  BY <1>3, <1>6 DEF Exchange, Pause, Fail, Return, shared
<1>7. CASE UseMetadata(p)
  BY <1>3, <1>7 DEF UseMetadata, Return
<1>8. QED
  BY <1>2, <1>3, <1>4, <1>5, <1>6, <1>7 DEF Step

LEMMA OwnAnswering ==
    ASSUME TypeOK, SeenInv, NEW p \in Processes, Step(p) \/ CallingAs(p)
    PROVE  Answering(p)'
<1> USE ProcessesAssumption DEF Goto, locals, TypeOK, Processes
<1>0. CallShape(p) /\ Answering(p) /\ (pc[p] \in {"close", "resetUrl"} => owner = p)
  BY DEF SeenInv, CallsInv, AnswersInv, LockInv
<1>1. CASE CallingAs(p)
  <2>1. owner # p /\ owner' = owner /\ pc'[p] # "idle"
    BY <1>1 DEF CallingAs, CallLocked, CallTerminalInfo, CallRead, SeenInv, LockInv
  <2>2. CASE CallLocked(p)
    BY <2>1, <2>2 DEF CallLocked, Answering
  <2>3. CASE CallTerminalInfo(p)
    BY <2>1, <2>3 DEF CallTerminalInfo, Answering
  <2>4. CASE CallRead(p)
    BY <2>1, <2>4 DEF CallRead, Answering
  <2>5. QED
    BY <1>1, <2>2, <2>3, <2>4 DEF CallingAs
<1>2. CASE EnterLock(p)
  <2>1. /\ call[p] \in LockingCalls /\ p \in Sessions /\ call' = call
        /\ result[p] = "none" /\ result' = result /\ initialized' = initialized
    BY <1>0, <1>2 DEF EnterLock, CallShape, Answering, shared
  <2>2. /\ pc'[p] = IF call[p] = "shutdown" THEN "close" ELSE "ensure"
        /\ call[p] = "initialize" => stage'[p] = "initialize"
        /\ call[p] = "login" => stage'[p] = IF initialized THEN "readiness" ELSE "initialize"
    BY <1>2, <2>1 DEF EnterLock
  <2>3. QED
    BY <2>1, <2>2 DEF Answering, Turn
<1>3. ASSUME owner # p, Step(p), ~EnterLock(p) PROVE Answering(p)'
  <2>1. /\ call[p] \in {"terminalInfo", "read"} /\ UNCHANGED <<owner, call>>
        /\ pc'[p] # "idle" => stage'[p] = stage[p]
    BY <1>3, OthersLeaveSession
  <2>2. pc[p] # "idle"
    BY <1>3, StepGoesOn DEF SeenInv
  <2>3. QED
    BY <1>0, <1>3, <2>1, <2>2 DEF Answering
<1>4. ASSUME owner = p, Step(p), ~EnterLock(p) PROVE Answering(p)'
  <2>1. Turn(p) /\ pc[p] # "idle" /\ call' = call /\ result[p] = "none"
    BY <1>0, <1>4, StepGoesOn DEF Answering, Turn, SeenInv
  <2> USE DEF Answering, Turn
  <2>2. CASE Close(p) \/ CheckUrl(p) \/ EnsureHttp(p) \/ Retry(p) \/ SetRegion(p)
    <3>1. /\ UNCHANGED <<call, stage, result>> /\ (Close(p) \/ initialized' = initialized)
          /\ pc'[p] \in {"resetUrl", "useUrl", "exchange", "metadata"}
          /\ pc'[p] = "resetUrl" <=> Close(p)
          /\ Close(p) => initialized' = FALSE /\ call[p] = "shutdown"
          /\ pc'[p] = "useUrl" => pc[p] = "url"
      BY <1>0, <2>2 DEF Close, CheckUrl, EnsureHttp, Retry, SetRegion, shared, CallShape
    <3>2. call[p] = "shutdown" => Close(p)
      BY <2>1, <2>2 DEF Close, CheckUrl, EnsureHttp, Retry, SetRegion
    <3>3. QED
      BY <2>1, <3>1, <3>2
  <2>3. CASE ResetUrl(p) \/ UseUrl(p)
    BY <1>4, <2>1, <2>3 DEF ResetUrl, UseUrl, Return, shared
  <2>4. CASE Exchange(p)
    BY <1>4, <2>1, <2>4 DEF Exchange, Pause, Fail, Return, shared
  <2>5. CASE UseMetadata(p)
    BY <1>4, <2>1, <2>5 DEF UseMetadata, Request, Return
  <2>6. QED
    BY <1>4, <2>2, <2>3, <2>4, <2>5 DEF Step
<1>5. QED
  BY <1>1, <1>2, <1>3, <1>4

LEMMA StepSeen == TypeOK /\ SeenInv /\ [Next]_vars => SeenInv'
<1> SUFFICES ASSUME TypeOK, SeenInv, [Next]_vars PROVE AnswersInv'
  BY StepLock, StepCalls DEF SeenInv
<1>1. ASSUME NEW p \in Processes, Step(p) \/ CallingAs(p) PROVE AnswersInv'
  <2>1. ASSUME NEW q \in Processes, q # p PROVE Answering(q)'
    <3>1. /\ UNCHANGED <<pc[q], call[q], stage[q], result[q]>>
          /\ owner' = q <=> owner = q
      BY <1>1, <2>1, CallFrame, Frame DEF CallingAs, Calling
    <3>2. ASSUME owner = q PROVE initialized' = initialized
      <4>1. CASE Step(p) /\ ~EnterLock(p)
        BY <2>1, <3>2, <4>1, OthersLeaveSession
      <4>2. CASE EnterLock(p) \/ CallingAs(p)
        BY <4>2 DEF EnterLock, CallingAs, CallLocked, CallTerminalInfo, CallRead, shared
      <4>3. QED
        BY <1>1, <4>1, <4>2
    <3>3. Answering(q)
      BY DEF SeenInv, AnswersInv
    <3>4. QED
      BY <3>1, <3>2, <3>3 DEF Answering, Turn
  <2>2. QED
    BY <1>1, <2>1, OwnAnswering DEF AnswersInv
<1>2. CASE ServiceChanges \/ UNCHANGED vars
  BY <1>2 DEF ServiceChanges, vars, shared, locals, SeenInv, AnswersInv, Answering, Turn
<1>3. QED
  BY <1>1, <1>2 DEF Next, CallingAs, Processes

-----------------------------------------------------------------------------
\* The conversations after a step of p.
LEMMA SaidAfter ==
    ASSUME TypeOK, NEW p \in Processes, Step(p) \/ Calling(p)
    PROVE  /\ Said' = [Said EXCEPT ![p] = Conversation(p)']
           /\ p \notin Sessions \/ Conversation(p)' = Conversation(p) => Said' = Said
<1>1. ASSUME NEW q \in Sessions, q # p PROVE Conversation(q)' = Conversation(q)
  BY <1>1, CallFrame DEF Conversation, Processes
<1>2. QED
  BY <1>1 DEF Said

LEMMA CallingSimulates ==
    ASSUME TypeOK, SeenInv, NEW p \in Processes, CallingAs(p)
    PROVE  Session!Next \/ UNCHANGED <<initialized, Said, owner>>
<1>1. Calling(p) /\ UNCHANGED <<initialized, owner>> /\ pc[p] = "idle"
  BY DEF CallingAs, Calling, CallLocked, CallTerminalInfo, CallRead, shared
<1>2. CASE p \in Readers
  BY <1>1, <1>2, SaidAfter, ProcessesAssumption
<1>3. CASE p \in Sessions
  <2>1. Said' = [Said EXCEPT ![p] = Conversation(p)'] /\ Said[p] = Conversation(p)
    BY <1>1, <1>3, SaidAfter DEF Said
  <2>2. Answering(p)
    BY DEF SeenInv, AnswersInv
  <2>3. ~Session!Waits(p)
    BY <1>1, <2>1, <2>2
       DEF Session!Waits, Session!Asked, Session!Operations, Conversation, Answering
  <2>4. CASE CallLocked(p)
    <3>1. PICK c \in LockingCalls : call'[p] = c /\ result'[p] = "none"
      BY <2>4 DEF CallLocked, TypeOK
    <3>2. Conversation(p)' = Session!Asked(c)
      BY <3>1 DEF Conversation, Session!Asked
    <3>3. Session!Ask(p)
      BY <1>1, <2>1, <2>3, <3>1, <3>2 DEF Session!Ask, Session!Operations
    <3>4. QED
      BY <1>3, <3>3 DEF Session!Next
  <2>5. CASE CallTerminalInfo(p)
    <3>1. Conversation(p)' = Session!Nothing
      BY <2>5 DEF CallTerminalInfo, Conversation, Session!Nothing, TypeOK
    <3>2. Session!Leave(p)
      BY <1>1, <2>1, <2>3, <3>1 DEF Session!Leave
    <3>3. QED
      BY <1>3, <3>2 DEF Session!Next
  <2>6. QED
    BY <1>3, <2>4, <2>5, ProcessesAssumption DEF CallingAs
<1>4. QED
  BY <1>2, <1>3 DEF CallingAs

LEMMA EnterSimulates ==
    ASSUME TypeOK, SeenInv, NEW p \in Processes, EnterLock(p)
    PROVE  Session!Next
<1>1. /\ call[p] \in LockingCalls /\ p \in Sessions /\ result[p] = "none"
  BY DEF SeenInv, CallsInv, CallShape, AnswersInv, Answering, EnterLock, Processes
<1>2. /\ owner = Nobody /\ owner' = p /\ UNCHANGED <<initialized, call, result>>
  BY DEF EnterLock, CanEnter, shared
<1>3. Said' = Said /\ Said[p] = Session!Asked(call[p])
  BY <1>1, <1>2 DEF Said, Conversation, Session!Asked
<1>4. Session!Begin(p)
  BY <1>1, <1>2, <1>3 DEF Session!Begin, Session!Waits, Session!Operations
<1>5. QED
  BY <1>1, <1>4 DEF Session!Next

\* The answer of the caller whose turn it is.
LEMMA ReturnAnswers ==
    ASSUME TypeOK, SeenInv, NEW p \in Processes, owner = p, Step(p), ~EnterLock(p),
           NEW ok \in BOOLEAN, Return(p, IF ok THEN "true" ELSE "false")
    PROVE  Session!Answer(p, call[p], ok)
<1>1. Turn(p) /\ result[p] = "none" /\ call' = call
  BY StepGoesOn DEF SeenInv, AnswersInv, Answering, Turn
<1>2. Said[p] = Session!Asked(call[p])
  BY <1>1 DEF Said, Conversation, Turn, Session!Asked
<1>3. Conversation(p)' = Session!Answered(call[p], ok)
  BY <1>1 DEF Conversation, Turn, Return, Session!Answered, TypeOK
<1>4. owner' = Nobody /\ Said' = [Said EXCEPT ![p] = Conversation(p)']
  BY SaidAfter DEF Return
<1>5. QED
  BY <1>2, <1>3, <1>4 DEF Session!Answer

\* What it may answer, by the session it leaves.
LEMMA AnswersAreTrue ==
    ASSUME TypeOK, SeenInv, NEW p \in Processes, owner = p, Step(p), ~EnterLock(p),
           NEW ok \in BOOLEAN, Return(p, IF ok THEN "true" ELSE "false"),
           call[p] = "initialize" => initialized' = ok,
           call[p] = "login" => initialized' = initialized /\ (ok => initialized),
           call[p] = "shutdown" => initialized' = initialized /\ ~initialized /\ ok
    PROVE  Session!Next
<1>1. Session!Answer(p, call[p], ok)
  BY ReturnAnswers
<1>2. p \in Sessions /\ call[p] \in LockingCalls
  BY DEF SeenInv, AnswersInv, Answering, Turn
<1>3. CASE call[p] = "initialize"
  BY <1>1, <1>2, <1>3 DEF Session!Initialize, Session!Next
<1>4. CASE call[p] = "login"
  BY <1>1, <1>2, <1>4 DEF Session!Login, Session!Next
<1>5. CASE call[p] = "shutdown"
  BY <1>1, <1>2, <1>5 DEF Session!Shutdown, Session!Next
<1>6. QED
  BY <1>2, <1>3, <1>4, <1>5

LEMMA TurnSimulates ==
    ASSUME TypeOK, SeenInv, NEW p \in Processes, owner = p, Step(p), ~EnterLock(p)
    PROVE  Session!Next \/ UNCHANGED <<initialized, Said, owner>>
<1> USE DEF Goto, TypeOK
<1>1. /\ Turn(p) /\ result[p] = "none" /\ call' = call
      /\ pc[p] \in {"close", "resetUrl"} => call[p] = "shutdown"
  BY StepGoesOn DEF SeenInv, AnswersInv, Answering, Turn, CallsInv, CallShape
<1>2. Said[p] = Session!Asked(call[p])
  BY <1>1 DEF Said, Conversation, Turn, Session!Asked
\* As long as it has not answered, only the session may change.
<1>3. result' = result => Said' = Said
  BY <1>1, SaidAfter DEF Conversation
<1>4. CASE Close(p)
  <2>1. call[p] = "shutdown" /\ initialized' = FALSE /\ owner' = owner /\ result' = result
    BY <1>1, <1>4 DEF Close, locals
  <2>2. Session!Closes(p)
    BY <1>2, <1>3, <2>1 DEF Session!Closes
  <2>3. QED
    BY <1>1, <2>2 DEF Session!Next, Turn
<1>5. CASE ResetUrl(p)
  <2>1. /\ call[p] = "shutdown" /\ Return(p, "true")
        /\ ~initialized /\ initialized' = initialized
    BY <1>1, <1>5 DEF ResetUrl, Turn
  <2>2. QED
    BY <2>1, AnswersAreTrue
<1>6. CASE UseUrl(p) /\ baseUrl = NoUrl
  <2>1. stage[p] = "account" /\ Return(p, "false") /\ initialized' = initialized
    BY <1>1, <1>6 DEF UseUrl, Turn, shared
  <2>2. call[p] = "login"
    BY <1>1, <1>6, <2>1 DEF Turn, UseUrl
  <2>3. QED
    BY <2>1, <2>2, AnswersAreTrue
<1>7. CASE \/ CheckUrl(p) \/ EnsureHttp(p) \/ Retry(p) \/ SetRegion(p)
           \/ UseUrl(p) /\ baseUrl # NoUrl
  <2>1. UNCHANGED <<initialized, owner, result>>
    BY <1>7 DEF CheckUrl, EnsureHttp, Retry, SetRegion, UseUrl, shared, locals
  <2>2. QED
    BY <1>3, <2>1
<1>8. CASE Exchange(p)
  <2>0. call[p] # "shutdown"
    BY <1>1, <1>8 DEF Exchange, Turn
  <2>1. CASE Fail(p)
    <3>1. Return(p, "false") /\ initialized' = (initialized /\ stage[p] # "initialize")
      BY <2>1 DEF Fail
    <3>2. call[p] = "initialize" => initialized' = FALSE
      BY <1>1, <3>1 DEF Turn
    <3>3. call[p] = "login" => initialized' = initialized
      BY <1>1, <3>1 DEF Turn
    <3>4. QED
      BY <2>0, <3>1, <3>2, <3>3, AnswersAreTrue
  <2>2. CASE /\ stage[p] \notin Provisioning
             /\ Return(p, "true") /\ UNCHANGED shared
    <3>1. call[p] = "login" /\ initialized /\ initialized' = initialized
      BY <1>1, <2>0, <2>2 DEF Turn, Provisioning, shared
    <3>2. QED
      BY <2>2, <3>1, AnswersAreTrue
  <2>3. CASE Pause(p) \/ UNCHANGED <<owner, shared, result>>
    <3>1. UNCHANGED <<initialized, owner, result>>
      BY <2>3 DEF Pause, shared, locals
    <3>2. QED
      BY <1>3, <3>1
  <2>4. QED
    BY <1>8, <2>1, <2>2, <2>3 DEF Exchange
<1>9. CASE UseMetadata(p)
  <2> DEFINE deployed == answer[p] # "notDeployed"
  <2>0. /\ call[p] \in {"initialize", "login"}
        /\ stage[p] # "terminalInfo"
        /\ initialized' = IF stage[p] = "initialize" THEN deployed ELSE initialized
    BY <1>1, <1>9 DEF UseMetadata, Turn
  <2>1. CASE stage[p] = "initialize" /\ deployed /\ call[p] = "login"
    <3>1. UNCHANGED <<owner, result>> /\ initialized' = TRUE
      BY <1>9, <2>0, <2>1 DEF UseMetadata, Request
    <3>2. Session!Opens(p)
      BY <1>2, <1>3, <2>1, <3>1 DEF Session!Opens
    <3>3. QED
      BY <1>1, <3>2 DEF Session!Next, Turn
  <2>2. CASE stage[p] = "readiness" /\ answer[p] = "up"
    <3>1. UNCHANGED <<initialized, owner, result>>
      BY <1>9, <2>0, <2>2 DEF UseMetadata, Request
    <3>2. QED
      BY <1>3, <3>1
  <2>3. CASE stage[p] = "initialize" /\ deployed /\ call[p] = "initialize"
    <3>1. Return(p, "true") /\ initialized' = TRUE
      BY <1>9, <2>0, <2>3 DEF UseMetadata
    <3>2. QED
      BY <2>3, <3>1, AnswersAreTrue
  <2>4. CASE /\ ~(stage[p] = "initialize" /\ deployed)
             /\ ~(stage[p] = "readiness" /\ answer[p] = "up")
    <3>1. Return(p, "false")
      BY <1>9, <2>0, <2>4 DEF UseMetadata
    <3>2. /\ call[p] = "initialize" => initialized' = FALSE
          /\ call[p] = "login" => initialized' = initialized
      BY <1>1, <2>0, <2>4 DEF Turn
    <3>3. QED
      BY <2>0, <3>1, <3>2, AnswersAreTrue
  <2>5. QED
    BY <2>0, <2>1, <2>2, <2>3, <2>4
<1>10. QED
  BY <1>4, <1>5, <1>6, <1>7, <1>8, <1>9 DEF Step

LEMMA StepSimulates ==
    TypeOK /\ SeenInv /\ [Next]_vars => [Session!Next]_<<initialized, Said, owner>>
<1> SUFFICES ASSUME TypeOK, SeenInv, [Next]_vars
             PROVE  Session!Next \/ UNCHANGED <<initialized, Said, owner>>
  OBVIOUS
<1>1. ASSUME NEW p \in Processes, Step(p), owner # p, ~EnterLock(p)
      PROVE  UNCHANGED <<initialized, Said, owner>>
  <2>1. /\ UNCHANGED <<initialized, owner, call>>
        /\ call[p] \in {"terminalInfo", "read"}
    BY <1>1, OthersLeaveSession
  <2>2. Conversation(p)' = Conversation(p)
    BY <2>1 DEF Conversation
  <2>3. QED
    BY <1>1, <2>1, <2>2, SaidAfter
<1>2. CASE ServiceChanges \/ UNCHANGED vars
  BY <1>2 DEF ServiceChanges, vars, shared, locals, Said, Conversation
<1>3. QED
  BY <1>1, <1>2, CallingSimulates, EnterSimulates, TurnSimulates
     DEF Next, CallingAs, Processes

\* The locks, requests and retries of the client implement the session the
\* connection manager is written against, step by step, for any number of callers.
THEOREM SessionImplementation == Spec => ImplementsSession
<1>1. Init => Session!Init
  BY DEF Init, Session!Init, Session!Nothing, Said, Conversation, Processes
<1>2. QED
  BY <1>1, InitSeen, StepSeen, StepSimulates, TypeCorrect, PTL
     DEF Spec, ImplementsSession, Session!Spec
=============================================================================
