# Verification of Enterprise-Bridge in TLA+

The bridge is a FastAPI service in front of one broker account. A background
thread keeps a MetaApi session open; HTTP endpoints read account, positions,
symbols, bars and history through it; a PowerShell worker publishes snapshots
of what the endpoints answer to a relay; one-shot scripts certify historical
data and write evidence files.

This directory holds TLA+ modules for the parts of it whose correctness depends
on the order of events, TLC configurations that check them on small instances,
and proofs of the properties that matter most for every size.
All paths below are relative to the repository's root.

- [1 The system](#1-the-system)
- [2 The modules](#2-the-modules)
- [3 What the runs check](#3-what-the-runs-check)
- [4 Bounds](#4-bounds)
- [5 Fairness](#5-fairness)
- [6 What is proved](#6-what-is-proved)
- [7 Findings](#7-findings)
- [8 What is only model-checked, and what is not modelled](#8-what-is-only-model-checked-and-what-is-not-modelled)
- [9 What is left](#9-what-is-left)

To check: `tlc -config CMWorker.cfg MCConnectionManager.tla` and so on for each
row of section 3; `tlapm BridgeApiProofs.tla` and so on for the proofs.

## 1 The system

| Component | State it keeps | Operations |
|---|---|---|
| **Connection manager** `core/connection_manager.py` | lifecycle state, `_mt5_initialized`, startup time, reconnect count, one last error, stop event, worker thread; one re-entrant lock | `start`, `stop`, `restart`, the worker's loop, the attempt it shares with direct callers, ready-checked read proxies, `get_state`/`get_health`/`get_diagnostics` |
| **Broker client** `core/mt5_client.py` | `_initialized`, cached account metadata, region, regional URL, one HTTP handle; one re-entrant lock | `initialize`, `login`, `shutdown`, `terminal_info`, reads; every request with retries |
| **History service** `services/history_service.py` | none of its own; reads the manager's last error | `get_history`: two fetches, failure detection, normalisation, duplicates, sort, limit |
| **Market data** `services/market_service.py` | none | a quote of two reads; bars checked, sorted, reduced to one per time |
| **Other services and endpoints** `services/`, `api/` | none | a state check, one proxied read, renaming; health: two reads of the manager; trade: always refused |
| **Application** `app.py`, `middleware/`, `config.py` | configuration constants | startup, requests through the middleware, shutdown; starts and stops the manager |
| **Founder snapshot worker** `scripts/Publish-FounderSnapshot.ps1` | the cycle count; whether research is included | read health, account, positions, quotes, bars; post; repeat a refused increment as a complete archive |
| **Timestamp audit** `wealthbuilder_certification/`, `stage_4e2_2_canonical_timestamp_audit.py` | what it has loaded and counted; files of an output directory | load ledger and bars, link deals, align each end of a trade with a bar of each timeframe, decide, write four documents |
| **Tick evidence** `stage_4e2_3_*.py`, `stage_4e2_4_*.py` | a table, its manifest, a partial file; two documents and two drafts per audit | export ticks; audit the export; reconcile it with the broker's deals |

How they interact:

- *Calls under locks.* The manager calls the client's `initialize`, `login` and
  `shutdown`. `stop()` does so with the manager's lock in its hand, and joins the
  worker under it; the worker calls the client without it. The client keeps its
  own lock for a whole `initialize`, `login` or `shutdown`, network retries
  included.
- *Shared state without locks.* The manager's last error is written and compared
  by any thread; the client's reads derive and store the regional URL, and use the
  HTTP handle after the lock is free.
- *Answers instead of exceptions.* The client turns failures of a read into empty
  lists, the manager turns exceptions into empty lists and a recorded error, the
  history service looks at that error again, and the snapshot worker publishes what
  comes out at the end.
- *Files.* Runs of the certification commands meet in one output directory: two of
  the same command, a run and what a killed one has left, and the audits with the
  export whose table and manifest they read.

The API handlers are `async def` functions that call the blocking manager on one
event loop, so that requests follow each other there; startup and shutdown run on it
too, and the server finishes its requests before it calls the latter. What overlaps
a handler in the application is the manager's worker. The manager nevertheless
declares itself thread-safe (`core/connection_manager.py:42`), its tests call it
from several threads, and the worker is a thread in any deployment; `restart()`
and the direct attempt are called by tests and diagnostics only (the comment at
line 169 names the latter). Where a result depends on who calls what, the model
has a constant for it, and the tables below say which value a run uses.

What is hard in it, and what makes each part correct:

| Component | Hard behaviour | Correct when |
|---|---|---|
| Manager | lifecycle calls race with a worker that is anywhere in its attempt; a join that times out; two attempts at once; backoff arithmetic | one worker; CONNECTED only with an open session; a transition of `stop` is seen as one; calls return; a stop request is obeyed; the worker connects if it can |
| Client | lazily created handle and URL, closed and cleared by `shutdown` while requests are under way; partial logins | no handle is lost; locked calls never find theirs closed; reads go to the account's host; no failure leaves something behind that keeps login out |
| History | two fetches, either may fail or be swallowed; one last error for everybody; copies of records; a limit over two sorted collections | failures are not answered as empty history; the answer is the newest distinct records |
| Application | a state checked in one call and relied on in the next; a report made of two reads; a worker that goes on between them | what was checked still holds when it is acted upon; a healthy report is of one moment; every request is answered; service comes back with the broker |
| Bars | invalid, unordered and repeated bars | one bar per time, the last that came, in order |
| Timestamp audit | bisection at the boundaries and in the gaps of a series; two clocks; a verdict by counting | no candle is missed; no shift but the approved ones; certified means every end of every trade in every timeframe; a refusal is explained |
| Evidence | failures, kills and power failures between any two file operations; two runs at once; evidence that changes between its checks | what is under a final name is complete, of one run, never replaced, in order; a certification is about the evidence on the disk and follows from it |
| Snapshot worker | failures at any request; answers that are lost; a relay that loses its base | a complete archive is confirmed in every period; publication recovers; what is published was read |

`PROJECT.json` lists the hazards one by one, each at its line, with the properties
that would be violated if it went wrong.

## 2 The modules

Each component has a specification, an `MC` module with the model values TLC uses,
and, where theorems are proved about it, a `Proofs` module. Definitions marked
`Mutant` in a specification are variants of the definition next to them, with a
plausible mistake in them; they are not part of the specification, and serve to
check that each property notices the mistake.

### ConnectionManager, ConnectionLifecycle

`ConnectionManager` models `core/connection_manager.py`: one step is one critical
section, one client call or one unlocked write. The worker's position in its loop
and in the attempt is `pc`; a direct attempt by another thread runs the same
actions. `stop()` and `restart()` keep the lock over several steps (`lock`,
`stopPc`), from the decision over the client's shutdown to the join, whose timeout
may fire whenever the worker is at a step that needs the lock or the network
(`Lengthy`), or at any step if `TimelyThreads` is FALSE. `_set_state` consults the
transition table (`LegalFrom`) and ignores an illegal transition, as the code does.
Timing is abstracted: a sleep may end at any time.

`ConnectionLifecycle` is the abstract specification: a connection goes up only from
an attempt and only with an open session, the session stays while it is up, and it
goes down through a shutdown alone. The refinement mapping is `Lifecycle` in
`ConnectionManager`; the session is `mt5Initialized /\ clientInitialized`.

### MetaApiClient, BrokerSession

`core/mt5_client.py`, MetaApi backend. A step is one unlocked access of shared
state, one locked section or one HTTP exchange. A login is three requests
(`stage`), each with its retries (`attempt`), region and metadata update. A call
that takes the lock keeps it until `Return`. The reads do: ready check, URL, use of
the URL, handle, exchange. A URL is the region whose host it names, and the service
answers only at the host of the account's region.

`BrokerSession` is the abstract specification: callers ask, get their turn, and are
answered; what a call may do to the session and answer is what `ConnectionManager`'s
`ClientInitialize`, `ClientLogin` and `StopShutdown` do with it in one step. The
refinement mapping is `Session` in `MetaApiClient`: the session is `initialized`, the
turn is the owner of the lock, and the conversation is `call` and `result` of each
lifecycle caller (`Said`).

### HistoryService, HistoryRecords

`get_history()` is modelled twice. `HistoryService` is about failure: the state
check, the last error read before and after each fetch, what the fetch did
(answered, swallowed by the client, raised and recorded, refused by the manager),
and the response. Timestamps of errors come from a clock that only network calls
advance, so that errors may carry equal times. `HistoryRecords` is about data:
fetch a page, remove duplicates, sort, limit, sort again, as operators over
sequences that translate the helpers, compared with a reference that says which
identities are in the answer and in which order without sorting anything.

### Arrangement

What `sorted()`, `list.sort()`, a filter and a dictionary make of a list, without
recursion: `Picked` takes the elements at a set of positions in an order given as a
set of pairs, the k-th being the one that k - 1 others come before. `HistoryRecords`
and `MarketBars` build their helpers on it: a stable sort is `Picked` with an order
that compares the keys and then the positions, a filter is `Picked` with the positions
upwards (`Subsequence`).

### BridgeApi, MarketBars

`BridgeApi` extends `ConnectionManager` with the application: `phase` (startup,
serving, stopping), the one request the event loop serves, and where its handler is
(`at`). The manager's actions are used as they are: `Start` at startup, `Stop` at
shutdown, and `Beside`, the worker's and the lock holder's steps, between any two
steps of a handler. A handler's steps are its calls: authentication and validation,
the state check (`Gate`), the proxies' own check (`Ready`), each read of the broker
(`Read`, with what it can return: content, nothing, or a failure, which comes back
as nothing), the answer, the two reads of a health report, and the state once more
for the log. The three trade handlers differ in their parameters only and are one
endpoint. `MarketBars` holds the pipeline of `get_bars()` as operators: filter,
stable sort, one bar per time, the last.

### SealedEvidence, EvidenceWriter

`SealedEvidence` is the abstract specification of every evidence writer of the
repository: the documents of a set appear in their order, each once and complete,
from one run, and none is replaced; a lossy medium may damage one.

`write_documents()` of `wealthbuilder_certification/evidence.py`: stage every
document in a temporary file, then rename each; the handler removes what is staged.
Every file operation may raise, the process may end anywhere, and several runs may
share the directory, overlapping or not (`Sequential`). A failure of the machine, which
may undo a rename whose directory entry was not synced, is not modelled here.

### TickEvidence

The tick export and the two audits that build on it, in one directory. An export
looks for evidence, truncates the partial file of fixed name, writes the rows of
each event's query, renames the file into place, hashes it, and writes the manifest,
in place, so that a kill leaves a torn one. An audit loads the manifest, the tick
audit compares the table with it, both judge, and hash the manifest again for the
provenance; then each document is looked for, drafted under a fixed name and
renamed. `Fail` ends a run anywhere; nothing is synced, so `PowerFailure` ends all
and damages any file. A hash is the content hashed, and an event's query is what the
audits ask of it. That a rename fails while another run has the file open is Windows'
rule, where the terminal's library runs. `ExportSealing`, `TickSealing` and
`DealSealing` are the refinement mappings to `SealedEvidence`.

### TimestampAlignment

One run of the timestamp audit up to its documents: ledger, bar files (strictly
ascending, one per timeframe, or the run raises), then for each trade its entry, its
exit and its record, then the documents. `BisectRight`, `Contained` and
`ApprovedOffset` are the source's lookups; times are integers, and a candle is its
epoch and its timeframe's length. Whether a price lies in its candle is open. Anything
that raises is `Raise`: the run ends and writes nothing.

### SnapshotPublisher

The loop of `scripts/Publish-FounderSnapshot.ps1` against the endpoints it depends
on (`api/health.py`, `account.py`, `positions.py` and `market.py` with their
services: when each answers success, and whether with something) and a relay, which
is external: it accepts, refuses an increment it has no base for, is down, or
accepts and loses the answer. What else ends a cycle is state of the bridge: its
`backend`, since `copy_rates_from_pos` answers no bars with MetaApi
(`core/mt5_client.py:2441`); `supply`, the requests for bars of which enough are left
once the invalid and repeated ones are dropped, because `get_bars` asks for no more
than the script needs; and whether the account holds positions the script cannot
convert (`Unreadable`). The state that only properties need (`honest`, `since`,
`outcome`) is marked as history.

## 3 What the runs check

Passing runs:

| Run | Configuration | Shows |
|---|---|---|
| `worker` | `CMWorker.cfg` | Any number of lifecycle callers against the worker, join timeouts at any step: one worker at most; CONNECTED has a session; readers never see SHUTTING_DOWN; a worker that gave up shows FAILED while it waits, until its delay overflows; a waiting worker obeys a stop request; a stopped worker exits; a running worker connects if the service stays up; the abstract lifecycle is implemented. |
| `direct_attempts` | `CMDirectSafe.cfg` | With or without a direct attempt in the race, lifecycle calls return, also when a join times out only on a thread at a long step (the case in which it has to wait most). |
| `client_races` | `ACRace.cfg` | Two lifecycle callers and a reader at any interleaving: no handle is lost, a locked call is never left with a closed one, and `BrokerSession` is implemented: the locked calls act on the session in turn, each as the manager takes it to. |
| `client_service` | `ACService.cfg` | If `shutdown()` does not overlap unlocked calls: reads of an initialised client use an open handle and the account's host, whatever `initialize` and `login` do meanwhile; every call returns, whatever the service does; and login succeeds again once the account is available. |
| `history_answer` | `HRAnswer.cfg` | For every input within the bounds, the pipeline's answer is the reference's, and of several copies the first survives. |
| `history_errors` | `HSAlone.cfg` | Requests one after the other: a recorded exception fails its request; an old error fails none. |
| `evidence_runs` | `EWSequential.cfg` | Runs one after the other, each failing or crashing anywhere: complete documents; `SealedEvidence` is implemented, so that they appear in order, of one run, never replaced. |
| `publisher_cycles` | `SPCycle.cfg` | Whatever is refused, fails or is lost, a complete archive is confirmed in every period; and snapshots are accepted again and again once the relay stays available and the bridge `Publishable`: connected, to a local terminal that answers, with enough valid bars for every request and positions the script can convert. |
| `bridge_requests` | `BARequests.cfg` | The application from startup to shutdown, any requests beside the worker and a changing broker: what a handler has checked still holds when it acts; reads have session and client to themselves; a healthy report is of one moment; bars come out ordered, the latest of each time; every request is answered; service is restored with the broker. |
| `tick_evidence` | `TEChain.cfg` | Two exports and three audits, those of one command one after the other, each failing, killed or cut off by a power failure anywhere: a readable manifest describes the table beside it; a certification is about the evidence on the disk and given exactly when its queries allow it; a command that succeeded has left its documents; all three commands implement `SealedEvidence`. |
| `timestamp_audit` | `TAAudit.cfg` | Every small ledger, set of series with gaps, and broker clock: bisection misses no candle; a certification by counts covers the whole corpus; only approved shifts are applied; the refusal of a corpus of the expected size is explained. |

One run ends in a counterexample and checks a sentence the repository states about
itself: `exit_before_entry` (`TAResolved.cfg`). Section 7 explains it, and lists
further configurations that end in one.

`client_service` and `bridge_requests` belong together: the former assumes that
`shutdown()` and the unlocked calls do not overlap, and `ReadsAreUndisturbed` of the
latter shows it of the application's reads: no attempt, shutdown or lifecycle call is
under way while a proxy reads. (The worker's `terminal_info()` can overlap the
`shutdown()` of `stop()`; the application serves nothing after that.)

In the other direction `worker` and `bridge_requests` rely on `client_races`: the
manager's model takes a client call for one step, which `ImplementsSession` justifies,
since no other call changes the session between the beginning of one and its answer.

Type invariants are stated in every detailed specification and proved for every size
(section 6).

Deadlock is checked except for `EvidenceWriter`, `HistoryRecords`, `TickEvidence` and
`TimestampAlignment`, which model programs that end.

## 4 Bounds

- **Manager.** Two worker identities: a second worker can exist while the first
  is alive, and finished identities are used again, so that any number of workers
  in a row is covered. The number of lifecycle callers is not bounded. The failure
  counter is capped by `BackoffBound`, above both the number of failures at which
  the worker gives up (`MaxRetries`, 2 for the code's configured value) and the one
  at which the delay's product overflows (`FloatLimit`, 3 for 1024): all that is
  compared with the counter lies below the cap. `reconnectCount` has the same cap;
  nothing reads it but diagnostics.
- **Client.** Two lifecycle callers, one reader, one retry per request, a region
  that is not the default. Four handle identities are never all in use: each caller
  refers to at most one and at most one more is open. `client_service` checks
  liveness and therefore uses no symmetry; there `shutdown` never closes a handle
  that a request still refers to, and one identity can be used again and again.
- **History.** Up to three deals and two orders over two identities and two
  copies, two timestamps or none, limits 1 to 3 or none: every pattern of
  duplicates, ties and cuts across the two collections. The page holds all
  of them, except in `HRPage.cfg`. `HistoryService` has three requests: what a request
  leaves for the next is one last error.
- **Evidence.** The four documents of the code, and three runs in a row, so that a
  run meets what two others have left.
- **Application.** One worker identity: the application starts the manager once. All
  eight endpoints, each authorised or not and valid or not. Up to three bars with two
  valid times and one that is refused, good or bad prices: every pattern of repeated,
  unordered and dropped bars of that length. The worker gives up, and its delay
  overflows, after two failures; the counter is capped at three.
- **Tick evidence.** Two exports and two tick audits, so that a run meets what another
  has left, and one deal audit, which differs from them only in what it judges; no
  more than one power failure, which damages any subset of the files at once. Up to
  two events (`Required = 2` for the code's 52, so that one, too few, and two occur),
  each query near, matching, both; a query without ticks is left to the theorems.
- **Timestamp audit.** Two trades of two expected, and one; two timeframes, shorter
  than the hour; up to two bars out of three epochs with a gap. An hour is four
  instants and a minute two, so that an offset can be no whole minute, a minute that is
  not approved, zero, or an hour.
- **Publisher.** A period of three (240 in the script): a complete cycle, an
  increment after it, and one before the next. Two sets of positions, one empty and
  one that the script cannot convert (that it can, in the configurations of section 7);
  both backends; every supply of bars, where enough for a complete archive is enough
  for an increment.

What these bounds leave out is covered, for all of the safety properties, by the
theorems of section 6, which hold for every value of the constants.

## 5 Fairness

- **Manager** (`FairSpec`): weak fairness for the call that holds the lock, for
  each worker thread and for each direct attempt. It is what a preemptive scheduler
  gives to a thread that can run; a client call ends because its requests have
  timeouts, and a join because it has one. Nobody has to call `start` or `stop`, and
  the service owes nothing. `WorkerReconnects` and `StoppedWorkerExits` state their
  premises (`<>[](lock = "free")` among them), so that a stream of lifecycle calls
  that keeps the lock busy is not counted as a failure of the worker.
- **Client** (`FairSpec`): strong fairness for each thread's steps. Weak fairness
  is not enough for the lock, which is free between the calls of other threads and
  never stays free; they pause outside it between their calls, so a thread that
  waits gets it some time. The service owes nothing; `LoginRecovers` assumes in its
  premise that it stays up and that somebody goes on calling `login`.
- **Application** (`FairAppSpec`): weak fairness for startup, for the event loop's
  handler, for the lock's holder and for the worker's thread: two threads of one
  process. Nobody has to send a request or to shut down, and the broker owes nothing;
  `ServiceRestored` has in its premise that it stays up, that the bridge goes on
  serving, and that the manager has not found its backend unusable for good.
- **Publisher** (`FairSpec`): weak fairness for the loop, which is one process.
  Bridge and relay owe nothing but what the premise of `PublicationRecovers` says.
  That premise is long because the worker is strict: the first cycle, and each in
  which the archive is due, is repeated until it is complete. With MetaApi no
  snapshot is ever published. While one bar is invalid, repeated or missing, every
  request whose newest bars include it falls short: the increments fail, or the
  archive does when it is due, and then every cycle after it. Without any one of
  backend, supply or positions in the premise TLC finds a behaviour in which, from
  some time on, nothing is accepted.

## 6 What is proved

Every theorem holds for any value of the constants under the `ASSUME`s of its
specification, which are of three kinds: model values are distinct; bounds are
natural numbers in the order described above; and data have their types (a list of
bars is a sequence of bars, identities and times are numbers, and the identities are
finitely many, since they are digests of fixed length). TLC evaluates them on every
run. Where
a theorem has an assumption of its own (`Diags = {}`, `Sequential`, `~Overlap`,
`Undisturbed`), it is the application's case, and section 7 has a configuration that
shows what happens without it (`CMDirect`, `EWConcurrent` and `TEOverlap`, `ACRegion`,
`HSShared`).

**BridgeApiProofs, the manager.** `TypeCorrect`, `SingleWorker` (`AtMostOneWorker`),
`ParkedWorkerStops` (`ParkedWorkerObeysStop`) and `StopAtomic`
(`StopIsAtomicToReaders`) hold with any number of direct attempts; the last rests
on `LockInv`: how far the lock's holder has come shows in the state, and only there
is it SHUTTING_DOWN. `GivingUpVisible`, `ConnectedHasSession` and `Implementation`
(`ImplementsLifecycle`, the refinement, step by step) assume `Diags = {}`.
`GivingUpVisible` (`GivingUpIsVisible`) needs that whoever takes FAILED away has set
the stop event first. It ends where the delay overflows: from then on the worker
waits in the handler of unexpected exceptions (`core/connection_manager.py:156`),
where its state is not FAILED (section 7, `CMInterval`).
`ConnectedMeansOpenSession` is not inductive: a step to CONNECTED needs the session
to be open already in CONNECTING, and that needs to know that nobody but the worker
can be between the two. `SessionInv` says so: where the worker is bounds the state
(`StatesAt`), because whoever stops it can only move the state to SHUTTING_DOWN and
DISCONNECTED, from which the table of transitions lets no attempt continue.

**BridgeApiProofs, the application.** `ManagerInside`: a step of the application is a step of its
manager or leaves it alone, so that the theorems above hold of the manager inside
the application. `AppTypeCorrect` follows. `HealthIsOfOneMoment` (`HealthyMeansSession`), `GateStaysTrue`
(`GateHolds`) and `ReadsUndisturbed` (`ReadsAreUndisturbed`) follow from `AppInv`: as
long as the application serves, nobody holds the manager's lock over a step, since
only `stop()` would; and with the lock free nothing that runs beside the event loop
ends an established connection (`ConnectedStays`, from `SessionInv`). The last is
where the worker can be while a read is under way: not in an attempt.

**ArrangementProofs.** What `Picked` returns, for every sequence, every finite set of
positions and every strict total order on it (`PickedAlong`): the sequence along a
list of these positions that holds each once and follows the order. This is counting,
not induction: ranks grow along the order and lie below the number of positions
(`RankIncreases`), so they are distinct, and as many distinct numbers as there are
places take every place (`RanksAreTaken`). The proofs about bars and records use
nothing else about sorting and filtering.

**BridgeApiProofs, the bars.** `BarsOrdered` (`BarsAscendingLatest`), for any lists of
bars. `NormalizedIsLatest` goes through the pipeline: the filter keeps the order in
which bars came (`CheckedAlong`), the sort is stable (`SortedAlong`), so that of one
time the last in the sorted list is the last that came; the dictionary leaves one
position per time, the first, and the sorted list ascends along these
(`DeduplicatedAlong`). `NormalizedIsEmpty` is why the handler's model may ask for
valid bars instead of normalised ones.

**MetaApiClientProofs.** `TypeCorrect` needs `PausesCount`: a request that pauses
has retries left. `HandlesAreClosed` (`NoHandleLeaks`) and `LockedHandles`
(`LockedCallsKeepTheirHandle`) follow from `HandleInv`, which adds who may be at
which step only while owning the lock (`LockInv`). They hold for any number of
callers, and with `shutdown` overlapping reads. `ReadsOfTheSession`
(`ReadsUseTheSession`) assumes `~Overlap`, by `ReadsInv`: the shape of each call
(`CallsInv`), that a caller which shuts down is alone with callers that wait
(`ShutdownAlone`), that the region and a URL that is set lead to the account and an
initialised client has one (`SessionInv`), and what each call knows of them at its
step (`Hosted`). `SessionImplementation` (`ImplementsSession`) shows the refinement of
`BrokerSession` step by step, at any overlap. Its invariant `AnswersInv` says what the
owner of the lock knows of the session at its stage (`Turn`): a login at its initialize
request has found it closed, one beyond it open, a shutdown about to return closed.
Whoever calls without the lock is at no stage that opens or closes it
(`OthersLeaveSession`), and what a call answers is true (`AnswersAreTrue`).

**HistoryServiceProofs.** `FailuresAreNotHidden` (`RaisedFailuresSurface`) and
`OldErrorsAreIgnored` (`NoFalseAlarm`), under `Undisturbed`, without which
`HSShared.cfg` refutes the first. The invariant is `Shape` (types, and what each
position implies of the fates), `Alone` (one request runs) and `Knows`: what the
running request has read is the last error as it still is when its fetch begins, so
that afterwards there is a newer error of its own collection's code if the fetch
raised, and otherwise the same error or one of another code. `TypeCorrect` holds for
any finite set of overlapping requests; that the clock has an end needs a count
(`FetchesCounted`): it has not advanced more often than fetches have been made.

**HistoryServiceProofs, the records.** `RecordsTypeCorrect` (`RecordsTypeOK`),
`AnswerIsTheReference` (`AnswerIsReference`) and `FirstCopyKept` (`FirstCopySurvives`),
for any identities, copies, timestamps, page size and limits, by `RecordsInv`, which
says what each stage has established: after the duplicates are removed, each
collection holds first copies only, without a repetition, and until the limit one of
every identity that arrived; after the limit the identities of both are the reference's;
at the end both are sorted. Neither property is inductive: a sorted answer tells
nothing of what was cut off before. The steps rest on one lemma per helper
(`DeduplicateKeeps`, `SortKeeps`, `LimitSelects`, `OfIdentitiesKeeps`).
`LimitSelects` is the heart: in the sorted list of both collections the k-th record is
the one that k - 1 identities are read before (`ReadBeforeCount`), so that cutting by
position and the reference's counting select the same identities, and cutting the two
collections afterwards by identity loses none. `PrecedesReads` relates the code's key
to the reference's; the proof is also why `Label` adds one:
without it an order with identity zero has the label of the greatest deal, which no
run meets because the identities of the instances begin with one.

**EvidenceWriterProofs.** `TypeCorrect` and `CompleteDocuments` hold for
overlapping runs too; the latter rests on `StagedSoFar` and `StagedComplete`: the
list of a run that stages holds the documents before the one it is at, and the file
of a document in the list is complete. `OneRun`, `NeverOverwritten` and `SealsInOrder`
(the refinement of `SealedEvidence`) assume `Sequential`: `Alone` and `Places`
say that a run which stages or renames has found every destination from there on
free, and that those before are its own.

**TickEvidenceProofs.** All the properties of `tick_evidence`: `EvidenceTypeCorrect`,
and, if the runs of each command follow each other, `ManifestOfItsTable`,
`TraceableCertifications`, `CertifiedByItsQueries`, `DoneIsSealed`, and the
refinements `ExportSealsInOrder` and `AuditsSealInOrder`, for any number of runs,
events and power failures. `EvidenceInv` is in layers. `ExportInv` says of the one
export that runs what it has found and made at each step, of those that are over
what they have left, and `Described` that a manifest on the disk is of the table's
run. `AuditInv` stands on it: a manifest, once whole, is only ever damaged
(`ManifestStays`), so that what an audit has loaded is what it hashes later or the
hash is of a damaged file and the audit was ended with it; documents therefore stay
traceable (`TraceableStays`, `TraceableDamaged`).

**TimestampAlignmentProofs.** `AuditTypeCorrect`, `OnlyApprovedShifts`,
`NoCandleIsMissed`, `CountingCertifiesTheCorpus` and `RefusalIsExplained`, for any
ledger, series and timeframes, by `AuditInv`, whose conjuncts are stated in the
specification. `RefusalIsExplained` is about corpora of the expected size: one of
another size is refused for its size, which the gap document does not mention.
`NoCandleIsMissed` needs `BisectionIsComplete`: of an ascending
series, the bar bisection leads to is the last that begins before the event, and
ends after all the earlier ones; that there is such a split is shown with a least
element of the natural numbers, not by induction. `CountingCertifiesTheCorpus` is an
argument about cardinalities (`CoverageInv`): the checks made are as many as
timeframes times ends, so that a subset of that size is all of them.

**SnapshotPublisherProofs.** `TypeCorrect` and `ArchiveInTime` (`FullEveryPeriod`),
by `ArchiveInv`: the increments confirmed since the last complete archive are fewer
than the count has reached, and the cycle in which it is zero carries the archive;
a failed cycle repeats its number and skips none.

Liveness under fairness is outside what the proof system handles here. So is
induction over sequences; the helpers that sort and filter are defined by ranks
(`Arrangement`) because the same functions written as recursion, or with a
community module's fold, could only be model-checked.

## 7 Findings

Each is the result of a run whose property states what the repository says of itself;
TLC finds the behaviour of the code that contradicts it.

- **`exit_before_entry`** (`wealthbuilder_certification/evidence.py:48`).
  tests/test_stage_4e2_2_evidence.py:31 is named
  "test_any_temporal_failure_prevents_certification", and the gap document calls
  itself "Unresolved temporal records/checks plus separately reported diagnostic price
  exceptions" (wealthbuilder_certification/evidence.py:100).
  `CANONICAL_EXIT_BEFORE_ENTRY` is such a failure (alignment.py:167), and the trade is
  listed among the unresolved records; but build_documents() decides by the number of
  aligned checks alone. If the entry was made at an offset of sixty minutes and the
  exit at none, each end can have its candle while the exit lies before the entry, and
  the corpus is certified with an unresolved record.

Further disagreements, seen while modelling, have a configuration each but are not
among the listed runs. Each checks the one property named, which the code violates:

| Configuration | Property | What TLC shows |
|---|---|---|
| `CMStopped.cfg` | `StoppedMeansDisconnected` | docs/API_CONTRACT.md:306 says "`DISCONNECTED` | Bridge has not started or has been stopped", and tests/test_connection_manager.py:556 asserts `manager._mt5_initialized is False` after stop(). A worker that has passed `while not self._stop_event.is_set()` (`core/connection_manager.py:113`) when stop() runs waits for the lock that stop() holds, so the join times out; it then logs in, sets CONNECTED and exits: CONNECTED with an open session and no worker. A worker overtaken later leaves DISCONNECTED with the session open, which a further stop() returns from at once (line 288). |
| `CMInterval.cfg` | `RetriesAtMaxInterval` | The comment at `core/connection_manager.py:145` says "If exceeded max_retries, mark as FAILED but keep trying periodically" and the message at line 147 "will retry at max interval". The base delay is a float (config.py:33), so from the 1025th failure in a row line 140 raises OverflowError before the min() with the maximal delay; the handler at line 156 sleeps one second, so after about 17 hours of outage the worker retries every second and no longer marks FAILED. |
| `CMRestart.cfg` | `RestartLeavesAWorker` | The join in `restart()` times out when the worker waits for the lock `restart()` holds; `start()` then sees a live thread and returns (`core/connection_manager.py:270`) with the stop event still set; the worker exits and none is left. `tests/test_connection_manager.py:598` and the runbook expect one. |
| `CMDirect.cfg` | `ConnectedMeansOpenSession` | A direct attempt that joins the worker's and fails to initialise closes the session under CONNECTED; the comment at `core/connection_manager.py:169` says that direct calls are correct. |
| `CMLoss.cfg` | `LossIsDetected` | While CONNECTED the loop only sleeps (`core/connection_manager.py:121`); a lost session is not noticed, though the docstring says that the loop "recovers it when needed". |
| `ACRegion.cfg` | `LoginRecovers` | A read that goes on after `shutdown()` stores the default region's URL (`core/mt5_client.py:1326`), which a later login keeps; for an account in another region it fails until the next `shutdown()`. |
| `HSSilent.cfg` | `FailuresSurface` | `services/history_service.py:826` says "Connection/upstream failures are logged and surfaced as service-level exceptions". The client turns every MetaApiError of a read into an empty list without raising, and BRIDGE_NOT_CONNECTED, which the manager records when the session ends between check and fetch, is not among the codes the service looks for (line 748). Both are answered as success with an empty history. |
| `HSShared.cfg` | `RaisedFailuresSurface` | Another thread's error replaces the one a fetch recorded before the request looks at it (`core/connection_manager.py:102`). |
| `HRPage.cfg` | `AllRecordsReturned` | One page of a thousand records is requested (`core/mt5_client.py:2541`), although the endpoint accepts limits up to 10000. |
| `SPPortfolio.cfg` | `PublishedPortfolioIsReal` | The script stops with "The Bridge did not return a complete read-only snapshot." (`scripts/Publish-FounderSnapshot.ps1:139`), and docs/API_CONTRACT.md:472 says "An empty portfolio returns" an empty list. `api/positions.py` answers success with an empty list also when MetaApi fails after its state check, so a failed read passes the script's test and is published as an account without positions. |
| `SPQuote.cfg` | `PublishedQuoteIsReal` | A quote whose tick could not be read, but whose symbol could, is answered as success (`services/market_service.py:27`) and published with zero prices. |
| `EWConcurrent.cfg` | `SealedNeverOverwritten` | Two runs that have both staged rename over each other's documents; `docs/STAGE-4E.2.2-CERTIFICATION.md:47` says that existing files are not overwritten. |
| `EWAtomic.cfg` | `AllOrNothing` | A crash between two renames leaves some of the documents, and later runs refuse to add the rest; `evidence.py:1` says "atomically write". |
| `TEOverlap.cfg` | `ManifestDescribesTable` | Two exports at once: the second truncates the partial file the first writes to (`stage_4e2_3_mt5_tick_export.py:128`), and a manifest can describe a table whose rows are not its run's, though both have looked for evidence first. |
| `TEAbandoned.cfg` | `TableNeverAbandoned` | An export ended between the table and its manifest (`stage_4e2_3_mt5_tick_export.py:191`) leaves a table that no audit accepts and no later export replaces; somebody has to remove it by hand. |

## 8 What is only model-checked, and what is not modelled

Only model-checked: all liveness (`LifecycleCallsReturn`, `StoppedWorkerExits`,
`WorkerReconnects`, `CallsReturn`, `LoginRecovers`, `PublicationRecovers`,
`RequestsAnswered`, `ServiceRestored`). Every safety property of a passing run, and
every refinement, is a theorem as well.

Not modelled, with the reason; `PROJECT.json` has the full list:

- inside the MetaTrader5 backend of the client: Windows-only, each method one call of
  the library; what it returns to the manager and the services is modelled;
- payloads: normalisation of records, JSON-safe values, response models, digests,
  diagnostics and log texts, which no property here is about (this is why
  *History service: records* is listed as partly modelled);
- request identity, timing, logging: headers and log records; configuration:
  constants;
- the loss of renames when the machine fails, for `EvidenceWriter`: its documents are
  synced before they are renamed, their directory is not;
- overlapping runs and direct attempts in the passing runs of `EvidenceWriter`,
  `TickEvidence` and, but for `direct_attempts`, the manager: the properties fail with
  them, as section 7 shows (`EWConcurrent`, `TEOverlap`, `CMDirect`). What holds with
  them is stated in section 6;
- start and test scripts: they launch a process, or request a few endpoints once.

Three things the code shares between threads are left out because nothing is decided
on them: the reconnect count and its time, updated without the lock
(`core/connection_manager.py:132`); the client's last error
(`core/mt5_client.py:815`), which ends up in diagnostics; and that account and
positions of a snapshot are read in two requests
(`scripts/Publish-FounderSnapshot.ps1:136`), of which nobody says that they belong to
one moment.

The relay and the broker service are external. They are modelled by the answers the
code distinguishes, and may change at any moment.

## 9 What is left

The plan of this development is done. `ConnectionManager` and `MetaApiClient` are
composed by assumption and guarantee: `ReadsAreUndisturbed` gives what `Overlap = FALSE`
assumes, and `ImplementsSession` what the manager's client steps assume; there is no
product specification of the two. The code holds what a further module could be about
in one place only, the normalisation of history records, where the questions are about
formats.
