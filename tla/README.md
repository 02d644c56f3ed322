# Saropa Drift Advisor in TLA+

This directory models the parts of Saropa Drift Advisor whose correctness
depends on the order in which things happen: requests interleaving on the debug
server's single isolate, statements of several clients sharing one database
connection, pollers, probes and timers racing each other in the VS Code
extension. The modules are translated from the code under `src/`; the
configurations check them with TLC on small instances, and the `...Proofs`
modules prove the most important results with TLAPS for every value of the
constants.

## 1. The system

Saropa Drift Advisor is three programs.

**The debug server** (`src/lib/src`, Dart) runs inside the host application, on
its isolate, and serves HTTP and VM-service requests about the host's SQLite
database. Everything between two `await`s is atomic; everything else
interleaves. All state is in memory, except snapshots.

| Component | State | Operations | What is hard |
|---|---|---|---|
| Change detector (`server_context.dart`, `generation_handler.dart`) | generation, last signature, cached table names and counts, in-progress flag, throttle clock | `checkDataChange`, `invalidateTableNameCache`, long poll of `/api/generation` | every poll and write handler calls the same sweep; sweeps suspend at two queries; imports invalidate in between; queries fail |
| Write handlers (`edits_batch_handler.dart`, `cell_update_handler.dart`, `index_batch_handler.dart`, `import_handler.dart`) | the shared connection's open transaction | batch, cell update, import, index creation | a batch is BEGIN, n statements and COMMIT as separate awaited calls on a connection everybody shares |
| Mutation log (`mutation_tracker.dart`, `mutation_handler.dart`) | ring of 500 events, last id, long-poll waiters | record, `eventsSince`, wait | ring overrun, waiters racing events, ids starting again after a restart |
| Table activity and host capture (`table_activity_tracker.dart`, `host_statement_capture.dart`) | ring of 200, per-table counters, capture lease, rate window | record read/write/host change, arm, renew, expire | lease expiry against late statements, kill switch |
| Query recorder / DVR (`query_recorder.dart`, `dvr_handler.dart`) | ring with ids, recording flag | record, page, resize | paging while the ring moves |
| Snapshots (`server_context.dart`, `snapshot_handler.dart`, `snapshot_store.dart`) | list of at most 20, the chain of saves, the file | add, remove, rename, clear, load at start | changes while a save is pending; a crash between write and rename; the saves of a server that was stopped, beside those of the next |
| Sessions (`drift_debug_session.dart`) | shared sessions with expiry | share, annotate, extend | expiry |
| Rate limiter (`rate_limiter.dart`) | one-second window | admit | window edge, exempt endpoints |
| Kill switch and router (`router.dart`) | monitoring flag | gate, toggle | requests already past the gate |
| Server lifecycle (`drift_debug_server_io.dart`) | HTTP server, manifest file | start, stop, rewrite manifest | unawaited manifest writes |
| Diagnostics (index analyzer, anomaly detector, schema handlers, SQL validator, compare) | none | pure reads | -- |

**The VS Code extension** (`src/extension/src`, TypeScript) finds servers, keeps
one selected, polls it and shows its data. JavaScript is single threaded too:
the same interleaving at awaits, plus timers, aborts and user commands.

| Component | State | Operations | What is hard |
|---|---|---|---|
| Generation watcher (`generation-watcher.ts`) | running flag, poll id, controller, last generation, backoff | start, stop, reset, poll | stop/reset/start in one turn while a long poll is being aborted |
| Circuit breakers (`transport/circuit-breaker.ts`, `fetch-utils.ts`) | per endpoint group: state, failures, probe flag | gate, record success/failure, reset, retry | answers of old requests, aborted probes |
| Server discovery and manager (`server-discovery*.ts`, `server-manager.ts`) | servers, misses, backoff state, pending lost notices, selection | scan, pause, resume, retry, select | scans that outlive a pause or a stop, debounce of lost servers, a pick answered after the list has changed |
| Schema cache (`schema-cache.ts`) | memory and persisted copies, the fetch in flight | get, invalidate, revalidate | an answer that arrives after the invalidation |
| Mutation stream (`mutation-stream-polling.ts`) | cursor, pause | open, close, pause, poll | stale loops, cursor after a server restart |
| Pending edits (`change-tracker.ts`, `pending-changes-persistence.ts`, `editing-bridge.ts`) | change list, undo and redo stacks, saved draft | edit, undo, redo, apply, restore | debounced saves, ids after a restore |
| Persisted state (`disk-backed-memento.ts`), panels (`webview-ready-queue.ts`), Android forward (`adb-forward-supervisor.ts`), kill-switch pushes (`monitoring-kill-switch.ts`) | files, queues, forwarding flags | update, post, tick, push | unordered asynchronous writes |
| Views, panels, query tools, reports, linters | display state | commands | -- |

**The web viewer** (`src/assets/web`, TypeScript) is the same client role in a
browser: it long-polls the generation, edits cells and imports data.

Components talk in four ways: HTTP requests from extension and viewer to the
server; VM-service calls with the same handlers behind them; the SQLite
connection, shared by the host application and every handler; and, inside the
extension, callbacks between discovery, manager, watcher and caches.

### What makes each part correct

- **Change detection**: one sweep at a time and the guard released on every
  path; the heartbeat shows only changes that happened; a client is told of
  every change, sooner or later, and of none that did not happen; whatever an
  import or a deadline does in between, no change is taken for known that a
  client was not told of.
- **Write handlers**: a batch happens as a whole or not at all and the answer
  tells which; no transaction stays open on the host's connection, unless the
  ROLLBACK itself fails, with an error; an effect vanishes only with a reported
  error.
- **Mutation log and its panels**: no wake-up is lost, no event of the log its
  cursor belongs to is skipped unless the ring evicted it, none is shown twice, a panel that follows
  catches up, a write lights the heartbeat of its own table.
- **Generation watcher**: one chain of polls, no orphaned timer, no generation
  of another server, polling that goes on.
- **Circuit breaker**: one probe when half-open, no decision on outdated
  evidence, recovery once the server is back.
- **Discovery and server manager**: scanning goes on unless it is stopped or
  paused; a lost notice is about a server that is gone, and a server is announced
  once; the active server follows the list.
- **Pending edits**: no cell has two pending values; a draft is the list; whatever
  replaces the list can be brought back; the statements are the changes in an
  order the foreign keys allow.
- **Schema cache and bulk store**: nobody waits for a request that is over; the
  server's last schema gets into memory and onto the disk; moving data from one
  store to the other loses nothing, and no reader notices it.
- **Snapshots**: the file is a list the server has had, at whatever step the process
  dies, and the newest one once saves settle.

## 2. Modules

Each modelled part has one module `X` with its state, actions and properties, a
module `MCX` with the model values TLC needs, one configuration per question, and
a module `XProofs` with its theorems; those of `Snapshots` and `PendingEdits`, the two
lists kept from one session to the next, share `KeptListsProofs` and its lemmas about
sequences (which is why the state of `PendingEdits` has names of its own: `EditsInit`,
`EditsNext`, `EditsSpec`). Operators named "Faulty variant" in a
comment are mutations of the code, used only to show that each property notices
one; no action uses them.

**Granularity.** Both runtimes are single threaded, so an action is the code
between two suspensions: an HTTP or SQLite call is one step in which the other
side computes the answer and a later step in which the awaiting code resumes.
This is what lets an answer be out of date by the time it is used.

### ChangeDetection
`server_context.dart` (`checkDataChange` and what it calls),
`generation_handler.dart` and the ends of the write handlers.

| Code | Model |
|---|---|
| `checkDataChange` up to its first await: switches, in-progress flag, throttle | `MayCheck`, `CheckDataChange` |
| the query for table names, and its continuation caching them | `NamesAnswer`, `NamesResume` |
| the `UNION ALL` of counts, and its continuation: `_recordHostTableChanges`, signature, generation, caches | `CountsAnswer`, `CountsResume` |
| a query that throws, and the `finally` | `QueryThrows`, `FinishSweep` |
| `handleGeneration`: check, wait, tick, deadline, answer | `PollArrives`, `PollWaits`, `PollTicks`, `PollExpires`, `PollAnswers` |
| import and batch handlers as far as detection sees them | `WriteArrives` ... `ImportFinishes`, `EditFinishes`, `BatchFails` |
| host application's own statements, tables created and dropped | `HostWrites` |
| `POST /api/monitoring`, `POST /api/change-detection` | `SetMonitoring`, `SetChangeDetection` |

The database is a function from the existing tables to their row counts, and a
signature is such a function: exactly what the code's string
`"t1:c1,t2:c2"` distinguishes. `hostChanges` counts calls of
`recordHostChange`; `changes` and `operations` are history variables, the operations
really made on each table and on all of them, those that a rollback undoes and the
undoing itself (`RolledBack`) included. `known`, history too, is the signature there
was when a poll was answered: `NothingSwallowed` says that it still is the signature as
long as the generation is still the answered one, so that no change can slip into the
signature behind the client's back.

### EditBatch and AtomicEdits
`EditBatch` runs batches (`runValidatedBatchStatements`), cell updates or host
statements, and imports on one connection with one transaction (`saved`).
`ExecuteBegin/Statement/Commit/Rollback` are what SQLite does with a call
(BEGIN inside a transaction, COMMIT and ROLLBACK outside of one throw; every call may
throw for reasons of its own, a ROLLBACK with the transaction left open), `Resume...`
what the handler does with the outcome. `stuck`, a history variable, is the set of
batches whose ROLLBACK failed in the transaction that is open. `AtomicEdits` is the promise to clients: a batch takes effect as a whole
or not at all and the answer tells which. `AtomicSpec` is the refinement, with
`stored` mapped to what the open transaction would roll back to (`Stored`).
A cell update asks for its row count in a call of its own (`Probes`), and reports what
it finds; no property of that count is true of the code (section 7).
`Serial` says whether clients wait for each other's answers: the handlers do
not serialise batches, so the promise is kept only where clients do.

### MutationLog
The ring of `MutationTracker`, the wrapper round `writeQuery` in
`drift_debug_server_io.dart`, the long poll in `mutation_handler.dart`, and the
extension's `MutationStreamPoller` and panel. A write is three steps:
`WriteBegins` (remembers the last id), `Records` (statement and event) or
`Passes` (not recognised, or not recorded), `Attributes` (the heartbeat, after
the await of `changes()`). A poll looks at the log (`PollArrives`), waits, and
is woken by the next event (`Kept`, `WakeAll` within `Records`), by its deadline
(`PollExpires`), and answers (`PollAnswers`). A panel opens, polls, receives,
fails, gives up on 501, pauses and closes. `Restart` is the host application
restarting: log empty, ids from 1, requests lost. `life`, `readLife`, `shown`
and `base` are history variables.

### GenerationWatcher
`generation-watcher.ts` with the server switch of
`extension-activation-event-wiring.ts` and the outcomes of `httpGeneration`. A
chain is one sequence of polls; `Start`, `Stop`, `Switch` are the synchronous
calls, `Fires` the timer, `Answered`, `Failed`, `Aborted` the three ways the
await ends. More than one chain can be alive, because stop() does not wait for
the request it aborts.

### CircuitBreaker
`circuit-breaker.ts` and the use `fetch-utils.ts` makes of it. `Attempt`
and `Send` are `allowRequest` and the request, `Responds`, `Fails`,
`Rejects` its outcomes, `Abort` the caller's signal, `Tick` time, which lets
no request live longer than `fetchWithTimeout`'s two timers, `Reset` the
`resetAll` of a user's retry.

### ServerDiscovery and ServerManager
`ServerDiscovery` is `server-discovery-core.ts` with its list updater, cadence and
debounce of lost notices; `ServerManager` extends it with `server-manager.ts` and
the master switch of `extension-activation-event-wiring.ts`, so that the callbacks
between the two are part of one action, as in the code.

| Code | Model |
|---|---|
| `_poll` up to its scan, and the timer that calls it | `BeginScan`, `TimerFires` |
| `_poll` after its scan: the id check, `_updateServers`, the next cadence, the next timer | `ScanReturns` with `MayApply`, `UpdateServers`, `NextCadence` |
| `start`, `stop`, `pause`, `resume`, `retry` | `Start`, `Stop`, `Pause`, `Resume`, `Retry` |
| `scheduleLost` and the end of its grace | `Notices`, `GraceEnds` |
| `_onServersChanged`, `selectServer` and its answer | `OnServersChanged`, `SelectServer`, `Pick`, `Dismiss` |
| `ensureActiveForDiscoveredPort`, `adoptClientEndpointIfNone`, the switch | `OpenUrl`, `Adopt`, `Disable`, `Enable`, `StartsUp` |

A chain of polls (`Polls`) is one call of `_poll` with the timers it sets; several
are alive when a stop or a pause does not wait for the scan that is out. Which
ports answer a scan is chosen anew by every scan. `announced` and `dropped` are
history variables.

### PendingEdits and ApplyOrder
`ApplyOrder` holds the pure function `orderPendingChangesForApply` with the
topological sort below it, and, apart from it, `Respects`: what an order of
statements has to satisfy, stated by what must precede what and not by an
algorithm: that some rearrangement `at` puts every change where it may go. The loops of
the code that visit lists, maps and sets in order are modelled by what they visit: a set
of places, sorted (`InOrder`); the loop of the topological sort keeps its turns (`Start`,
`Turn`, `Turns`). Nothing recurses but `Turns`, which is a function of the number of the
turn; that is what made the whole computation provable. `PendingEdits` is the list (`Track`, `Undo`, `Redo`, `RemoveChange`,
`DiscardAll`), the draft (`Flush` when the debounce ends, `Offer`, `Restore`,
`DiscardDraft`, `DismissDraft`), the command that applies the list (`Prepare`,
`GivesUp`, `Succeeds`; nothing keeps it from running twice) and `Restart`, which
disposes of the timer without saving. `SentInOrder` ties the two together: every
list that a session can arrive at is ordered so that it `Respects` the keys.

### SchemaCache and BulkState
`BulkState` is `DiskBackedMemento` and the move of the heavy keys from
`workspaceState` into its files: a write empties the file (`OpenWrite`) before it
fills it (`EndWrite`), may fail in between, and is not chained to the others of
its key. `SchemaCache` extends it, because the cache is a store whose persisted
copy is such a key: `Get`, `ForceRefresh`, `Invalidate`, `Expire`, the answers of
its requests (`Answer`, `Resolve`, `Reject`), `Restart` of the window in the middle of
all of it. `touched` is a history variable: keys that a store has replaced.

### Snapshots and DurableList
`Snapshots` is the list of `ServerContext` with its chain of saves, the handlers
that change it, and `SnapshotStore.save` step by step: `OpenTmp`, `WriteTmp`,
`Rename`, any of which may fail (`SaveFails`) or be the last the process does
(`Crash`). A start reads the store, or nothing if the read fails (`Found`); malformed
records are skipped, so that a list stands for the well-formed ones. A context is one
started server; `StartAgain` starts the next in the same
process while the saves of the last go on, on one temporary file, whose open handles
follow the file through a rename (`handle`). `DurableList` is what is promised to
whoever takes a snapshot: values stored in order, none invented, a start from what
is stored. `DurableUnlessDisturbed` is the refinement.

## 3. Plan

The order was by what the program stands on, and is done as far as section 2 goes.
What is left, with what it would add:

| Part | Would compose with | Question |
|---|---|---|
| pushes of the kill switch (`monitoring-kill-switch.ts`) | `ServerManager` | which of two unordered flips does the server end with? |
| batches of pending edits | `PendingEdits` over `EditBatch` | what does a list applied twice leave in the database? |

Every invariant and every action property of a passing run is a theorem. The runs stay few,
one for each question, and the type invariants that are theorems are not run again.

## 4. Runs

| Run | Question | Bounds | Result |
|---|---|---|---|
| `changes_safety` | Do interleaved sweeps, invalidations, failures and schema changes keep guard, signature, counts and heartbeat right, and swallow no change a client was not told of? | 2 tables of at most 1 row, 2 database operations, a poller, an importer, tables created and dropped | holds |
| `changes_live` | Is every change detected and told to every client, over failing sweeps, a batch that may roll back, and the table dropped and created? | 1 table of at most 1 row, 3 operations, a poller, a batch | holds |
| `edits_concurrent` | Can batches of clients that do not wait for each other leave a transaction open or lose an effect silently? | 3 batches of 2, 1 single update | holds |
| `edits_serial` | Do the handlers keep `AtomicEdits` for clients that take turns, even beside a transaction nobody could roll back? | 2 batches of 2, an import of 2 rows, a single update | holds |
| `edits_rejected` | Does a rejected batch leave nothing, whatever others do? | 2 batches of 2 | violated |
| `mutations_stream` | Does a panel get each event once, in spite of failures, eviction, pauses and restarts, and catch up? | 2 writers, 2 tables, a panel, a ring of 2, 3 ids, 1 restart | holds |
| `watcher_overlaps` | Do overlapping polls, stops and switches fork, mix or end polling? | 2 servers, 2 polls alive, 2 stops, generations up to 1 | holds |
| `breaker_group` | Is there one probe, on fresh evidence, and recovery, with aborts and health probes in the group? | 3 requests, threshold 2, cooldown 2 ticks, timeouts 1 tick | holds |
| `discovery_wired` | Do overlapping scans, retries and the master switch keep scanning, notices and the active server right? | 2 ports, 3 chains of polls, 2 misses, backoff after 2 empty scans for 2 polls | holds |
| `pending_sessions` | Are edits kept, restored, undone and put in order, across a reload? | 5 targets over 2 tables with a foreign key, 2 changes begun in each of 2 sessions, 2 snapshots of history, 2 runs of the apply command | holds |
| `schema_cache` | Does the cache converge on the server's schema, and is nothing lost in the move between its stores? | 2 requests, 2 schemas, 1 heavy key, 2 writes at once | holds |
| `snapshots` | Is the store whole at every crash, and do the saves implement `DurableList`? | 2 contexts, 3 ids, 2 labels, a list of 1, 2 saves queued | holds |

**Why the bounds are enough.** Each is the least at which the hazard occurs, and
one more of each kind repeats it: two tables, so that one can change while
another is dropped; a row count that can go up and back to a value already seen;
an importer beside a poller, so that an invalidation can fall between any two
steps of a sweep; three batches, so that one may end a transaction another
began while a third waits to begin; a ring that evicts (three ids, two places);
two servers and two chains, so that an answer can come after a switch; a
threshold that takes two requests to reach; three chains of polls, so that one
can be left behind by a stop and one by a pause while a third is current; two
changes in each of two sessions, so that a restored draft meets edits, and an id of
its own, of the session that restores it; two writes of one key, so that the older
can end last; two contexts with a save queued behind the one under way, and one place
in the list, so that every addition evicts. What the theorems of section 6 cover
does not depend on the bounds.

The properties hold for these instances exhaustively; generations, ids and counts
are bounded by guards on the environment (`MaxChanges`, `MaxId`, `MaxLife`,
`MaxGeneration`, `MaxPollId`), never by cutting off the program's own steps, so
liveness is not an artefact of a bound: after the last change of the
environment the program is still required to finish. The ticks of
`CircuitBreaker` do not end; its counters stop at the thresholds the code
compares them with. `Chains` and `Polls` bound the polls alive at a time; a further
overlap would wait for a free one. `MaxIds`, `MaxHistory`, `MaxApplies`,
`MaxSessions`, `MaxContexts` and `MaxQueue` bound what users do; `MaxWrites` makes a
write wait for a free place, which `EndWrite` and `FailWrite` always give back.
`PendingEdits` may come to a stop at its bounds, when the user has edited, reloaded
and undone as often as they allow, so its run does not check for deadlock.

## 5. Fairness

- `ChangeDetection`: the throttle interval elapses and timers of polls fire (weak);
  an awaited query settles (weak on the sweep) and does not fail for ever while it
  could succeed (strong on the answers); a client polls again after its answer, as
  `GenerationWatcher` and the viewer do. No fairness for writers, switches or the
  host. `ChangesAreDetected` is claimed only while both switches are eventually on and
  the tables of the cached list eventually exist: while one of them is missing, every
  sweep throws (section 7).
- `MutationLog`: a panel's loop goes on, its polls end, and a server asked again
  and again is reached and heard again and again (strong). Without it the network
  could lose every answer.
- `GenerationWatcher`: timers fire, requests end (`fetchWithTimeout` has two timers
  for it), a server asked infinitely often answers and is heard infinitely often.
- `CircuitBreaker`: time passes, every request settles, callers retry. Nobody need
  abort, reset, or be served.
- `SchemaCache`: while the cache has nothing fresh to give, somebody asks for the
  schema (the tree and its panels do so whenever they are shown or refreshed); the
  time to live passes; a request of a server that is up is answered, an answer
  arrives, and one of a server that is down ends, by the request's own timeout or
  that of `_fetch`; the move and the writes go on. No fairness for invalidation, forced
  refresh, reloads or the server. `CatchesUp` is claimed only if the server is
  eventually up and the window is eventually left open.
- `EditBatch`, `ServerManager`, `PendingEdits` and `Snapshots` have no fairness: their
  properties are about safety. That discovery goes on is stated as the invariant
  `ScansGoOn`, which needs no clock.

## 6. Proofs

Every theorem is for all values of the constants allowed by the named
assumptions of its module: any set of tables, requests, panels, servers or chains,
any ring size, threshold and timeout.

| Theorem | Property | Argument |
|---|---|---|
| `ChangeDetectionProofs!TypeCorrect` | `TypeOK` | inductive as it stands |
| `ChangeDetectionProofs!SweepsExclude` | `SweepExclusion` | inductive with `TypeOK`: the flag is up if and only if someone is inside, and entering needs it down |
| `ChangeDetectionProofs!CountsMatch` | `CountsMatchSignature` | counts and signature are written in one step, and an import only drops the counts |
| `ChangeDetectionProofs!ActivityIsReal` | `NoSpuriousActivity` | needs `ActivityInv`: see below |
| `ChangeDetectionProofs!RefreshesAreReal` | `NoSpuriousRefresh` | needs `RefreshInv`: see below |
| `ChangeDetectionProofs!NothingIsSwallowed` | `NothingSwallowed` | `ToldInv`: the generation never goes back, so a client's answer is not ahead of it, and a sweep that moves the signature away from a known one also moves the generation |
| `EditBatchProofs!TypeCorrect`, `TransactionsEnd` | `TypeOK`, `NoTransactionLeak` | the invariant names who will end the transaction (`WillEnd`): whoever began it, or a batch that found it open, or one that could not end it (`stuck`) and has failed for good |
| `EditBatchProofs!AnswersLast`, `LossesAreReported` | `LossIsReported` | a request is answered when its calls are over (`AnswersComeLast`), and until a batch fails nobody rolls back (`NothingLost`) |
| `EditBatchProofs!RefinesAtomicEdits` | `AtomicSpec` | under `Serial`; `SerialInv`: see below |
| `MutationLogProofs!TypeCorrect`, `WakesAll` | `TypeOK`, `NoLostWakeup` | an event wakes every waiting poll in the step that records it, and the look at the log and the wait are one step |
| `MutationLogProofs!FeedIsComplete`, `FeedIsOnce` | `NothingSkipped`, `NothingRepeated` | `FeedInv`: the ring holds exactly the newest ids (`RingFull`), an answer holds exactly the events after the cursor it was asked with (`AnswersExact`), nothing beyond the cursor has been shown (`ShownUpToCursor`). `FeedIsComplete` is about the log the cursor belongs to: its events count from `base`, which is the first one until the application is restarted (`FromTheFirst`) and the cursor the panel came with after that; what a stale cursor passes over is section 7's |
| `MutationLogProofs!HeartbeatsKept` | `WritesLight` | `OwnEvents`: a write's event is newer than its mark and stays in the ring until `Capacity` others come |
| `GenerationWatcherProofs!TypeCorrect`, `OneChain`, `StaleAnswersDiscarded`, `KeepsPolling` | `TypeOK`, `NoForkedChains`, `GenerationOfActiveServer`, `RunningPolls` | sessions are never newer than `pollId` (`SessionOrder`), and the current session's request went to the client's server (`TargetsActive`) |
| `CircuitBreakerProofs!TypeCorrect`, `GateHolds` | `TypeOK`, `ProbeGate` | inductive: the flag and the state change together on every path |
| `CircuitBreakerProofs!LateIsIgnored`, `ProbeIsAlone` | `LateSuccessIgnored`, `SingleProbe` | under `Timely` (no request takes as long as a cooldown): what was in flight when the breaker opened has settled before it is half-open |
| `ServerManagerProofs!TypeCorrect`, `NoticesReal`, `ScanningGoesOn`, `ActiveFollows`, `AnnouncedOnce` | `ManagerTypeOK`, `NoticesAreReal`, `ScansGoOn`, `ActiveFollowsList`, `DetectedOnce` | see below |
| `SchemaCacheProofs!TypeCorrect`, `NobodyWaitsInVain` | `TypeOK`, `AwaitsWhatIsOut` | the promise is cleared by the end of any fetch, so it never outlives its own; a second revalidation is not begun |
| `SchemaCacheProofs!NothingLost`, `NothingHidden` | `MoveLosesNothing`, `MoveIsInvisible` | `BulkInv`: see below |
| `KeptListsProofs!TypeCorrect`, `StoreIntact`, `Settled`, `RefinesDurableList` | `TypeOK`, `FileIntact`, `SettledMeansSaved`, `DurableUnlessDisturbed` | `IInv`: see below |
| `KeptListsProofs!EditsTyped`, `NoTwoValues`, `DraftFollows`, `NothingIsLost` | `EditsTypeOK`, `OnePerCell`, `DraftIsCurrent`, `NothingUnrecoverable` | `EditsInv`: see below |
| `KeptListsProofs!SentRespectsKeys`, `OrderRespects`, `ParentsFirst`, `SortedUnlessCircular` | `SentInOrder` | `KahnInv`, an invariant of the loop of `_topoSort`: see below |

**Why `ActivityInv`.** That the heartbeat never exceeds the real operations
is not inductive: it counts *differences* between two sweeps, which may see a
table at different moments, miss it because the names were read before it was
created, or have its counts dropped by an import. The strengthening says, for
each table, that the operations not shown yet are still visible along the chain
from the counts of the last sweep, over the reply of the sweep in flight, to the
database, and what a list without the table still owes (it goes and comes back).
`SweepNames` fixes which names a sweep works on.

**Why `RefreshInv`.** That the generation never exceeds `operations` is a claim about
counts that two sweeps took at different moments. The invariant measures how far
apart two databases are by the tables they differ in (`Apart`, `Distance`); it says
that the generation, and what the sweep in flight and the one after it may still add
to it (`Owed`: one for each step of signature, reply and database that differs from
the last), stay within the operations made. An operation changes one table and adds
at most one to that sum; a rollback adds at most the tables it changes (`RolledBack`).
A sweep that has its names but no reply yet is credited with the reply it would get
(`Listed`): a table created since its names were read is left for a later sweep.

**Batches in turns.** `Serial` says that a request begins only when the others have
been answered; it is what a client does that awaits each answer, and what the run
`edits_serial` assumes. Without it the refinement is false: that is the finding of section
7. Under it, `OneAtATime` leaves at most one request at work, and `BatchTurn` and
`SingleTurn` say, for each place its handler can be at, which of its statements the
database and the open transaction hold. `SerialInv` is these two with the types and
`AnswersComeLast`; that answers come last is what makes "the others are answered" mean
that none of them has a call under way. A transaction that could not be rolled back may
be open beside all of this: a later batch cannot begin in it, and its ROLLBACK ends it;
what others write meanwhile is not stored, and `AtomicEdits` allows an update or an
import to be accepted without an effect (section 7).

**`Timely` is a real condition.** It does not hold for the group of the long
polls, whose requests may take 33 s against a cooldown of 30 s; there a late
success can close the breaker.

**Discovery.** `ActiveFollowsList` and `NoticesAreReal` are about what is left of the
past: a pick or a URL older than the list, a notice that waits while its server may
come back. Both are inductive with the types and `ScansGoOn`. `DetectedOnce` is an
action property and needs `Accounted` besides: until a loss has been announced, a
server announced in this session is on the list, or its loss is pending or was
dropped; so a server that is found although it was announced is one of those.

**The bulk store.** `MoveLosesNothing` is not inductive: whether a file is whole
depends on the writes still out. `BulkInv` adds that at most one write is the
move's (`MovesOne`), that a key no store has replaced is written only by the move
and with its original value (`WritesAccounted`), that `workspaceState` forgets a key
only once its file has it (`ForgetsWhatIsMoved`), and that the cache of such a key
is its first value or has yet to be loaded from a file nobody writes
(`CacheFaithful`). That is why a crash between any two steps leaves one whole copy.

**Snapshots.** A store is whole because what is renamed over it is. The invariant says,
while no other context disturbs: the others have nothing queued (`OthersSilent`), an
open handle of the running context is that of the temporary file, just emptied, and
what has been written to it is the head of the queue (`OwnTmp`); at any time the last
list queued is the context's own (`SaveInv`). A start that could not read the store
counts as failed until a save succeeds (`failed`), here and in `DurableList`, whose
start is then empty. The refinement is
a theorem of the same invariant: each step of a save but the rename is a stutter of
`DurableList`, the rename its `Store`.

**Pending edits.** `OnePerCell` is about the list, the draft and the draft on offer, but
the list may come back from either stack, and `addCellChange` finds the change there is
only because the kind of a change is that of its target: `Sound` says both of one list,
`ListsSound` of every list that can come back. `undo` and `redo` push without looking at
the length of the stack they push to; that the stacks stay bounded is `HistoryBounded`:
a snapshot only goes from one to the other.

**The order of the statements.** `SentRespectsKeys` is a statement about a computation,
for any list of changes and any foreign keys: `OrderRespects` has no state in it, and
`EditsInv` only adds that the list is one of changes. `Before` orders places totally, so
`InOrder` is the one enumeration of a finite set of them (`InOrderOf`: the place that
n - 1 places come before is the n-th), and a filter keeps what it should. The topological
sort is a loop, and is reasoned about like a process: `KahnInv` holds before it
(`StartKahn`) and is kept by every turn (`TurnKahn`). It says that nothing is queued or
sorted twice, that a table is queued or sorted if and only if all its parents are sorted,
that a sorted table comes after its parents, and that a loop still going has sorted one
table a turn. The last conjunct ends the loop: after as many turns as tables, a table
still queued would be one too many (`TopoSortOf`). The second says what is left over:
tables each with a parent left over, which are those of `Circular`; conversely the first
sorted table of such a set would have a parent sorted before it (`SortedUnlessCircular`).
So the exception `Respects` makes for cycles is no wider than it must be. From there a
change is sent where its place is, and the three cases of `Precedes` compare two places.

Induction is used in one form: a set of numbers has a least member (`LeastOf`, from the
library's `WFMin`), applied to the set of the turns or indices at which something fails;
and a function of the turn exists (`Iterates`), hence is what `Turns` names (`TurnsOf`).

**Only model-checked:** liveness (`ChangesAreDetected`, `CatchesUp` of three
modules, `Recovers`), which is out of the prover's reach.

## 7. Where code and documentation disagree

With a run that violates the documented property:

- a batch that is answered an error may leave statements in the database when
  another batch ended its transaction (`edits_rejected`; `src/doc/API.md:2172`
  promises a single transaction).

Found while modelling. The models have these behaviours; the properties that hold
name them as their exceptions.

**Server**

- A dropped table stays in the cached names, so every later sweep throws and no
  change of any table is noticed until an import drops the cache
  (`server_context.dart:970`; `src/doc/API.md:365`: the generation "increments when
  table data changes").
- A sweep in flight across an import caches the names it read before the
  invalidation (`server_context.dart:502` says the next one re-reads them); one
  suspended at its query records activity after the kill switch was thrown
  (`server_context.dart:1043`).
- A client that is answered before the server's first sweep has ended knows no
  signature: what changed up to the end of that sweep becomes the baseline, without a
  new generation, and it is never told. `NothingSwallowed` excepts it (`known = None`).
- A batch may be answered `ok` although another batch's rollback undid it.
- `changes()` is read one await after the update it should count
  (`cell_update_handler.dart:220`): a statement of another request in between makes
  the answer say 1 for an update that matched no row, or 0 for one that did; the
  comment at line 212 has the count be that of the last statement.
- A ROLLBACK that fails is only logged (`edits_batch_handler.dart:93`) and leaves its
  transaction open. Updates and imports are then answered `ok` in it, and vanish with
  the ROLLBACK of the next batch, whose own BEGIN fails; until then no batch succeeds.
  `NoTransactionLeak` shows that the failed ROLLBACK is the only way there.
- `stop()` does not await the chain of saves, and `snapshotPersistenceSettled` is
  nowhere awaited outside of tests: a server stopped and started in one process has
  two chains on one temporary file, which can leave a torn store until the next save
  that is alone (`disturbed`). The promise that "a crash mid-write can never leave a
  half-written file" then fails; it holds otherwise (`FileIntact`).
- A rename is answered `ok` for a snapshot that was removed while the request's body
  was read. A snapshot whose rows JSON cannot hold makes every later save fail, and
  nobody is told (`failed` in the model). A store that could not be read at a start
  counts as empty (`snapshot_store.dart:57`): the next save replaces the snapshots it
  holds.

**Extension: polling and discovery**

- A panel's cursor outlives the application it came from: after a restart it asks
  for ids larger than those the new application has, and is shown none of the new
  events until there are more of them than before
  (`mutation-stream-polling.ts:116`). A pause of the panel does not stop the answer
  already under way.
- A long poll that reaches its own timeout is taken for an abort by stop(), and
  polling ends while the watcher believes it runs (`generation-watcher.ts:117`; the
  comment above it has aborts come from stop() alone). This is `lapsed` in
  `RunningPolls`. The continuation of an aborted poll clears the controller of the
  next (`generation-watcher.ts:115`), so the stop() after that leaves a request in
  flight.
- Failures of health probes, which bypass the breaker, restart its cooldown: a scan
  of a dead port in the same group can keep it open for ever
  (`server-discovery-scan.ts:17` calls the probes the recovery mechanism). `Recovers`
  is checked for a group without dead ports (`Dead = {}`).
- A probe whose caller aborts tells the breaker nothing (`fetch-utils.ts:152`): it
  stays half-open and rejects every gated request until a health probe or a reset
  ends it; `circuit-breaker.ts:65` has the rejection last "until that single probe
  resolves". This is `lost`. Responses with status 500 count as success.
- `pause()` and `resume()` during a scan leave two chains of polls until the next
  stop (`server-discovery-core.ts:149`).
- Disabling and enabling the extension keeps discovery's list and its state
  `connected`, so no event is fired, and a server that was alive all the time is not
  selected again (`server-manager.ts:150` comments that the only server is). A start
  that was waiting for the look at the workspace goes on although the extension was
  disabled meanwhile.
- A quick pick answered after its server was lost makes that server active; where two
  others are left and the question is dismissed, a lost server stays active. These
  are the exceptions of `ActiveFollowsList` (`astray`).
- An automatic retry drops the pending notice of a loss, so the server's return is
  announced as if it were new, and its loss never (`dropped`). It keeps the count of
  polls in backoff, too, so the next backoff is shorter.

**Extension: edits, caches, files**

- A dismissed draft is not left for the next activation
  (`pending-changes-persistence.ts:272`) if an edit follows: the next save replaces
  it. "Discard saved draft" deletes a draft that the present session has written since
  the question was asked, and Restore replaces the edits made since then with their
  history.
- Ids begin at `change-1` in every session while a restored draft keeps its own:
  removing a change by its id may remove another one.
- Edits made while the apply command asks the user or awaits its batch are cleared
  with those it has applied (an undo brings them back, along with the applied ones);
  the command can be run again before its batch is answered and sends the same
  statements twice; an undo after it queues what was applied.
- A table that references itself, and the tables below it, are not ordered by their
  foreign keys (`Circular`); `CHANGELOG_ARCHIVE.md:1438` promises the order without
  this exception.
- Cell edits await the schema and may be recorded in another order than they were
  made (`editing-bridge.ts:113`).
- An answer to a fetch from before `invalidate()` or a forced refresh is served as
  fresh for the time to live (`schema-cache.ts:129`); `CatchesUp` shows that it does
  not stay.
- A heavy key that a store updates before it has been moved is overwritten by its older
  value; overlapping writes of a key may leave its file with the older of two values,
  or with parts of both, and a write that fails with an empty file
  (`disk-backed-memento.ts:175`). These keys are `touched`.

## 8. Not modelled

The components of section 1 that are not in section 2 are not modelled, for one of
these reasons.

- **Nothing to interleave.** Rate limiter, shared sessions, the webview queue,
  table activity and capture of host statements, diagnostics and other reads are
  synchronous steps on data of their own, or functions, which tests reach. The query
  recorder is a ring with a cursor, like the mutation log, which is modelled.
- **Modelled where it matters.** The kill switch and the change-detection switch flip at
  any time in `ChangeDetection` and `MutationLog`, whoever pushes them; the retry that
  Android forwarding asks for is an action of `ServerManager`; the viewer's long
  poll is the client of `ChangeDetection`.
- **Outside of state.** Routing, authentication, sockets, the manifest file, the
  VM-service transport, views, panels, generators of SQL and code, reports, linters and
  the web viewer's pages move data between the parts above, or show it. They are most
  of the repository's lines. What they keep is what they show.

Within the modelled parts the following is abstracted: SQL text, row contents and
cell values; the wording of answers; clocks, to what the code compares them with;
the watcher's backoff and error counter, to timers that fire at any time; the
listeners of the watcher, which are assumed not to call back into it; the throttle of
toasts and the persisted list of ports of discovery; the search for conflicts between a
draft and the database; the rows of snapshots; the removal of values from the bulk
store, which the modelled stores do not do.
