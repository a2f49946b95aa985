# TLA+ models of the Globuy shopping assistant

Globuy is a FastAPI server (`app/`) that runs shopping tasks with a language-model
agent, a React workbench (`frontend/`) that starts tasks, follows their events over a
WebSocket and shows their outcome, three background workers (memory consolidation,
memory outbox, prices), and a command-line collector of a paid dataset (`datasets/`).
This directory models its control: the run registry over the session store, the delivery
of a run's events to a browser tab, the workers, the shared hydration of the product
catalog, the agent's phase graph, the accounts, the legacy store, the collector and the
item picker. TLC checks the models on small instances. For instances of every size TLAPS
proves the safety of the registry, of the broker and of the delivery to the tab, of the
background workers, of catalog and collector, of accounts, legacy store, agent loop and item
picker, and that the registry implements an abstract contract (section 5).

Notation: `l.263` without a file is a line of `app/api/run_registry.py`; other files are
under `app/` where nothing else is said.
"Contract" is `docs/frontend-task-api-contract.md`, "session plan" is
`docs/session-archive-task-ui-implementation-plan.md`.

## 1. Inventory

| Component | State | Operations | Interacts with | Hard to get right | Correct when | Status |
|---|---|---|---|---|---|---|
| Run registry (`app/api/run_registry.py`) | `active_tasks` (thread -> handle), a lock per user and per thread, each handle's status, task and two events | `start_run`, `create_thread`, `cancel_run`, `_execute_observed`, `close` | calls store and broker; endpoints call it | cancellation at any await, lock order, stale reads before a lock, shielded saves, shutdown | one executing task and one unfinished run per thread; every request is answered; every run stored before it is announced | modelled |
| Session store (`app/database/session_store.py`) | threads, runs, run results, messages, idempotency keys, artifacts, consolidation columns | `create_run`, `set_run_status`, `finish_run`, `replace_thread`, `recover_after_restart`, listings | written by the registry, read by endpoints and worker | unconditional updates, unique rows, ordinals from `max + 1`, crash between commits | a closed run stays closed, archived threads are quiet, turns in order, one key one run | partly |
| Event broker (`app/api/event_broker.py`) | a stream per run (next sequence, bounded buffer, terminal event, subscribers), a bounded queue per subscriber | `publish`, `subscribe`, `unsubscribe`, `cursor_info`, prune, `close` | the registry publishes, the endpoint subscribes | full buffers and queues, replay and live events meeting | no event is lost without notice, no hole in a queue | modelled |
| WebSocket endpoint, server (`app/api/server.py`) | a reader and a writer per connection | handshake, send, hang up, `lifespan` | between broker and tab | disconnects at any point, slow clients | no subscription outlives its connection | partly |
| Workbench client (`frontend/src/useGlobuyTask.ts`, `state.ts`) | refs: socket, subscription, cursor, timer, flags; reducer: run, status, messages | `startTask`, `cancelTask`, `reconnectNow`, socket handlers, `syncRun` | HTTP and WebSocket | reconnects, stale timers, answers out of order | each event reduced once and in order; the outcome is shown | partly |
| Memory consolidation (`app/memory/consolidation_worker.py`) | cursor, pending count, lease and attempts of a thread | claim, window, complete, fail | reads what `finish_run` wrote; `replace_thread` resets its claim | leases that expire, claims cleared under a worker, counters changed in between | pending work is never forgotten, nothing is skipped, every successful run is consolidated | modelled |
| Memory service, manager and outbox (`app/memory/service.py`, `manager.py`, `outbox_worker.py`) | entries, history, outbox rows with their claims, projections | create, update, delete, `apply_actions`, publish, retry, requeue | pgvector, consolidation worker, `domain_routes.py` | batches whose actions do not see each other, stale reads, a batch under one lease | every version has its audit and event, the projection follows the entry | modelled (the manager's retrieval is not) |
| Price refresh (`app/products/price_worker.py`), wishlist (`app/database/services.py`) | `next_check_at`, refresh runs, observations | claim, reuse, fetch, record, back off | provider, wishlist, catalog hydration | a claim without a token, midnight and crash inside a run | one purchase a day, every due item is checked | modelled |
| Catalog hydration (`app/products/catalog/`) | shared jobs with subscribers, stop policy, scope leases, request ledger | `ensure`, fetch loop, settle, cancel | provider, repository, item search | a job cancelled while joined, counters shared by platforms, a restart between request and answer | no page is paid for twice, callers are served, the cap holds but for pages under way | modelled |
| Agent loop and dispatch tool (`app/agent/`) | messages, phase, iteration, intent of a checkpoint | prepare, think, act, observe, reflect, compress, fork | model, tools, registry | guards that read a history which interruptions and compression change | every run ends, every tool call has its result | partly |
| Search and selection tools (`app/tools/`, `products/grouping.py`, `recall/transient_hybrid.py`) | the groups of one call | filter, group, shortlist, rerank, fall back | model, encoder, catalog | a model that repeats and invents ids, small limits | the picks obey the constraints, platforms keep a place | partly |
| Authentication (`app/auth/`) | user row, sessions, login counter in Redis | register, login, change password, logout | database, Redis | a login across a password change, aborts between two Redis calls | only sessions of the present password live | modelled |
| Legacy SQLite store (`app/api/storage.py`) | threads, runs, messages, idempotency keys, artifacts | one transaction per method; artifact registration in two | registry, before the PostgreSQL store | paging while archiving, equal times, runs reopened by a late status | history complete, without repetitions, in order | modelled |
| Dataset collector (`datasets/justone_headphones/collector.py`) | request ledger, raw answers, state and candidates files | smoke test, collection, import, report | paid provider | a kill between any two writes | no request sent twice, no paid page lost | modelled |
| Providers, evaluation, observability, views, connection manager | - | - | - | numeric scores, I/O, layout, superseded code | - | not modelled |

How they meet: an HTTP request enters `RunRegistry`, which serialises the requests of a
user and of a thread with asyncio locks, writes rows through the store, and starts one
asyncio task per run. The task publishes events to the broker. The tab opens
`/ws/{thread_id}?run_id&after`; the endpoint subscribes it, replays from the buffer what
it misses, and forwards live events. After a gap or a terminal event the tab asks
`GET /threads/{t}/runs/{r}` and `GET /threads/{t}` and merges the answers. What a run's task
executes is the agent; its item search joins a hydration job of the catalog, its item
picker chooses from what came back. `finish_run` also writes the consolidation row of the
thread, which a worker of its own claims; the memory manager's actions go through the
memory service into the outbox, and the outbox worker into the projection. Hydration and
price worker meet in the observations of an offer.

The hazards of this code, each at its line with the properties that cover it, are listed
in `PROJECT.json`.

## 2. Modules

| Module | What it is |
|---|---|
| `SessionStore` | The tables and one operator per transaction: `CreateRun`, `SetRunStatus`, `FinishRun`, `ReplaceThread`, `RecoverAfterRestart`. |
| `RunRegistry` | The registry over the store: requests, tasks, faults, shutdown, crash, restart; fairness; the properties. |
| `RunContract` | Abstract specification: threads are absent, active, archived or deleted; runs open, then closed for good. No process, lock or event. |
| `RegistryInvariant` | The registry's inductive invariant: `Inductive`, about control, and `Invariant`, which adds what tables and streams remember. |
| `RegistryProofs` | Proofs about the registry. |
| `EventBroker` | The broker alone, with its own `BrokerSpec`. |
| `EventDelivery` | Broker, endpoint and one tab composed. |
| `Consolidation` | The consolidation row of one thread: session store, worker processes, faults; fairness. |
| `MemoryOutbox` | Memory entries of one user, batches of actions, outbox, publisher; fairness. |
| `PriceRefresh` | Wishlist items of one offer, the daily run, midnight, crash; fairness. |
| `CatalogHydration` | Shared jobs, their callers, fetch loops, leases and the ledger. |
| `AgentLoop` | The phase graph of one thread, or of a fork, over its messages, across runs. |
| `LegacyStore` | The SQLite store and a client that pages through its archive. |
| `Accounts` | Concurrent requests about one account. |
| `DatasetCollector` | One collecting process, killed at any step, and its files. |
| `Selection` | One call of the item picker, from its arguments to its picks. Filters and sorts are written with the positions they keep (`At`, `InOrder`), which a proof can speak of. |
| `BrokerProofs`, `DeliveryProofs` | Proofs about the broker and about the composition; the second extends the first. |
| `WorkerProofs` | Proofs about consolidation, prices and memory, and about their sum. |
| `CatalogProofs`, `AgentProofs`, `SelectionProofs` | Proofs about the hydration of the catalog, the agent loop and the item picker; the last uses lemmas on sequences of the one before. |
| `ServiceProofs` | Proofs about accounts, collector and legacy store, and about the sum of the services. |
| `MCRunRegistry`, `MCEventDelivery` | Symmetry sets for TLC. |
| `MCBackground`, `MCServices` | Sums of the workers and of the services for TLC (section 3). |

### The grain of a step

A coroutine runs alone between two awaits, so an action is the code from one suspension
to the next. A database call is two actions: the commit, and the resumption of whoever
waits for it; a fault is a call that raises and is rolled back. Operations of the broker,
and acquiring a lock that is free, do not suspend. After `finish_run` returns, the task
therefore publishes, unregisters and sets `done_event` in one step (`EndTask`).

### `RunRegistry` and the code

| TLA+ | Code |
|---|---|
| `activeTasks`, `hstatus` | `active_tasks`, `handle.status` |
| `userLock`, `threadLock` | `user_locks` (one user is modelled), `thread_locks` |
| `tpc[r]` | where the task of `r` is suspended: `created`, `starting` and `started` around the first update, `agent`, `saving` (awaits `finish_run(awaits[r])`); `ended` sets `done_event`; `killed` was cancelled before its first step |
| `cancelled[r]` | `task.cancel()` was called and CancelledError is not yet delivered |
| `finishing[r]` | `finish_run` calls behind `asyncio.shield`, which go on when their caller is cancelled |
| `stream[r]` | what was published, as far as the registry's properties speak of it |
| `kind`, `pc`, `key`, `thr`, `run`, `seen` | an API request: operation, suspension point, `client_request_id` and locals |
| `ReadIdem` ... `AwaitStarted` | `start_run`, l.153-205 |
| `ReadActive` ... `AnnounceArchived` | `create_thread`, l.207-260 |
| `ReadRun` ... `CancelTask` | `cancel_run`, l.262-288 |
| `CheckStatus` ... `Recheck`, `AwaitTimeout` | `_cancel_and_wait`, l.290-331 |
| `BeginTask` ... `EndTask`, `SaveFailed`, `DeliverCancel` | `_execute_observed`, l.370-598 |
| `Close`, `Exit`, `Crash`, `Restart` | `close` (l.670), `lifespan`, the process |

Abstractions. Fresh UUIDs are members of `Run` and `Thread`, so a request that may need
one arrives only while one is left. The text of an answer is whether there is any (`said`).
`AwaitTimeout` may fire whenever the wait is not over; the grace period is not timed.
The second look at the idempotency key, inside the store's transaction, can never find
anything new in one process, because the user's lock is held since the first; `InsertRun`
models it all the same. Requests may go on while `Close` is in progress: at the level of
the registry nothing forbids it. Missing rows of other users (404) are not modelled.

### `EventBroker`, `EventDelivery` and the code

| TLA+ | Code |
|---|---|
| `streams`, `queue`, `room` | `_streams`, `Subscription.queue` and its `maxsize` |
| `handler`, `Handshake`, `WriteClose`, `Hangup` | `subscribe_events` in `server.py` |
| `row`, `newest`, `archived`, `tasks`, `Progress`, `Commit`, `Finish` | the registry, as far as `RunRegistry` establishes it: one run at a time, its terminal event after its terminal status |
| `sock`, `wants`, `after` | the browser's socket, the run and cursor of its URL |
| `socket`, `subscription`, `cursor`, `terminal`, `intentional`, `timers`, `timerRef` | `socketRef`, `subscriptionRef`, `lastSequenceRef`, `terminalRef`, `intentionalCloseRef`, pending reconnect timers, `reconnectTimerRef` |
| `sync` | calls of `syncRun` in flight, step by step on both sides |
| `viewRun`, `viewStatus`, `shown` | the reducer's run, its status, and the events it has reduced |
| `asked`, `told` | history: the run of the last TASK_ACCEPTED; the highest sequence that a gap notice or an answer accounts for |

Abstractions. RUN_ERROR and TASK_CANCELLED travel as RUN_FINISHED does. An item leaves its
queue in the step in which the tab receives it, so what is lost in the network is lost
in the queue. Two pending timers of one run are one. One POST is in flight at a time. The
reducer has a `lastSequence` of its own which never passes the ref's cursor. The pages of
archived threads, other tabs, heartbeats and message text are left out.

### The background workers and the code

| TLA+ | Code |
|---|---|
| `state`, `outcome`, `retired` | the row of `memory_consolidation_states`, statuses of the thread's runs, `threads.status` |
| `FinishRun`, `Reopen`, `ReplaceThread`, `RecoverAfterRestart` | `session_store.py`, as far as these write that row |
| `Claim`, `Window`, `Process`, `Complete`, `Fail` | `run_once` from one transaction to the next |
| `LeaseLapses`, `WorkerCrashes`, `Requeue` | time, the process, `requeue` |
| `entries`, `history`, `outbox`, `projection` | `memory_entries`, `memory_history`, `outbox_events`, `memory_embeddings` |
| `ApplyActions`, `Note`, `Cascaded` | `MemoryService.apply_actions` and its helpers |
| `AgentDecides`, `Valid`, `Allowed` | the checks of `manager.py` before it calls the service |
| `ClaimBatch`, `ReadEntry`, `WriteProjection`, `PublishFails` | `outbox_worker.run_once` |
| `wish`, `fetched`, `hydrated`, `openRuns` | `wishlist_items`, observations by day and origin, `price_refresh_runs` |
| `StartRun`, `ReuseTodayObservation`, `AskProvider`, `StorePrice`, `PriceFails` | `price_worker.py` |

Abstractions. The messages of a run are consecutive, so a cursor counts runs. A text is its
hash. In a batch the actions do not see each other, because the sessions do not flush before
a query; a batch is two actions, and `Transaction` applies them one after the other, each
to the rows the batch began with. Times are
days or flags: a lease lapses, or an event becomes available, at any moment. An idempotent
replay of a wishlist addition writes nothing and is no step.

### The services and the code

| TLA+ | Code |
|---|---|
| `caller`, `job`, `Ensure`, `Leave`, `Returns` | calls of `ensure`, `_jobs` and `_SharedJob` |
| `Inspect`, `CreateHydrationRun`, `AcquireScopeLease`, `Settle` | `_run` in `hydration.py` |
| `fetch`, `NotLeased` ... `NotePage` | `fetch(platform)`, from one await to the next |
| `Stops`, `Remaining` | `CatalogStopPolicy`, under `policy_lock` |
| `scope`, `ledger` | `catalog_scopes`, `provider_request_ledger` of `repository.py` |
| `Prepare`, `Think`, `Act`, `Observe`, `Compress`, `Reflect...` | the nodes of `main_agent.py` |
| `Rejection` and the guards it names | `guarded_tool_call` in `middleware.py`, in its order |
| `Repaired`, `Compressed`, `LoopDetected` | `repair_incomplete_tool_groups`, `_safe_boundary`, loop detection |
| `calls`, `userLock`, `failures` | requests of `auth_routes.py`, the row lock, the Redis counter |
| `Verify`, `OpenSession`, `CountFailure`, `SetExpiry` | `login` of `auth/service.py` from one wait to the next |
| `ReplaceThread` ... `InsertArtifact`, `walk` | the methods of `api/storage.py`, a client of `list_threads` |
| `reserved`, `finished`, `raw`, `stateFile`, `savedCandidates` | the collector's files |
| `Reserve`, `Send`, `WriteRaw`, `FinishRequest`, `SaveState`, `SaveCandidates` | its writes, one by one |
| `FilterAndGroup`, `SelectByText`, `Rerank`, `RankDeterministically` | `llm_item_picker` |

Abstractions. An offer is its id; the provider's pages may hold any offers. In `AgentLoop`
a decision has one tool call, although the code keeps several in one group; without a model
the program only answers a fixed text, which is left out; a turn is one run of the thread. The
fork of a dispatch is a thread of its own with depth 1, whose result its parent reads. In
`Accounts` nothing disables a user, as nothing in the repository does. The collector's raw
file is written in one step, although the code writes it in place. Relevance scores are any
order, and the model's answer is any list of ids.

## 3. Runs

| Run | Instance | Shows |
|---|---|---|
| `RegistryRequests` | 3 requests, 2 threads, 2 runs, 2 keys, no fault, no stop | `TypeOK`, `OneTaskPerThread`, `OneUnfinishedRunPerThread`, `ArchivedIsQuiet`, `TurnsInOrder`, `StoredBeforeAnnounced`, `SameKeySameRun`, `CancelReachesTask` |
| `RegistryFaults` | 2 requests, 1 database fault, 1 shutdown or crash, restart | `Invariant`, the inductive invariant of section 5 (it contains the types, `OneUnfinishedRunPerThread`, `TurnsInOrder`, `StoredBeforeAnnounced` and what a cancel reaches), `SameKeySameRun`, `ResultIsFinal`, and that the registry implements `RunContract` (`Implements`) |
| `RegistryLiveness` | 2 requests, 1 fault, fairness | `RequestsReturn`, `TasksEnd` |
| `DeliverySafety` | 1 run of 2 events and its end, 2 sockets, buffer and queue of 1, one each of: drop, click, cancel, failed request, expiry, restart | `TypeOK`, `BufferIsTail`, `QueueIsTail`, `ReducedOnceInOrder`, `NoSilentLoss`, `NoLeakedSubscriber`, and that the composition only does what the broker may do (`UsesBroker`) |
| `DeliveryLiveness` | 1 run of 3 events, buffer 2, queue 1, 1 drop, one status request at a time, fairness | `OutcomeShown` |
| `Background` | consolidation: 2 workers, 3 runs, 1 mishap; outbox: 2 memories, 2 texts, 2 versions, batches of 2, 1 publisher, 1 fault; prices: 2 items, 3 days, 1 crash; fairness | `NothingForgotten`, `CursorBehindWork`, `EveryVersionRecorded`, `ProjectionCatchesUp`, `BoughtOncePerDay`, `WorkSettles`, types |
| `Services` | catalog: 2 callers, 2 jobs that share a platform, 1 mishap; agent: 2 turns, budget 3, 1 disturbance; legacy store: 2 threads, 2 runs, 2 times, pages of 1; accounts: 4 requests, 2 passwords, 1 mishap; collector: 2 platforms, 2 keywords, 1 kill; picker: up to 3 of 7 entries | `PaidOnce`, `OvershootBounded`, `CallersServed`, `ToolGroupsClosed`, `StepsBounded`, `HistoryReadable`, `SessionsOfThisPassword`, `NothingPaidIsLost`, `PicksAreSound`, `PlatformsKept`, types |
| `RegistryTerminalStatus`, `RegistryEndedRun`, `RegistryLostCancel`, `DeliveryStaleAnswer`, `DeliveryOldRun` | the smallest instance with the behaviour | the disagreements of section 4 |

**Bounds.** Two runs and three requests are what the races need: an old run, a new run,
and a start, a replacement and a cancel that overlap; a fourth request only queues on a
lock. Two threads are an archived and a new one. With two keys, requests repeat a key or
do not. One fault and one stop at any point give every single failure; the theorems of
section 5 lift these bounds for what they state. `subscribe` makes a queue that holds
`max(QueueSize, replayed + 3)` items, so with `QueueSize = 1` and a buffer of one the
queue has room for 3 or 4 and overflows as soon as the tab leaves the two events and the
terminal event of the run unread; a buffer of one makes every reconnect meet a gap. Two
sockets let an old one close while a new one opens. `Cursor` (values of `after` in
`BrokerSpec`) contains every sequence that the bound on events allows. Three events with
a buffer of 2 in `DeliveryLiveness` let the subscription overflow, and the reconnect find
a gap, before the terminal event.

`Background` and `Services` are sums: the initial state chooses one part, and the others
stay at rest. The parts share no variable. A property of `Services` speaks of one part's
state, or is a conjunction of such, so an interleaving of the parts could not violate what
none of them violates; `WorkSettles` is a conjunction of one part's liveness each. A part at
rest has no fair action enabled, so the fairness of the others stays satisfiable.
Two workers are what a claim needs to be stolen, three runs put one run finished in the
window's time between two consolidated ones, and one fault of a kind gives every single failure. Two
memories and batches of two give actions that meet in one entry and actions that do not.
Three days are a failure's backoff and the day after a midnight inside a run. In the catalog
one platform has three pages and is wanted by both jobs; a cap of 1 with pages of 2 makes
every page touch it. In the agent, `GuardLimit` = 7 is above the forced end at `Budget` = 3,
as 12 is above 8 in the code, so that both ends of `StepsBounded` occur. With one mishap in
the catalog the cancellation of a job that is already being cancelled does not occur (the
second case of `CancelArrives`); with two it does, in half a million states, and the properties hold.
The collector's page list has duplicates, accessories, prices of zero, ids under aliases and
an answer of another shape; the picker's entries share products and ids across platforms.

**Symmetry** is used for safety only, over ids that no definition tells apart: threads,
runs, keys and requests; sockets and status requests; in `Services`, callers, run keys and
offers, whose values also serve as runs, passwords, keys and requests of other parts, so that one
group of permutations acts on all. `ActiveThread` chooses from a set
with at most one element.

**Deadlock** is checked in the registry and delivery runs. `Quiescent` and `Resting` say where the system may
rest: every request answered and every task over; or nothing in flight, no timer pending.
`Background` and `Services` stop when a bound is used up (no day, run or version is left) or
when a call is answered, so it is not checked there; `WorkSettles` says what must not be left undone.

**Fairness.** Weak fairness of a request's and of a task's steps: the event loop resumes
what can be resumed, the database answers, and the agent ends (its recursion limits and
the timeouts in `main_agent.py` l.804-839 bound every run). In `EventDelivery` the
server, the network and the tab serve what is there, a stored outcome is announced, and
a timer fires. In
`Background` a worker's loop goes on (`_main` restarts what fails, compose restarts what dies),
and a lease or a delay that has begun ends. Nothing is assumed about arrivals, clicks, progress of the agent, faults,
lost connections, timeouts or restarts.

The liveness runs leave out what liveness does not survive in the code: a shutdown that
kills a task before its first step leaves `start_run` waiting until the process ends
(l.204, l.670), and after a restart every handshake is refused with 4404 and the tab
reconnects for ever (`useGlobuyTask.ts` l.130). `DeliveryLiveness` also has no cancel
click, because the plain `syncRun` after a failed cancel can take the terminal event's
sequence for seen (l.334, `useGlobuyTask.ts` l.58). These are listed as hazards.

## 4. Where the code and its documents disagree

1. `RegistryTerminalStatus`: session plan :67, a run has only one terminal status.
   `cancel_run` reads the run, waits for the lock, and updates the row without a condition;
   when the run finishes in between, its status goes from `succeeded` back to `cancelling`.
   A second result row is refused by the primary key, so the run stays unfinished and its
   thread can neither run nor be replaced until a restart.
2. `RegistryEndedRun`: contract :384, exactly one terminal event per run. A cancel that
   is delivered while `except Exception` awaits `finish_run("failed")` (l.561) leaves
   through `finally`: no terminal event.
3. `RegistryLostCancel`: contract :219, a cancel injects CancelledError. The handle
   is marked before the row is updated (l.278-281). When the update fails, every later
   cancel finds the mark and answers `cancelling` without cancelling.
4. `DeliveryStaleAnswer`: contract :300-301, after a gap the state interface restores the
   final result. The request of the gap and that of the terminal event overlap; when the
   older thread detail is merged last, the view stays active, and the socket is closed.
5. `DeliveryOldRun`: contract :646, late events of an old run are ignored. `connect()`
   leaves a pending reconnect timer alone; the timer of the old run fires after a new
   task was accepted and subscribes the tab to the old run again.

The passing runs include these behaviours where their properties survive them:
`OneUnfinishedRunPerThread`, for example, holds although a finished run can become
unfinished again.

## 5. Proofs

Each theorem is about a specification of section 2 and holds for every value of its
constants that satisfies the module's assumption: any number of threads, runs, requests,
sockets, workers, callers or pages, any sizes, and any number of faults, crashes and
restarts. The bounds of section 3 are TLC's alone.

| Theorem | States |
|---|---|
| **Registry** (`RegistryProofs`, `Spec` of `RunRegistry`) | |
| `Invariance`, `FullInvariance` | `[]Inductive` and `[]Invariant` |
| `TypeCorrect`, `UnfinishedIsUnique`, `ExecutionIsUnique`, `ArchiveIsQuiet` | `[]TypeOK`, `[]OneUnfinishedRunPerThread`, `[]OneTaskPerThread`, `[]ArchivedIsQuiet` |
| `AnnouncedIsStored`, `TurnsStayInOrder`, `KeysNameRuns` | `[]StoredBeforeAnnounced`, `[]TurnsInOrder`, `[]SameKeySameRun` |
| `CancelsReachTasks` | `[](faults = 0 => CancelReachesTask)` |
| `ResultsAreFinal`, `RegistryImplements` | `ResultIsFinal` (an action property); `Implements`: the registry implements `RunContract` |
| **Broker** (`BrokerProofs`, `BrokerSpec`) | |
| `BrokerInvariance`, `BufferHoldsTheTail`, `SubscribersMissNothing` | `[]BrokerInvariant`, `[]BufferIsTail`, `[]QueueIsTail` |
| **Delivery** (`DeliveryProofs`, `Spec` of `EventDelivery`) | |
| `DeliveryInvariance`, `DeliveryTypeCorrect`, `NoSubscriberLeaks`, `ReducedInOrder`, `DeliveredTails` | `[]DeliveryInvariant`, `[]TypeOK`, `[]NoLeakedSubscriber`, `[]ReducedOnceInOrder`, `[](BufferIsTail /\ QueueIsTail)` |
| `DeliveryUsesBroker` | `UsesBroker`, if `Cursor = Nat`: the composition implements `BrokerSpec` |
| `NothingPassesSilently` | `[]NoSilentLoss`, if the thread has one run (`OneRun`) |
| **Workers** (`WorkerProofs`) | |
| `ConsolidationInvariance`, `ConsolidationTypes`, `CursorNeverAhead`, `WorkIsNeverForgotten` | `[]ConInvariant`, `[]ConTypeOK`, `[]CursorBehindWork`, `[]NothingForgotten` |
| `PriceInvariance`, `PriceBoughtOnce` | `[]PriceInvariant`, `[]BoughtOncePerDay` |
| `MemInvariance`, `MemTypeCorrect`, `EveryVersionHasItsEvent` | `[]MemInvariant`, `[]MemTypeOK`, `[]EveryVersionRecorded` |
| `OnePublisherCatchesUp` | `[]ProjectionCatchesUp`, if `Publisher = {p}` |
| `WorkersSideBySide`, `BackgroundTypeCorrect` | `MCBackground`'s `Spec` implies those of its parts, hence `[]TypeOK` of the sum |
| **Catalog** (`CatalogProofs`) | |
| `HydInvariance`, `HydTypeCorrect`, `CallersAreServed`, `RequestsLeaveOnce` | `[]HydInvariant`, `[]HydTypeOK`, `[]CallersServed`, `[]RequestSentOnce` |
| `OvershootIsBounded` | `[]OvershootBounded` |
| **Agent loop** (`AgentProofs`, `AgentSpec`) | |
| `AgentInvariance`, `GroupsAreClosed` | `[]AgentInvariant`, `[]ToolGroupsClosed` |
| `RunInvariance`, `StepsAreBounded` | `[]RunInvariant`, `[]StepsBounded` |
| **Item picker** (`SelectionProofs`, `SelSpec`) | |
| `SelInvariance`, `SelectionTypes` | `[]SelInvariant`, `[]SelTypeOK` |
| `PicksStaySound`, `PlatformsStay` | `[]PicksAreSound`, `[]PlatformsKept` |
| **Services** (`ServiceProofs`) | |
| `AccountsInvariance`, `AccountsTypes`, `NoSessionOutlivesPassword` | `[]AccInvariant`, `[]AccTypeOK`, `[]SessionsOfThisPassword` |
| `ColInvariance`, `CollectorKeepsItsCaps` | `[]ColInvariant`, `[]PaidOnceWithinCaps` |
| `SearchInvariance`, `PaidPagesAreKept`, `CollectorTypes` | `[]SearchInvariant`, `[]NothingPaidIsLost`, `[]ColTypeOK` |
| `LegacyInvariance`, `HistoryStaysReadable`, `LegacyTypeCorrect` | `[]LegacyInvariant`, `[]HistoryReadable`, `[]LegacyTypeOK` |
| `ServicesSideBySide`, `NothingBoughtTwice`, `ServicesTypes` | `MCServices`' `Spec` implies those of its parts, hence `[]PaidOnce` and `[]TypeOK` of the sum |

**Assumptions.** Every module with CONSTANTS states one: a placeholder (`NoRun`,
`NoWorker`, ...) is not a member of the set it stands beside, and bounds are natural
numbers. Those that say more are what the code enforces:

- `BrokerAssumption`: buffer and queue hold an event (`config.py` :76, :78, at least 10).
- `ConAssumption`: the threshold is positive (`config.py` :214).
- `MemAssumption`, `PriceAssumption`: a batch has a row (`batch_size=100`,
  `outbox_worker.py` :30, `price_worker.py` :63); memories and items are finitely many.
- `HydAssumption`: a job names a platform (`catalog/intent.py` :42) and a platform has a
  first page; platforms and offers are finitely many, and the page size and the hard cap are
  natural numbers (`config.py` :108). `Enough` and the limits of the stop policy are arbitrary.
- `AgentAssumption`: the budget of decisions is positive (`max(8, 2 * threshold)`,
  `main_agent.py` :209); the limit of the fallback's guard is a natural number (12,
  `middleware.py` :439).
- `SelAssumption`: an entry that was parsed has a platform of the three that `_balanced`
  knows, and numbers for price, rank and rating (a price is counted in its smallest unit; only its
  order matters); at least one pick is asked for (`max(1, min(limit, 3))`, `item_picker.py` :761).
  The limit of groups may be anything, also less than the number of platforms.
- `AccAssumption`: a login attempt is allowed (`config.py` :97); finitely many requests.
- `LegacyAssumption`: a page has a row (`server.py` :289).
- `ColAssumption`, `PageAssumption`: there is a keyword (`KEYWORDS`, `collector.py` :25)
  and a page (:168), and what the provider lists is a sequence. The order of platforms
  may name one twice, and any page may hold anything.

**Registry.** None of the safety properties is inductive. That a thread has one unfinished
run is checked by `create_run`, but `set_run_status` can make a finished run unfinished at
any time it is called; that this is harmless rests on who may call it and on what is then
true. `Inductive` (`RegistryInvariant`) says so in parts:

- `RequestsFit`: a request is only where its operation can be, with its arguments.
- `RowsConsistent`: the columns of a row agree; one thread is active.
- `MemoryKnown`: handles, tasks, shielded saves and waiting requests are about runs
  that this process wrote and no restart interrupted.
- `LocksHeld`: at the points inside an `async with`, the request holds the lock.
- `HandleOwnsThread`: the unfinished run of a thread with a handle is the handle's, and
  its task has not reached its `finally`.
- `LiveIsRegistered`: a task that executes is the registered one of its thread.
- `LockedView`: under the thread lock a request's handle is still the thread's or gone,
  nothing is registered when it inserts, and only its run may be unfinished.
- `OneUnfinishedRunPerThread`, and `RetiredRule`: an archived thread, and one about to
  be replaced, has no handle and nobody working on one.

`Invariant` adds what is remembered. `ResultsAreTheTasks`: a result row holds what a
`finish_run` call of the run's own task wrote, and a cancel does not take back the success
it interrupts; so a terminal event announces a stored result. `QuestionIsLast`: until a run
has its result, its question is the last message of its thread, so the answer goes directly
behind it. `KeysRemembered`: a start that is past its insert finds its run under its key.
`HandlesSpawned` and `CancelsDelivered`: a handle that says "cancelling" belongs to a task
the cancel has reached, or will by the request that is marking the row. The last holds only
while no database call has failed, which is why `CancelsReachTasks` has this hypothesis
(finding 3).

`RegistryProofs` shows, in this order, that steps keep the types; that rows stay and memory
stays about known runs; and that locks exclude, that only an insert and a mark can make a
run unfinished, both under the thread's lock (`UnfinishedBegins`), and from it
`HandleOwnsThread`, `LiveIsRegistered` and `LockedView`. Then it adds
`RetiredRule` and the remembered parts, joins them and draws the theorems. For the
refinement each step is mapped to a step of the contract: an insert opens, a `finish_run`
shuts, a replacement replaces, a restart interrupts, and everything else stutters. A run
counts as closed by its result row, not by its status (`PhaseOf`), which is why finding 1
does not break it.

**Broker and delivery.** `BrokerInvariant` is stated of a pair of values, `Tidy(streams,
queue)`, because every operation begins with `ensure_stream`, which prunes: the stream's
buffer is its consecutive tail, a subscription is to one stream, and the events that wait in
its queue are consecutive and end with the newest. `QueuesFit` says that the `put_nowait`
outside the `try` of `publish` never meets a full queue. A subscriber unsubscribes only from
the run it names (`OnlyIn`). `DeliveryInvariant` joins it with the types of server and tab
and with `Named`: nothing names a run before one was accepted. From it the composition's
steps are steps of the broker; `Cursor = Nat` says that a client may send any `after`, as in
the code.

`NoSilentLoss` needs to know what is in flight: `QueueAccounts` says that every event before
one that waits is known to the tab, or accounted for further ahead in the same queue by
itself or by a gap notice; `Opening` says that a handshake under way asks from a cursor the
tab has reached. With several runs the theorem is false: the timer of an old run (finding 5)
puts the cursor of one run on the stream of another. The hypothesis `OneRun` is the view of
the client that has seen one run, the one `DeliverySafety` checks.

**Workers.** A worker acts between its transactions on what it has read.
`ConInvariant` states what the holder of the claim knows: its window is the oldest part of
what is unread (`ClaimFits`), and whatever lies before the window's end has been processed or
is in it (`WindowsRead`), also for workers whose claim was stolen, so that no late commit can
move the cursor too far. The counter is exact until the newest run is reopened or the thread
archived, and only too high afterwards (`CounterFits`): never too low, so nothing is
forgotten. `PriceInvariant`: while an item is being bought, nothing has been since the
day its run began (`NothingYet`); a midnight in between cannot make two purchases of one day.
`MemInvariant`: the event that is being published is its publisher's own (`WorkFits`), and a
transaction makes at most one version of an entry and announces it (`TransactionFits`),
although its two actions do not see each other. `CaughtUp` is for one publisher: what it has
read and is outdated is covered by another event that is still to be published
(`StaleCovered`). With two publishers this is false, because the covering event may be
published first and the stale read written last (`outbox_worker.py` :106).

**Catalog, services.** `HydInvariant`: the record of a live job knows each caller that
waits for it or says why not (`CallersKnown`), and a request's row in the ledger outlives
the job that made it (`SentKnown`). `AccInvariant`: from the verification of a password to
the commit, the request holds the user's row (`RowHeld`), so no session is opened under a
password that was changed meanwhile. `ColInvariant`: each payment is in the ledger, on its
way to it below the cap, or lost, and each kill loses one at most (`PaymentsFit`).
`SearchInvariant` adds where everything stands: pages behind a platform's position were
taken in before the position moved (`Sound`, of the files and of the memory), no answer is
written for a page beyond the position in the file (`PageFits`), and memory and files agree
outside of a checkpoint (`InStep`). Platforms with imported answers are exempt, because
`import_response` writes answers for any page. `LegacyInvariant`: a question is stored
before its answer and in the thread of its run; what was archived when a walk began has
been seen or is still behind its cursor (`WalkFits`), whatever is archived meanwhile.
For the types of the store, the rest of it is added: times come from the clock, and
what a response or a registration names exists (`StoreFits`).

`OvershootBounded` compares what a job has counted, and what its platforms have stored and not
yet counted, with its cap. Both are sums over platforms, so the proof first shows that such a sum
is the size of a set of pairs (`Sums`), hence changes by what one platform changes
(`SumChanges`). A request is made only below the cap, and from a job's first request on the sum
never exceeds the cap by more than a page of each other platform (`RoomKnown`). Before it the
job has whatever earlier jobs left in its scopes, which may be more.

**Agent loop.** `AgentInvariant`: a group lacks results only behind an interrupted run, or as
the last one while its tools run (`GroupsFit`), so wherever the model is asked every call has
its result. `StepsBounded` counts the supersteps of a run whose routing reads the message
history. `StepsCounted` says that a decision costs four supersteps at most, so it is decisions
that have to be bounded. Below the budget they are. Behind it the decision is forced from what
the history of the turn shows: picks that are not yet summarised, or a summary. The selections
from the history are folds over sequences; that the latest of a turn is found at its position is
shown once (`LatestIs`, `TurnLatest`), and from it that a forced picker is followed by a forced
summary and this by the fallback (`PicksBeforeSummary`, `Spent`, `SpentOn`). The one loop behind
the budget is a fallback that the guard refuses because nothing was searched for, and the guard
gives in at its limit.

**Item picker.** Everything the picker keeps is a list drawn from an earlier one: filtered,
sorted, capped, or reordered by the model. `InOrder` puts a finite set in the order of its
keys, and `AllInOrder` shows that it is a bijection when the keys differ: the tuples the code
sorts by are strictly ordered (`BeforeIsOrder`), so no two members have the same number of members
ahead of them, and there are as many such numbers as members. So what
is drawn at different positions repeats nothing (`DrawnOnce`), and a property of every
member survives every filter and sort. `SelInvariant` says of groups, shortlist and picks
that they are `Pickable`: each offer was in the request and passed its filters, no two offers
have one id (`Together`), and no offer is in two groups (`Grouped`). That the relaxed call
gives a required attribute up only when no offer names it is part of `MayPick`. A model
that repeats ids, invents them or leaves some out draws from the shortlist all the same
(`UsableFits`). For the platforms, the first round of the round robin deals one group to each
platform that has one (`FirstRound`) and is no longer than their number, so what is cut
off behind the limit is a second group of some platform (`Shortlist`), in whatever order the text
index or the vectors put the groups.

**The sums.** `WorkersSideBySide` and `ServicesSideBySide` show that in a sum each part behaves as it
does alone, so what is proved of a part holds of the sum that TLC checks;
`BackgroundTypeCorrect`, `NothingBoughtTwice` and `ServicesTypes` state it for the conjunctions.

**Model-checked only.** Liveness under fairness (`OutcomeShown`, `RequestsReturn`,
`TasksEnd`, `WorkSettles`) and deadlock: both speak of ENABLED, about which TLAPS does not
reason here. Every safety invariant and action property of the passing runs is a theorem. Three of
them have a hypothesis that the run's instance satisfies: `CancelReachesTask` while no database
call has failed, `NoSilentLoss` for one run of the thread, `ProjectionCatchesUp` for one
publisher. A fourth, `UsesBroker`, is proved for `Cursor = Nat`, of which the instance has
the part that its bound on events allows. The findings of section 4 are
counterexamples, not theorems.

No model has a RECURSIVE operator. What rests on a well-founded order (a nonempty set of
message ordinals has a last one, `NewestExists`; a window has an end, `NewestOf`; a list of
candidates has a first that is full; tuples that differ do so at a first place) cites the
library's fact that `<` on `Nat` is well-founded.

## 6. Plan

Models to extend: two runs in view of one tab, and a tab across a restart, which section 3
leaves out of the liveness runs; several tool calls in one decision of the agent.

**Not modelled**, and why: providers and HTTP clients, encoders and indexes (I/O and
arithmetic on vectors); `memory/manager.py` where it retrieves and ranks,
`load_scope_candidates` and the listings of the store (they read); heartbeats, uploads and
schemas of the server; observability, evaluation and the views (nothing else reads their
state); `api/connection.py`, superseded by the broker. A second user of the registry, a
second outbox publisher (compose deploys one; with two, a stale projection can stay, see
`outbox_worker.py` :106), and files torn in the middle of a write are left out.

## 7. Checking

`tlc -config <run>.cfg <module>` with the modules and properties of `PROJECT.json`; the
longest run, `DeliverySafety`, takes two to three minutes with two workers, `Background` and
`Services` one to two.
`tlapm <module>.tla` checks the proofs; each of the eight modules with proofs takes from seconds to
several minutes.
Faulty variants of definitions (comments "Faulty variant") stand before the definition
they vary; `PROJECT.json` says which property each one breaks.
