# Formal models of the trading and observation core

TLA+ modules, TLC configurations and TLAPS proofs about the parts of this
repository where money moves or evidence can be lost: the live execution port
with its durable journal, the RPC client it reads the chain through, the sniper
daemon with its exit worker and position store, the observation loop that feeds
a watcher, the producer of tracked launches with the alert outbox and its
consumers, and the copytrading ("cabal") session. Paths below are relative to
`src/src/rugbot/` of the source tree unless they start with `src/`.

## 1. The system

### Components, their state and operations

| Component | State | Operations | Modelled in |
|---|---|---|---|
| Transaction journal `storage/transaction_state.py` | one SQLite row per intent: state, signed bytes, signature, last valid height | `create_intent`, `store_signed`, `mark_*`, `list_recovery_pending` | `JournalStates`, `jstate` and `jsig` of `LiveExecution` |
| Live execution port `execution/live.py`, landing observer `execution/landing.py`, route `execution/sender/` | none across calls; each call is a coroutine | `submit`, `recover_pending` | `LiveExecution` |
| Landing reconciliation `execution/landing_reconciliation.py` | none | exact balance deltas of a finalized transaction | its outcome is an input |
| RPC client and cache `integrations/solana_rpc.py`, `rpc_cache.py` | SQLite response rows with a time to live; cached blockhash | `post_rpc`, `get_cached_blockhash_context` | `RpcCache`; `TakeBlockhash` and `stored` of `LiveExecution` |
| Sniper daemon `runtime/workers/sniper_daemon.py`, exit worker `position_exit_worker.py` | kill switch, per-market locks, the worker task | `start`, `handle_processed_launch`, `manual_sell`, `toggle_kill_switch`, `run_once` | `SniperDaemon` |
| Position store `storage/sqlite_state_store.py` | one row per open market | `read_all`, `save`, `remove`; handled evidence | `pos` of `SniperDaemon`, `positions` of `ObservationLoop` |
| Risk gate `decision/risk_gatekeeper.py`, `runtime/sniper_runtime.py` | none | allow or deny one BUY or SELL against a snapshot | guards of `SubmitBuy`, `BuyDenied`, `SellDenied` |
| Address history reader `ingest/rpc_observer.py` | none | one bounded read of an address down to a cursor | `AddressHistory` |
| Observation loop and watcher `runtime/workers/observation_loop.py`, `interfaces/cli/watch.py`, `ingest/pump/pump_stream.py` | staged batch, pending signature; raw store, handled ledger | `run_once` over a polling or a streaming source | `ObservationLoop` |
| Tracked launch producer `runtime/workers/tracked_launch_observation.py` | polling tasks with cursors, activations, subscriptions | `start`, `refresh`, the polling and socket tasks, `_deliver` | `TrackedLaunches` |
| Tracker `tracker/service.py`, `storage/tracker.py` | tracked wallets, launches, outbox rows | `handle_launch`, `add_funder`, `remove_funder`, `enqueue_launch_alerts`, `mark_alerts_delivered` | `TrackedLaunches`, `LaunchAlerts` |
| Event bus `runtime/event_bus.py` | handler list | `publish` | `Publish` of `LaunchAlerts` |
| TUI `interfaces/tui/app.py`, Discord bot `interfaces/discord/adapter.py` | the live feed; keys of posted events | start, drain, event handler | `LaunchAlerts` |
| Cabal executor `execution/cabal_executor.py`, pool `execution/wallet_pool.py` | positions, cash, wallet leases | `enter_position`, `update_price_tick`, `exit_position` | `CabalExecutor` |
| Cabal pipeline `runtime/cabal_pipeline.py`, its command `interfaces/cli/cabal.py` | seen signatures, baseline | poller, stream, ticker | `CabalPipeline` |
| Exit rules, entry rules, sizing, quotes, fees `decision/`, `domain/` | none | pure decisions and prices | the decision is an input |
| Own launches `execution/launch/` | the launch's exit plan | stages of an exit | not modelled |
| Discovery, intelligence, analysis, backtest, simulation, scalper, third-party clients | SQLite tables, datasets | queries, heuristics | not modelled |
| Builders and firewall | none | construct and validate instructions | `BuildError` |

### How they interact

A process is one asyncio loop, and an action of a model is the code between two
awaits.

*Trading.* A launch reaches `handle_processed_launch`, which takes the market's
lock, awaits the wallet's balance, asks the gate and awaits `submit`. The exit
worker reads all positions, awaits their evidence and awaits `submit` for a
SELL; manual sells do the same from the UI at any time. `submit` writes each
step to the journal before the network sees it; after a crash `start` awaits
`recover_pending` and opens the positions of BUYs it reconciled. Every read of
the chain goes through `post_rpc` and its cache, shared by all callers and all
earlier processes. The CLI awaits `start` before it consumes launches; the TUI
starts the daemon while its UI already runs, so manual sells can happen during
recovery: guards of `SniperDaemon` say `stage # "down"` for them and
`stage = "running"` for launches. `LiveExecution` lets `submit` calls run during
recovery: nothing in the port forbids it.

*Watching.* A watcher runs one cycle after another: read a batch from its
source, store each observation, handle it (advance positions, maybe trade, save
the position), append it to the ledger, acknowledge the batch. The polling
watcher builds its source and its handler anew for every cycle and restores its
cursor from the two stores; the streaming one keeps its source for the life of
the process.

*Alerting.* The producer runs in one process, its host: the TUI's or the Discord
bot's, each with a core and an event bus of its own over one database. Three
tasks of it bring creates to `handle_launch`, which writes the launch with one
outbox row per consumer and publishes its event to the host's subscribers. The
other process learns of a launch from the outbox, when it starts. `refresh` is
called by the PumpPortal task whenever wallets and tasks differ and by the web API,
without a lock between the two.

*Copytrading.* A poller, a stream and a ticker share one executor. With the paper
adapter an awaited order does not suspend, so each of them goes through its loop
undisturbed; with an adapter that suspends they interleave at every order.

### What is hard

- crashes between the journal's steps, between journal and position store,
  between a trade and its ledger row, between a launch and its event;
- concurrent `submit` calls for one intent, sells of one position, a
  price tick against an exit, two feeds' BUYs on one balance, two refreshes;
- acknowledgements that are lost, transactions that execute after their caller
  gave up, retries of what may still execute, one create brought by three feeds;
- answers from a cache that are older than the decision taken on them;
- bounded reads at their bounds, batches that fail half way, notifications that
  are dropped;
- loops that must go on: failover, polling, exit cycles, observation cycles.

The list with lines is `hazards` in `PROJECT.json`; each names the properties
aimed at it, or why there is none.

### What makes each component correct

- journal and port: an intent takes effect at most once, only durable bytes are
  sent, a record never lies about the chain, terminal records stay terminal, an
  accepted receipt is final;
- cache: bounded staleness, a reported landing is true, calls and waits end;
- daemon: positions are bought tokens, tokens in the wallet stay visible to the
  exit worker, a launch is entered once, cycles end;
- observation loop: transactions are recorded in the order of the chain, without
  a gap when the chain itself is read, never with two trades half done, and what
  can be handled is handled in the end;
- producer: one durable alert per launch and at most one early event, no cursor
  passes an undelivered launch, a due launch becomes durable in the end, all of it
  also when two tasks poll one wallet;
- alerts: a row is marked only when somebody could see its launch, a start leaves
  no gap, a launch is posted once;
- copytrading: leases, tokens and cash add up, a trade that is remembered is not
  copied twice, a new trade is handled in the end.

## 2. Modules

`JournalStates` holds the journal's vocabulary: states, the recovery list and
the source states of every transition. It has no state.

`AtMostOnceExecution` is the abstract specification of the execution side: one
decision per intent, with `phase` (new, handed over, done, void, given up) and its
effects on the chain. A decision given up after it was handed over may have taken
effect before; nothing happens after a decision is closed. `LiveExecution` and the
BUYs of `SniperDaemon` both implement it.

`LiveExecution` is the port over the journal, one route and the chain.
A signed transaction is named by the height of its blockhash, so one intent
signed on two blockhashes is two transactions. `pc[c]` is the await a `submit`
call stands at, or its receipt:

| `pc` | position in `submit` | left by |
|---|---|---|
| `building`, `simulating` | policy, accounts, blockhash, simulation | `TakeBlockhash`, `BuildError`, `BuildAbandoned`, `Sign`, `SignRejected` |
| `signed` | between `store_signed` and `mark_submitted`, no await: `LoopFree` keeps other tasks out, but not a crash | `MarkSubmitted` |
| `routing`, `awaitAck` | inside `route` | `Broadcast`, `RouteAcked`, `RouteRejected` |
| `polling` | `wait_for_finalized_signatures` | `PollConfirmed`, `PollExecutionFailed`, `PollGaveUp` |
| `reconciling` | `reconcile_finalized_landing` | `Reconcile`, `ReconcileUnavailable` |

`rpc` is the await of `recover_pending`, with `snap` the states in the list it
read, `todo` the records it has left and `cur` the one it awaits on. `stored` is
the status answer the response cache holds: `Answered` is what `post_rpc` says.
`Promise` instantiates `AtMostOnceExecution` with the refinement mapping
(`Decision` of the record; successful executions of the chain).

`RpcCache` is `post_rpc`, the cache table and the polling loop over it, with
ages instead of clock readings. What a node would answer is a version number: 0
is the null answer, `MaxVersion` the last one. JSON-RPC errors are answers with
a flag. `history` fields (an answer's age, `late`) are read by no guard.

`SniperDaemon` is the daemon, the worker, manual sells and the position store,
over the promise of the port: a BUY is entered once, executes at most once, maybe
after its `submit` returned; SELLs each execute at most once, maybe late (`late`).
`BuyPort` instantiates the promise (`BuyPhase` of the record and the execution).
`held` is the wallet. Decisions of the exit rules, policies and balances are
nondeterministic. One market has one launch (the intent id of a BUY is made from
the launch); a SELL has a new intent id in every slot.

`AddressHistory` is what one read of an address returns, as pure operators over a
history of finalized transactions: `SignatureHistory(tip, cursor)` in closed form
and `PageLoop`, the page-by-page walk of the code it sums up (`PageTurn` is one turn). `ObservationLoop`
and `TrackedLaunches` extend it.

`InOrderHandling` is the abstract specification of a watcher: transactions are
recorded in chain order, and nothing successful is left out between two recorded
ones if the source is gapless.

`ObservationLoop` is `run_once` over both sources; `Promise` instantiates
`InOrderHandling` with `gapless` true of the polling source. `pc` is the place in
the cycle:

| `pc` | position in the code | left by |
|---|---|---|
| `reading` | `source.read()` | `ReadStaged`, `ReadHistory`, `Connect`, `ReceiveNotification`, `NotificationLost`, `Hydrate` |
| `handling` | the loop over the batch | `SkipHandled`, `Persist`, `Acknowledge` |
| `advancing`, `deciding`, `bought` | inside the handler | `AdvanceOpenPositions`, `NothingToBuy`, `Submit`, `RejectRepeat`, `SavePosition` |
| `recording` | `ledger.append` | `Record` |
| `polling` | `poll_open_positions` after a polled cycle | `PollOpenPositions` |

Any step of a cycle may end it with a partial report (`CycleAbstains`) or the
process (`Crash`). Two refusals come back in every cycle and count as no fault: a
market that is bought or an intent that is journaled (`RejectRepeat`), and a launch
of the kind `refused`, whose evidence is found wanting whenever it is looked at
(`RejectForGood`: the resolver, the candidate, the entry rules, the sizing). `MCObservationLoop` compares the closed form of the read with
its page loop for 72 combinations of bounds besides the run's own.

`TrackedLaunches` is the producer with the tracker service. A polling task is
`<<wallet, number>>`; `tasks` is the registry, `running` what is alive, so that
a task can be one without the other. `refresh[r]` is a call of `refresh` with the
locals it carries over its two awaits (`resolving`, `resolved`, `subscribing`);
`"feed"` is the call of `start()` and then of the PumpPortal task, any other `r` a
request of the web API, and they overlap. `feedTask` and `hydrating` are the two
socket tasks. `alerts` counts the events of `handle_launch`, `early` those that the
PumpPortal task publishes on a notification, before anything is finalized or
durable; `historical` is what a task passed over as not later than the activation.
`Deliver` takes items, an
observation or a nested batch, as `_deliver` does, of which only the first decode.

`LaunchAlerts` is the way from a stored launch to the people who want to know: the
outbox, the bus (a synchronous handler runs inline, a coroutine becomes a task)
and both consumers, each in a process that may end at any time. `attempts` and
`sending` are what waits for Discord between the check of a key and its addition.

`CabalExecutor` is the wallet pool and the executor: an order an actor awaits is
in `orders[a]`, with what was read before the await; the loops over positions
are in `queue[a]`. `CabalPipeline` extends it with the poller, the stream and the
ticker of one tracked wallet. `MayRun` is where the two adapters differ. `Prune` is
the cut of `_seen_signatures`: any part of the wallet's signatures may go, with a
signature of its own (`Remember`) or of another wallet (`PruneSeen`), and `forgotten`
remembers which went. An entry may have any size within the bounds of the sizing.

`LiveExecutionProofs`, `LiveExecutionRefinement`, `RpcCacheProofs`,
`SniperDaemonProofs`, `ObservationLoopProofs`, `TrackedLaunchesProofs`,
`LaunchAlertsProofs` and `CabalProofs` hold the proofs about the modules they are
named for (`CabalProofs`: `CabalPipeline` with its executor).

Mutants (`Mutant:` in a comment before an operator) are deliberately wrong
variants of the operator after them. Each property is violated when one of them
takes that operator's place; the table is in `PROJECT.json`.

## 3. Runs

| Run | What it asks | Instance |
|---|---|---|
| `LiveExecution_race` | types; only durable bytes go out (`OneDurableBroadcast`); the journal is true of the chain (`JournalMatchesChain`); one of two racing calls wins (`OneWinner`); accepted means final (`AcceptedIsFinal`); what recovery leaves was submitted (`RecoveryLeavesOnlySubmitted`); terminal records and signed bytes are stable (`RecordsAreStable`); the port implements `AtMostOnceExecution` (`KeepsPromise`); calls return (`SubmitReturns`); unsent records are decided after a crash unless recovery raises (`UnsentDecidedAfterCrash`) | one intent, two calls, two crashes, two heights, validity 0: 151 380 states |
| `LiveExecution_expired` | violated: EXPIRED means absent | one intent, one call |
| `RpcCache_wait` | types; a served answer is at most `Ttl + Latency` old (`BoundedStaleness`); a reported landing is true (`WinnerIsFinal`); a post and a wait end (`CallersReturn`) | one caller, a volatile and an immutable request, two endpoints, two polls |
| `SniperDaemon_positions` | types; positions are bought (`PositionIsBought`); the store covers the wallet (`NoTokensForgotten`); one entry per launch (`EntriesAreNotRepeated`); exit cycles end (`CyclesEnd`) | one market, two deliveries, a manual sell, the worker, three tokens, one crash: 59 440 states |
| `SniperDaemon_restart` | violated: a restart resumes positions | one market |
| `ObservationLoop_order` | types; a trade and its record stay together (`TradesAreRecorded`); the loop implements `InOrderHandling` (`HandlesInOrder`); what can be handled is handled in the end (`HandledInTheEnd`); the bounded read is what the page loop returns (`ReadIsThePageLoop`) | both sources, four transactions, two faults, pages of two, two pages, two transactions per read: 204 988 states |
| `TrackedLaunches_delivery` | types; one alert of `handle_launch` per launch, never before it is durable, and one early event at most (`OneAlertPerMint`); no cursor passes an undelivered launch (`AcknowledgedIsDelivered`); a due launch becomes durable in the end (`DueIsLaunched`) | one wallet, two callers of `refresh`, two tasks, two transactions, reads of two, one fault: 168 792 states |
| `TrackedLaunches_native` | violated: the native stream delivers | one wallet |
| `LaunchAlerts_delivery` | types; a marked row was seen (`DeliveredWasSeen`); the TUI's start leaves no gap (`TuiOutboxDrained`); a launch is posted once unless two attempts overlapped (`PostedOnce`) | both hosts, two launches, two faults: 315 493 states |
| `LaunchAlerts_startup` | violated: the startup drain delivers | one launch, no fault |
| `CabalPipeline_session` | types; wallet counts are positions and orders (`LeasesMatchPositions`); what was bought is sold once (`SoldOnce`); the balance covers the entries (`BalanceCoversEntries`); the poller in paper mode repeats only what a pruning took out (`PollerNeverRepeats`) and passes no trade it did not copy (`PollerPassesNothing`); new trades are handled in the end (`NewTradesHandled`) | both adapters, two trades, two positions, one wallet of the pool, one fault, one pruning: 563 100 states |
| `CabalPipeline_baseline` | violated: history is not replayed | two trades, no fault |

Why the bounds are enough to be interesting. Two heights with validity 0 give two
blockhashes that can be signed, one of which expires, and one that can race a
rebroadcast; two crashes allow one inside the recovery after the first. Three
heights with validity 1 and one crash were checked as well. Intents share nothing
but the recovery list, so the second intent is left to the proofs, which hold for
any number. Three tokens let two different partial sells overlap with a full one
and make the rounding of a half visible. A Ttl of one with a latency of one lets a
row be served at its limit and after it; the overlap of two callers on one row is
covered by the theorem, and was checked with two callers.

Four transactions with reads of at most two reach every outcome of a read: the
first page cut short, a full read, and a history that outgrew its bounds. Two
faults allow a crash after a rejection, or a crash on each side of a trade.
`ReadIsThePageLoop` leaves the instance's own bounds and compares the read for all
page sizes up to 3, limits up to 4, up to 3 pages, with and without `until`, on
every history up to four.

In `TrackedLaunches_delivery` reads of two let a delivery fail in the middle of a
batch, and the one fault is that failure's wallet being tracked or untracked, a
crash, a slot that is not resolved or a lost notification; a delivery that raises
costs no fault. Tracking the wallet after an empty start is enough for both callers
to find it new, wait for the slot together and start two tasks of it. Reads of one,
which make the newest page leave one out and let the history outgrow a read, were
checked on the same instance, and four faults with one caller. Two wallets only
multiply states that do not meet, because every action is about one wallet or about
a set of them at once. No property and no theorem limits the callers.

Two launches are needed for the order of a drain and for a broadcast of one beside
the durable event of the other, two faults for a failed mark followed by a restart.
One pruning is enough for a trade the stream brought to be listed again. One pool
wallet at its limit of one makes a second BUY exceed it, and a balance of
one and a half entries makes the second one unaffordable unless two feeds are
ahead of the debit. The sizing of the run always comes to the same raw amount; the
theorems hold for any, and the same instance with two amounts was checked once
(1 132 976 states).

`CHECK_DEADLOCK FALSE` stands where the environment really may stop: a bounded
history that is handled, a session that ended, faults used up.

### Fairness

- `LiveExecution`: weak fairness of each call's steps, of recovery and of the
  restart. The event loop runs every ready coroutine, the sender and RPC calls are
  bounded by the timeout of the HTTP session, and the process is supervised.
  Nothing is asked of callers, the chain or crashes.
- `RpcCache`: weak fairness of each caller's steps, for the same reason. Strong
  fairness of `Tick`: a caller that starts again at once on a cached answer
  would otherwise hold time still, which no clock does.
- `SniperDaemon`: weak fairness of the worker's own steps and of the receipt of
  its SELL, which is `SubmitReturns` of the port. None of launches, manual sells,
  the chain or the operator.
- `ObservationLoop`: weak fairness of the watcher as a whole: a cycle follows a
  cycle, and a node that fails to answer is asked again and answers in the end.
  None of the chain, of faults or of reconnections that never come.
  `HandledInTheEnd` excuses a watcher that stays wedged (`Wedged` lists how), and
  what comes behind a launch that is always refused (`BehindRefused`), at any time
  and not only when it stays so: everything before it must still be handled.
- `TrackedLaunches`: weak fairness of the read and of the delivery of each polling
  task, whose loop repeats after the poll interval. None of `refresh` or the sockets.
- `CabalPipeline`: weak fairness of each actor's orders, which the adapter answers.
  `NewTradesHandled` says that again and again nothing is left to handle, because the
  bound on the trades ends the wallet's trading. Strong fairness of the poller: the loop runs ready tasks in turn, but in paper
  mode the poller has to wait for the ticker's loop to come to its sleep, so that it
  is enabled again and again rather than all the time.
- `LaunchAlerts` states no fairness: its properties are about what is never lost or
  doubled, and nothing in the code retries a failed send before the next start.

## 4. Proofs

All are for every value of the constants: any number of intents, calls and
crashes; any callers, requests, time to live and latency; any finite set of
markets; any history, bounds of a read and faults; any wallets, launches, hosts,
balances, entry sizes and ladders. The assumptions are the named ones of the
modules: natural bounds, a finite set of markets, and sentinels that are no element
of the sets they stand beside. One theorem of `SniperDaemonProofs` also assumes that
deliveries are finitely many.

| Module | Theorem | States |
|---|---|---|
| `LiveExecutionProofs` | `TypeCorrect` | `Spec => []TypeOK` |
| | `OneDurableBroadcastCorrect` | `Spec => []OneDurableBroadcast` |
| | `JournalMatchesChainCorrect` | `Spec => []JournalMatchesChain` |
| | `OneWinnerCorrect` | `Spec => []OneWinner` |
| | `AcceptedIsFinalCorrect` | `Spec => []AcceptedIsFinal` |
| | `RecoveryLeavesOnlySubmittedCorrect` | `Spec => []RecoveryLeavesOnlySubmitted` |
| | `RecordsAreStableCorrect` | `Spec => RecordsAreStable` |
| | `CallsMoveOnCorrect` | `Spec => CallsMoveOn` |
| | `RecoveryMovesOnCorrect` | `Spec => RecoveryMovesOn` |
| `LiveExecutionRefinement` | `KeepsPromiseCorrect` | `Spec => KeepsPromise` |
| | `PromiseIsAtMostOnce` | `Promise!Spec => []Promise!AtMostOnce` |
| | `ExecutesAtMostOnce` | `Spec => []Promise!AtMostOnce` |
| `RpcCacheProofs` | `TypeCorrect` | `Spec => []TypeOK` |
| | `BoundedStalenessCorrect` | `Spec => []BoundedStaleness` |
| | `WinnerIsFinalCorrect` | `Spec => []WinnerIsFinal` |
| | `CallersMoveOnCorrect` | `Spec => CallersMoveOn` |
| `SniperDaemonProofs` | `TypeCorrect` | `Spec => []TypeOK` |
| | `PositionIsBoughtCorrect` | `Spec => []PositionIsBought` |
| | `NoTokensForgottenCorrect` | `Spec => []NoTokensForgotten` |
| | `EntriesAreNotRepeatedCorrect` | `Spec => EntriesAreNotRepeated` |
| | `ExposureBoundedCorrect` | finite `Deliveries` give `Spec => []ExposureBounded` |
| | `NothingLostWithoutCrashCorrect` | `Spec => []NothingLostWithoutCrash` |
| | `CycleMovesOnCorrect` | `Spec => CycleMovesOn` |
| | `BuysKeepPromiseCorrect` | `Spec => BuysKeepPromise` |
| `ObservationLoopProofs` | `TypeCorrect` | `Spec => []TypeOK` |
| | `TradesAreRecordedCorrect` | `Spec => []TradesAreRecorded` |
| | `HandlesInOrderCorrect` | `Spec => HandlesInOrder` |
| | `PositionsHaveEvidenceCorrect` | `Spec => []PositionsHaveEvidence` |
| | `PromiseLeavesNothingOut` | `Promise!Spec => []Promise!NothingBetween` |
| | `NothingLeftOut` | `Spec => []Promise!NothingBetween` |
| | `PageLoopIsHistory` | `PageLoop = SignatureHistory` for every bound, tip and cursor |
| | `ReadIsThePageLoopCorrect` | `Spec => []ReadIsThePageLoop` |
| `TrackedLaunchesProofs` | `TypeCorrect` | `Spec => []TypeOK` |
| | `OneAlertPerMintCorrect` | `Spec => []OneAlertPerMint` |
| | `AcknowledgedIsDeliveredCorrect` | `Spec => []AcknowledgedIsDelivered` |
| `LaunchAlertsProofs` | `TypeCorrect` | `Spec => []TypeOK` |
| | `DeliveredWasSeenCorrect` | `Spec => []DeliveredWasSeen` |
| | `TuiOutboxDrainedCorrect` | `Spec => []TuiOutboxDrained` |
| | `PostedOnceCorrect` | `Spec => PostedOnce` |
| `CabalProofs` | `TypeCorrect` | `Spec => []TypeOK` |
| | `LeasesMatchPositionsCorrect` | `Spec => []LeasesMatchPositions` |
| | `SoldOnceCorrect` | `Spec => []SoldOnce` |
| | `BalanceCoversEntriesCorrect` | `Spec => []BalanceCoversEntries` |
| | `PollerNeverRepeatsCorrect` | `Spec => []PollerNeverRepeats` |
| | `PollerPassesNothingCorrect` | `Spec => []PollerPassesNothing` |

Few of the invariants are inductive alone. In each module the inductive one is a
conjunction of what each part of the state knows.

`LiveExecutionProofs`:

- `RecordInv`: what a journal record implies about its signed bytes and the
  chain (an unsent record has nothing on the wire, a confirmed one is final);
- `StoredInv`: a final status in the cache is the chain's. It is needed
  because receipts are written from cached answers: an old `absent` is harmless,
  an old final answer is not old;
- `CallInv`: a call past signing holds the bytes its record stores, and at most
  one such call exists per intent;
- `TodoInv`, `CurInv`: what recovery's stale list still implies about the record
  it acts on;
- `ListedInv`: what recovery has dealt with stays dealt with.

The argument is that only `Sign` writes signed bytes and only from INTENT, so
the first call to sign excludes all others (`OnlySignEnters`), and that chain and
records only move forward (`Progress`, proved once for every action), which keeps
each part true under the steps of the others.

`LiveExecutionRefinement`: a step of the port maps to a step of the promise or a
stutter. At most one record moves in a step, and then the chain does not
(`OneRecordMoves`); at most one transaction takes effect in a step, and then no
record moves. What is left is one intent: its record's moves are the promise's
moves of a decision, and a transaction that takes effect belongs, by
`OneDurableBroadcast` and `RecordInv`, to a decision that was handed over and has
had no effect. `ExpiredInv` rules out the EXPIRED ones: `CheckHeight` saw a height past
the last valid one, heights only grow, and nothing lands after it, so that an EXPIRED
record can be wrong about the past only (`LiveExecution_expired`).

That the promise is worth keeping is proved of the abstract specification alone
(`PromiseIsAtMostOnce`: a decision has at most one effect, none while it is new or
once it is void) and carried over by the refinement (`ExecutesAtMostOnce`).

`RpcCacheProofs`: an answer in a row is older than the row by no more than a
request lasts (`RowFact`), an answer on its way no older than its request
(`CallFact`); the two ages start at different moments and only their difference is
bounded. `GotFact` and `LoopFact` carry this to what a caller was served. `SleepInv`
(a wait that sleeps has no post out) is what the count of `CallersMoveOn` needs.

`SniperDaemonProofs`:

- `MarketFact`: a row is of a position that was opened from an executed BUY, and
  covers the wallet;
- `SellerFact`: a sell in flight saves no less than the wallet will hold then:
  `left` covers it once the sell has landed, `amount + left` before;
- `ExitInv`: what the worker read covers the wallet. Rows change under the worker
  and the sells; what keeps both facts is that the wallet only shrinks once a
  position is open (`EntriesAreNotRepeated`);
- `TaskInv`, `RecoverInv`: deliveries belong to the running daemon, recovery
  restores only BUYs it reconciled, so nothing opens a position twice;
- `FirstRunInv`: before the first crash a reconciled BUY was saved by the delivery
  that reconciled it, in the same turn of the loop;
- `ExposureInv`: the positions open and never closed (`NeverClosed`) and the BUYs
  the gate let pass (`Admitted`) are together fewer than `MaxOpen` and all
  deliveries. The gate compares rows, so every admitted delivery saw fewer than
  `MaxOpen` of them, and each becomes at most one position (`ExposureCases`). The
  count is of finite sets, hence the hypothesis that `Deliveries` is finite: only
  finitely many launches are on their way at once;
- `LockInv`: a submitted delivery is alone with its market, whose BUY is open.

`BuysKeepPromise` ties this module to `LiveExecution`. The daemon's model has its own,
coarser port; `BuysKeepPromiseCorrect` says that what it does to a BUY is what
`AtMostOnceExecution` allows, `KeepsPromiseCorrect` that the detailed port keeps the
same promise. Conversely each step of the promise is one the daemon's model takes:
`SubmitBuy` hands over, `BuyLands` takes effect, `BuyAccepted`, `CrashBeforeSave` and
`Recover` complete, `BuyNotAccepted` and `Recover` void or give up. In particular
`BuyLands` may ask for an open record, because of `ExpiredInv` above.

`ObservationLoopProofs`:

- `BatchInv`: what is left of a batch is not recorded, what was gone through is;
  stores only hold successful transactions, in the order raw, ledger;
- `OrderInv`, `FeedInv`: an unrecorded batch, and everything still announced, is
  newer than every record. This is what survives a crash of the stream, whose
  announcements are then gone;
- `GapInv`: the records, and the records with the batch, have no hole. A batch
  read from the cursor starts right after the newest record, which needs the next
  part for the first read of all;
- `WindowInv`: before anything is recorded every read starts from the newest page,
  and what fell out of it never comes back, so a launch submitted and not recorded
  is still the oldest of any later batch;
- `HalfInv`, `TradeInv`: a launch half done is the next one due.

From these every `Record` is a step of `InOrderHandling` and every other step
stutters or finalizes. `PromiseLeavesNothingOut` sums up what those steps amount to,
by `ChainTyped` and the two step lemmas of the abstract specification, and
`NothingLeftOut` carries it over.

`PageLoopIsHistory` is the one recursion proved about. The closed form, page by page
(`From`), is a solution of the equation of the loop, which is arithmetic of the
multiples of a page size (`Multiples`, `Quotient`, `EndOfPage`); and the equation has
one solution (`OneSolution`), because among the pages where two of them differed there
would be a last one. The induction is that minimum (`LeastOf`, from the well-founded
order of the finite sets), since the induction schemes of the library take an
operator, which none of the provers instantiates. `ReadIsThePageLoop` compares
seventy-two bounds at every length of the history; the theorem holds for all bounds.

`TrackedLaunchesProofs`: `TypeOK`, and that an alert and its durable launch are
written in one step (`Delivery`), are inductive together; `EarlyInv` says that a
create the feed still holds, or that is not there yet, has no early event. For
`AcknowledgedIsDelivered`, `RestInv` says that a task which is not alive holds
nothing, `FinalInv` that what is finalized was processed, and `ReadInv` that a batch
leaves out no create between cursor and end (`BatchComplete`, from the closed form of
the read). Nothing is said of the registry, so that overlapping refreshes need no
assumption: a task that was started twice or outlives its registration keeps the
invariant with its own cursor.

`LaunchAlertsProofs`: `KeyInv` says what a key is evidence of, `SenderInv` that an
attempt past its check is alone with its launch unless `overlapped` says otherwise.

`CabalProofs`: `OrderInv` and `PaperInv` say what an awaited order implies of its
actor (in paper mode at most one actor is in the middle of something); `CashInv`
what the balance still covers of the BUYs on their way; the counts of a wallet are
compared by the cardinalities of its positions and orders under every step.
`ListSafe` says that a trade handled is seen or forgotten, whatever is pruned and when.
`PassInv` says of the poller's list what `PollerPassesNothing` says of its cursor: what
is older than a listed trade is handled or listed too. The run's page holds every trade
of its instance, so that `Missed` never excuses one there; the theorem covers
shorter pages.

Liveness needs fairness and stays with TLC; what the code itself contributes to it is
proved. `CallsMoveOn`, `RecoveryMovesOn`, `CallersMoveOn` and `CycleMovesOn` give a
call, a recovery, a caller of the RPC client and an exit cycle the number of steps
each has left (`CallWork`, `RecoveryWork`, `Work`, `CycleWork`) and say that every step
of its own lowers it and nobody else's raises it: seven steps for a `submit`, `7n + 1`
for a recovery that listed n records, `4n + 1` for a cycle over n positions,
`(MaxPolls + 1) * (2 * Endpoints + 4)` for a wait. With weak fairness of those steps,
and as long as one of them is enabled, that is `SubmitReturns`, the end of recovery
behind `UnsentDecidedAfterCrash`, `CallersReturn` and `CyclesEnd`. That a step is
enabled is the part that only TLC checks. The list of a recovery is finite for any set
of intents, because the journal is (`FiniteInv`: a step adds one record at most).

TLC checked the inductive invariants on small instances before they were proved.
Properties that have a theorem and no run (the ones of the previous paragraph,
`ExposureBounded`, `NothingLostWithoutCrash`, `BuysKeepPromise`, the promises `AtMostOnce` and
`NothingBetween`, `PositionsHaveEvidence`) add to what the runs ask; TLC was asked
about `ExposureBounded` with three markets and two deliveries, which is where two
launches pass the gate together, and about `BuysKeepPromise` and the step counts of calls, recovery and callers on the
instances of the runs.

Only model-checked: liveness (`SubmitReturns`, `UnsentDecidedAfterCrash`,
`CallersReturn`, `CyclesEnd`, `HandledInTheEnd`, `DueIsLaunched`, `NewTradesHandled`),
which the proof system does not reach, and the counterexamples of the next section.
Every other property of a passing run has a theorem.

## 5. Where code and its own words disagree

Checked, each by a run that ends in a counterexample:

- `LiveExecution_expired`: recovery expires what it did not see *final*, also when
  the transaction is in a block or only a cached answer says it is absent. An
  EXPIRED BUY that executed never becomes a position.
- `SniperDaemon_restart`: RECONCILED is durable before the position is, and a
  RECONCILED record is not in the recovery list.
- `TrackedLaunches_native`: the native WebSocket task wraps a batch in a batch, and
  `_deliver` drops what does not decode.
- `LaunchAlerts_startup`: the startup drain of the Discord bot runs before the
  login, when it knows no channel, and skips every record.
- `CabalPipeline_baseline`: the baseline signature is also a seen one, so the
  comparison that should end the walk is never reached: older trades are copied.

Met while modelling, with the statement kept in its module. None of these
definitions is in a configuration of this directory; adding it to the cfg named
makes TLC print a counterexample, unless noted.

| Statement | Module, cfg | What happens instead |
|---|---|---|
| `PollsSeeTheLanding` | `RpcCache`, a Ttl above the number of polls | the first look of a wait stores its answer for 60 s; the polls of about 10 s read it back |
| `ForeverIsImmutable` | `RpcCache_wait` | immutability is judged from the request alone: a null answer to a finalized `getTransaction` is kept for ever |
| `ClosedStaysClosed` | `SniperDaemon_positions` | a HOLD saves the position as it was read before its evidence was awaited; a manual sell that removed the row meanwhile is undone |
| `WorkerKeepsPolling` | `SniperDaemon_positions` | one failed slot lookup ends the exit task; launches are still bought |
| `NoEvidenceSkipped` | `ObservationLoop_order` | a streaming watcher whose socket was down records a newer create and never comes back to the ones in between |
| `HealthyPollReturns` | `ObservationLoop_order` with `BoundaryInPage = FALSE` | on an endpoint where `until` is exclusive the boundary is never on a page, so a read with new signatures that do not fill it abstains |
| `HistoricalNotAlerted` | `TrackedLaunches_delivery` | the PumpPortal task delivers a tracked create whatever its wallet's activation |
| `RemovedSourcesStop` | `TrackedLaunches_delivery` with two faults | two overlapping refreshes start two tasks of one wallet and register one; the other is never cancelled, so that a wallet is polled twice, and on after its removal |

`NoTokensForgotten` and `ClosedStaysClosed` are the two sides of one choice: the
worker saves absolute amounts it computed before it awaited. The store may show
more than the wallet holds (a later sell of it fails), never less.

Behaviour of the code that the models have and a reader may not expect:

- `recover_pending` may return with SUBMITTED records; `post_rpc` stores JSON-RPC
  errors; a restored BUY can exceed `max_open_positions`, which counts rows, not
  orders that are out. Without a restart the excess is at most the launches that are
  under way at once, less one (`ExposureBounded`).
- A crash between the submission of a launch and its ledger row wedges a polling
  watcher: the launch comes back in every batch, the port refuses the repeated
  intent, and the batch is never acknowledged. `TradeUnrecorded` names it.
- A launch that the handler refuses whenever it looks at it (`RejectForGood`) ends the
  batch in every cycle of a polling watcher and gets no ledger row, so that nothing
  behind it is ever handled (`BehindRefused`).
- The PumpPortal task publishes a `LaunchDetected` on the notification, whoever created
  the launch and however the transaction ends; `handle_launch` publishes another one.
- An overtaken `refresh` may set an activation back to an older slot: a create that a
  task passed over under the newer one is then later than the activation, and
  `DueIsLaunched` excuses it (`historical`).
- The set of seen signatures has no order, so that its pruning may forget the newest
  ones; a trade of the stream that it forgets is copied again by the poller while it
  is on the page and the last signature does not end the walk before it.
- A streaming watcher reads a batch that was rejected again at once, without the
  pause of a poll; an announced create that never finalizes blocks its source for
  good (`Orphan`); a notification whose slot lookup or processed handler raises is
  gone (`NotificationLost`).
- The polling watcher has a new handler in every cycle, so cooldown and hourly
  limits start anew with it. Positions and trades of the watch handler exist only
  in poll mode; the streaming handler observes.
- The first read of an address without a cursor takes the newest page only.
- An early broadcast makes the durable event of the launch return without marking
  its row, so that a restart posts it again; two attempts that wait for Discord at
  once post twice (`PostedOnce` excuses just these).
- A position closed while the ticker goes through its list raises and ends the
  copytrading session (`stopped`). With an adapter that suspends, the poller and the
  stream may copy one trade twice. A BUY's receipt is not looked at.
- `RugbotApp` calls a `refresh_launch_observation` of its core that no class
  defines (`interfaces/tui/app.py:2869`), and nothing calls
  `drain_pending_discord_alerts`: `DemandDrain` models it as offered.

## 6. Abstractions, and what is left out

- `submit` is modelled with one route. Only the last poll of a wait acts in
  `LiveExecution`: the earlier ones decide nothing; the loop is in `RpcCache`.
- The order of the recovery list is any order. Timestamps are dropped: whether a
  repeated mark is equal to the stored one is a free choice.
- SQLite statements are atomic. I/O errors are modelled where the code handles
  them: the response cache swallows them, a cycle of the watcher abstains, the mark
  of an outbox row is suppressed.
- The economic identity that `create_intent` compares is constant per intent.
- Amounts other than the position size, prices, tiers, policies, filters and
  balance checks of the sniper are the decision they lead to. In the copytrading
  session every fill is at one price, so that tokens are counted in cash.
- A transaction is its place in its wallet's history; a slot is compared by that
  place, and validation of responses is a read that fails.
- A create the PumpPortal feed repeats, and a launch of a wallet nobody tracks, are
  one action each. Cluster reloads and alerts of the cabal session are left out.
- The cancellation of a polling task, which `refresh` awaits, happens at once.
- The set of seen signatures is shared by all wallets, so that its limit may be
  passed at any signature; how many prunings there are is bounded (`MaxPrunings`).
- A position save of the sniper daemon that raises after the fill, in a process that
  goes on, is not modelled (a crash at that moment is); one of the watcher ends its
  cycle (`CycleAbstains`).
- A crash ends a process and keeps stores and chain; corrupted storage is out.
  `stop()` of the daemon and of the producer ends tasks between their awaits: it is
  a crash at that moment, with less lost.

Not modelled, and why:

- *Exit rules, entry rules, sizing, risk arithmetic, quotes, fees*: pure functions,
  partly over floats. Unit tests reach them; the models take their outcome as an
  input and lose no interleaving by it.
- *Landing reconciliation*: arithmetic of balance deltas; its outcome is an input.
- *Own launches, Jito bundles, trade service, builders, firewall*: construction and
  one-shot submission without durable state or a task of their own. Their failures
  are those of `BuildError` and of the route.
- *Discovery, intelligence, entity graph, analysis, backtest, simulation, scalper*:
  the larger part of the code by lines; batch computations over recorded or
  third-party data, without concurrency and with heuristics no promise is made of.
- *TUI, web, Telegram, other CLI commands*: presentation, apart from the parts named
  in section 1.
- Parked polling (`poll disabled`) of the producer, backfills and the Helius
  full-history path of the reader, mode switches and telemetry of the daemon.

## 7. Plan

Done, in this order: `JournalStates`, `AtMostOnceExecution`, `LiveExecution`,
`RpcCache`, `SniperDaemon` with their proofs; `CabalExecutor`, `CabalPipeline`,
`AddressHistory`, `ObservationLoop` with `InOrderHandling`, `TrackedLaunches`,
`LaunchAlerts` with theirs.

What would add most from here:

1. Parked polling of the producer, together with a native stream that delivers: then
   `DueIsLaunched` could be asked of the sockets alone.
2. The risk gate's limits over BUYs in flight, with the amounts that are now
   "allowed or not", as a module between `SniperDaemon` and pure operators.
3. An abstract position book that `SniperDaemon` and `CabalExecutor` both implement.
4. Step counts for a polling task of `TrackedLaunches` and a cycle of
   `ObservationLoop`, as for the calls and cycles above.
