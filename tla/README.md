# A formal model of the crypto_core paper-trading core

TLA+ specifications of `src/src/crypto_core`, the TLC configurations that check them on
small instances, and TLAPS proofs of every safety property that those configurations check. Paths
below are relative to `src/src/crypto_core` unless they begin with `src/`.

Run from this directory: `tlc -workers 2 -config <run>.cfg <module>` for a run of
`PROJECT.json`, and `tlapm <module>` for the proofs in the eight modules `*Proofs.tla`.

## 1. Inventory

### 1.1 What the program is

crypto_core is a fail-closed trading stack that trades on paper. Market data comes from
exchange feeds, a pipeline turns it into trading decisions, an execution engine drives orders
through a state machine against a venue adapter (in practice the paper venue), an append-only
log and a portfolio snapshot make it restartable, and a managed service runs it with threads.

Its own core logic is a small part of the repository: of the 2,991 files most are one-per-phase
evidence and admission validators (`validation`, 113k lines; `venue`, 21k), an older separate
program (`bist_core`), and tests and documents. The components, the sizes in lines of Python:

| component | state it keeps | operations | interacts with |
|---|---|---|---|
| order state machine (`execution/state_machine.py`, `events.py`) | one `Order`: state, requested and filled quantity, fills | `create`, `transition`, `add_fill` | owned by the lifecycle engine |
| lifecycle engine (`execution/lifecycle.py`) | registry of orders, evidence | `process`, `cancel`, `replace`, `register_restored_orders`, `reconcile_order` | calls the adapter, appends to the store |
| state store (`execution/store.py`) | one JSONL file | `append_event`, `load` | written by the engine, read by recovery |
| venue adapter and paper venue (`execution/adapter.py`, `paper_adapter.py`) | restored orders | `submit_order`, `request_cancel`, `reconcile_order` | called by the engine |
| recovery bootstrap (`execution/recovery.py`) | none | `run`: load the log, load the portfolio, reconcile | called by the session's start |
| session (`session/engine.py`) | mode, counters, tracker | `start`, `process_event`, `pause`, `resume`, `stop`, `restart` | drives the pipeline, saves the portfolio |
| portfolio store (`portfolio/store.py`) | one JSON file | `save` (atomic replace), `load`, `exists` | session, recovery |
| position tracker (`portfolio/tracker.py`) | positions, PnL, NAV | `apply_fill`, `update_mark`, `restore_from_dict` | pipeline, session, CVaR |
| pipeline (`orchestrator/pipeline.py`) | none of its own | one `process` per event, stage by stage | all evaluators, engine, tracker |
| service (`service/paper_live_service.py`, `queue_bridge.py`) | mode, stop flag, thread handle, queue | `start`, `stop`, `pause`, `resume`, `restart`, `enqueue_event`, the consumer loop | feeds call it; it calls the runner |
| runner and bridge (`runtime`, 1k) | running flag; feed readiness | `start`, `stop`, `on_event` | service above, session below |
| system state engine (`state`, 0.6k) | state, de-escalation candidate and timer, HALT approval | `evaluate`, `approve_halt_release`, `revoke_halt_approval` | read by the guard and the pipeline |
| market data (`data`, 11k) | feed state, delta buffer, sequence, order book | connect, deltas, snapshot recovery, supervision loop | feeds the service; readiness read by the bridge |
| kill switch, guard, temporal scheduler (`risk` 1.1k, `guard` 1k, `temporal` 0.7k) | cool-down and event windows | `compute`, `evaluate`, `notify_ks_event` | stages of the pipeline |
| TCA loop, markout, attribution (`execution/tca*.py`, `markout.py`) | pending fills, persisted identifiers, one JSONL file | `on_fill`, `on_price_update`, `load_persisted_ids` | pipeline, session |
| edge, edge health, regime, CVaR (`edge` 2k, `edge_health` 0.6k, `regime` 0.5k, `cvar` 0.2k) | windows of observations | updates and snapshots | stages of the pipeline |
| campaign, run state, reviews (`service`, most of 32.8k) | records in files | start, pause, complete, persist, restore | poll the service's status |
| audit (5.5k) | hash-chained records | append, verify | most controllers |
| strategy, telemetry, validation, venue, bist_core, scripts, tools | documents; none at run time | validation, emission | outside the trading loop |

`PROJECT.json` lists each of them with what is modelled and the reason for what is not.

### 1.2 How they interact, and what is hard

```
feed threads --enqueue--> bounded queue --get--> consumer thread --on_event--> session
operator thread --start/stop/pause/resume/restart--> service --start/stop/pause--> runner, session
session --process--> pipeline --request--> lifecycle engine --submit--> venue adapter
                         |                      \--append--> execution log  (file 1)
                         \--fills--> tracker --save--> portfolio snapshot   (file 2)
restart: recovery reads file 1, reads file 2, asks the adapter about open orders

pipeline, before a request:  state engine -> guard <- scheduler (warm-up, cool-down)
                             -> kill switch --event--> scheduler -> risk engine -> request
pipeline, after the fills:   tracker, TCA loop (observes prices, appends records, file 3)
feed: supervision thread --starts, joins--> connection thread --messages--> book
                         \--on its end--> recovery manager --snapshot--> book
      operator --stop_feed, shutdown--> feed state, client
```

* **Crashes.** Every event is an append of its own, and the snapshot is a second file written
  after the log. The process may die between any two of these writes, or inside one. Recovery is
  itself a sequence of appends that a crash may interrupt.
* **Clocks.** An order's first two records carry the request's exchange timestamp, the rest
  the local clock; `load` sorts by timestamp. The pipeline's time is the stamp of each event, which
  may step back from one feed to the next.
* **Partial failure.** Appends that raise are logged and ignored, as are snapshot saves; an adapter
  may raise; a fill may be refused by the tracker after others of its cycle were booked.
* **Threads.** The mode of the service is read and written under a lock that is released between
  accesses, `stop` waits five seconds for a consumer that may be inside a cycle, and a consumer
  outlives some of the failures after which `start` is allowed again.
* **Limits.** The queue drops, sheds, and fails the service at three different depths.
* **Order of evaluation.** The guard reads the cool-down before the kill-switch level of its own
  cycle is known; de-escalation counts time over evaluations that overrides interrupt.
* **Feeds.** A connection thread, a recovery and an operator write the same two state fields; what
  is published between a snapshot and the new connection is in neither.

### 1.3 What makes each component correct

* Engine and store: whatever is in the file replays; memory and file agree; a closed order stays
  closed; no order is over-filled.
* Recovery: the session runs only if everything was loaded and every open order answered for; an
  order left at the venue is closed.
* Session: no fill is booked twice or without being logged, and none that is saved is forgotten;
  a logged fill reaches the portfolio.
* Service: one thread in the runner, none after `stop`; events in order, each held by one thread;
  operator calls return; the queue is served; the session does what the service's mode says, unless
  it ended by itself.
* State engine and gates: de-escalation waits for its hold, HALT needs an approval of its own, no
  entry in the cool-down of any earlier event, and trading resumes once all is well.
* Feed recovery: no hole in the book, messages in READY only, a feed that did not fail comes back,
  shutdown ends it.
* Tracker and TCA: positions and profits add up to the fills; an observed fill gets its record.

## 2. Modules

| module | models | source |
|---|---|---|
| `OrderFSM` | states and allowed moves of an order | `execution/state_machine.py` |
| `OrderLedger` | abstract: each order is created once and then moves along the FSM | the promise of `execution/store.py` |
| `OrderLifecycle` | engine, adapter, log, crash, recovery | `execution/lifecycle.py`, `store.py`, `adapter.py`, `paper_adapter.py`, `recovery.py` |
| `PaperSession` | session, tracker, snapshot; EXTENDS `OrderLifecycle` and composes its actions | `session/engine.py`, `orchestrator/pipeline.py`, `portfolio` |
| `PaperLiveService` | feeds, queue, consumers, operator | `service/paper_live_service.py`, `queue_bridge.py`, `runtime/runner.py` |
| `SystemState` | the health ladder, its timers and the release from HALT | `state/engine.py`, `state/models.py` |
| `TradingGates` | state, guard, kill switch, scheduler and risk gate in a cycle; EXTENDS `SystemState` | `orchestrator/pipeline.py`, `guard`, `risk`, `temporal` |
| `FeedRecovery` | one supervised feed: threads, recovery, operator, exchange, book | `data/ingestion`, `data/recovery`, `data/processing/book_manager.py` |
| `FillBooks` | the tracker's arithmetic, its saved copy, the TCA loop and its file | `portfolio/tracker.py`, `execution/tca_loop.py`, `tca_store.py`, `markout.py` |
| `MC*` | symmetry sets, sizes, clock skews, readings and durations for TLC | |
| `OrderLifecycleProofs`, `OrderLogProofs` | types; the log's invariant and what follows from it | |
| `OrderMemoryProofs` | memory against log: states, quantities, what rests at the venue | |
| `PaperSessionProofs` | the session drives the engine; tracker and portfolio file against the log | |
| `PaperLiveServiceProofs` | threads, queue and modes of the service | |
| `TradingGatesProofs` | the state engine's and the gates' invariants | |
| `FeedRecoveryProofs` | the feed's invariants | |
| `FillBooksProofs` | the tracker's books | |

### 2.1 OrderLifecycle

A step is one change of an `Order` followed by its append. That is where the code can be cut by a
crash: memory is lost anyway, so only what was appended matters afterwards.

* `process` is split at its appends: `RefuseAtGate` then `PersistRefusal`, for a size of zero or less
  too, which is recorded as it was asked for; `RefuseAtPricing`; `DryRun`; or `Accept`, `Validate`, `Submit` (the adapter's whole answer is computed at once, as in
  the code), `ApplyNext` once per event, and `Return`. `SubmitRaises` is the adapter that throws.
* `cancel` and `replace` are `RequestCancel` (with the pending state that differs between them) and
  `CancelAnswered`.
* `load` is `Loadable`, `Restored` and `Orphans`: a sort by timestamp, stable in file order, the
  check of every move, and the sum of the fills. `LoadFails`, `LoadClean`, `LoadWithOrphans` and
  `RegisterRaises` are the outcomes of phase 1 and of registering what it restored. `Reconcile` is
  phase 3: `AskVenue` takes the next orphan and the venue's list of events, `ReconcileNext` applies
  and persists one of them and drops the rest at the first that is illegal, `AskRaises` is the call
  that throws, `FinishReconcile` what the session makes of the orders left. `Settles` is recovery's
  verdict, which goes by the last event of the list, applied or not.
* `Persist` is `_maybe_persist`: with the fault `append_error` the record may be missing.
* The adapter is a constant. Prices only decide between its answers, so each answer is a choice; the
  book's depth is a number because it decides full or partial.
  * `paper`: the paper venue as written.
  * `contract`: what the abstract class documents. A submission is REJECTED, or SUBMITTED, any number
    of partial fills, then the fill that completes the order, a CANCELLED for the rest, or nothing
    more. A reconciliation is nothing, STALE, or such a list of fills from what is left of the
    order; of an order that was only created the exchange knows nothing. The documentation says
    neither that fills are positive nor that FILLED completes the order: that is read into it.
  * `disorderly`: up to `MaxAnswer` events in any order, with any quantities of `ReportedQty`, of every
    kind but CREATED, which replay skips after the first, and VALIDATED, which the engine ignores.
    Fills come on PARTIALLY_FILLED and FILLED only, as `execution/events.py` documents `fill_event`.
* Faults are a constant too: `append_error`, `torn_write` (the process dies inside a write),
  `adapter_error` (`submit_order` throws), `register_error` and `reconcile_error`.
* `Qty` may be of any sign.

What an adapter can do that no instance covers: report a fill on an event of another kind. The engine
ignores it (`execution/lifecycle.py:612`), persists it (`554`), and replay adds it up
(`execution/store.py:343`), so the log then holds a fill that the process never knew. For example
SUBMITTED with a fill of 1: memory has filled 0, the log 1. `LogNotAheadOfMemory` holds of adapters that
keep fills to the fill kinds, and of no others.

An adapter that raises when the restored orders are registered (`execution/recovery.py:301`) leaves
every orphan unasked, the count of unresolved orders at zero and the recovery successful: the
session then runs over open orders. No adapter of the source raises there; `RegisterRaises` is in the
runs of the engine, and `SessionAssumption` leaves it out of a session.

Left out: prices, symbols, evidence, the counters of results; `poll_open_orders`, `ingest_*` and
`request_replace` of the adapter, which nothing calls.

### 2.2 PaperSession

It reuses the engine's actions: `RequestInCycle` and `EngineInCycle` run the engine inside a
pipeline; `ReturnAndBook` books the fills of a result one by one, and leaves the pipeline with its
fail-closed result when `from_fill_event` raises; `EndPipeline` and `SaveAfterFills` are the save
after a cycle with fills; `TcaRaises` is the store error that discards a cycle's result.
`StartClean` and `StartRecovering`/`ReconcileInStart` are the two branches of `start`. `Die` is a
crash and the new process. That registering restored orders does not raise is assumed
(`SessionAssumption`, see 2.1). `config` is the deployment, chosen once from `Configs`:
`persist_every_fill`, `persist_on_stop`, a cycle limit, saves and TCA appends that fail. The tracker
is the quantity booked for each order: that tells a lost fill from one counted twice, and netting
does not. `Bookable` is the fills of a result up to the first that the tracker refuses, and `Total`
is their sum, counted unit by unit like the sum of an order's fills in the log.

### 2.3 PaperLiveService

Each action is one access to shared state: the lock is released after it, so the threads interleave
between any two. `FeedEvent`, `Put`, `Drop`, `ReportOverflow` are `enqueue_event`; `EnterLoop`,
`SeeStop`, `Poll`, `Get`, the three pressure outcomes (`FindOverflow`, `Shed`, `Deliver`),
`Delivered`, `BeginCycle` and `EndCycle`, or `DeliveryRaises`, and `Leave` are `_consumer_loop` and
what the runner does in it; `op` is the program counter of
the operator's call. `restart` is stop, clear, reset of the mode, start; `pause` and `resume` turn the
service's mode, then read the session's (`SeeSession`), then set it (`TurnSession`). The session is only its
mode here; what it does inside a cycle is `PaperSession`. A cycle may end the session under its
service (`EndCycle`): it raises, and the session is FAILED, or `max_cycles` is reached, which is STOPPED
and called EXHAUSTED here to tell it from a `stop`. The service is told of neither and stays RUNNING.

`join` gives up after five seconds in the code, so that it always returns; the model's `Join` waits
for the thread unless the service is not `orderly` and the thread is in the runner. What keeps `stop` from
waiting for its whole five seconds is what `OperatorReturns` says: the thread it waits for was told to leave.

`orderly` is chosen once: every event is handled within the five seconds of the join, and `start` is not called on a FAILED service. The
properties that need it say so; the others hold with two living consumers too.

### 2.4 SystemState and TradingGates

`SystemState` is `evaluate` over readings: the score's band between the thresholds it is compared
with, and the signals at their maximum. `Escalate`, `BelowExit`, `HeldByOverride`, `ReleaseHalt`,
`StayInHalt`, `StartHold`, `KeepHolding` and `Fall` are the branches of `_do_evaluate` and
`_try_deescalate`; `Enter` is `_do_transition`; `EvaluateRaises` is `_force_halt`.

The engine's clock, and the whole pipeline's, is the stamp of the event in hand
(`orchestrator/pipeline.py:282`), and two feeds' stamps need not come in order. Time in the model is the
exchange's clock, which does not step back (`Tick`); `lag` is how far the stamp of the event in hand
lies behind it, chosen anew by `NextEvent`, up to `MaxLag`. A stamp that is kept is its age by the
exchange's clock, so that a state entered now has the age `lag` already, and `Elapsed` is what the code
computes: the age less the lag, which may be negative. A hold started by a late stamp is over too early
by its lag, so each property of time is short by up to `MaxLag`; with `MaxLag = 0` it is exact.

`PossibleReadings` are the scores a maxed signal
leaves room for by its weight. `meets` and `met` are history variables: for how long every
evaluation of this state has been above its exit threshold.

`TradingGates` is one pipeline cycle as a step: `StateStage`, then the guard (`GuardAllows`, which
reads the old cool-down), then the kill switch (`KsLevel`, from the state and the feed, or what a
caller's `ks_input` comes to, which replaces the derived input altogether), then `Notified`, then the
risk engine's gate. All rules over a single input are the free `pass`. `CycleRaises` leaves after
stage 1. `well` is the environment's promise that from now on every input is good, for liveness.

Nobody in the source constructs a `TemporalScheduler`, passes `ks_input` or calls
`approve_halt_release`: they are the library's interface to its operator, and modelled as such.
Met on the way: the trigger T08 compares the recovery state with "recovering", which no recovery state
is called, so it never fires; the floor under a lost feed is dead code (`FloorIsDead`); a state that
flaps restarts its timer each time; and state, timers and approval live in memory only, so a
restarted process is back in the initial state.

### 2.5 FeedRecovery

`sup` is the program counter of the supervision thread: arm, start the connection thread, join it,
`OnDisconnect`, then attempts (`Attempt`, `Reconnected`, `Fetch`, `EmitSnapshot`, `CaughtUp`,
`Validated`, or `AttemptFails`, `Exhausted`), and round again. `ws` is the connection thread,
`wire` what is under way to it, `op` the operator inside `stop_feed` or `shutdown`. The exchange
publishes sequence numbers; `greets` tells Bybit, which sends a snapshot on subscription and whose
numbers have gaps, from Binance, which does neither. The book is the set of updates in it, so that
a hole is visible. The recovery's time limit is a number of attempts.

Three things follow that surprise a reader of the code. The delta buffer is never filled under
supervision: the new client is connected only after the recovery is over (`UpMeansReady`). The
supervision loop sets READY again after a recovery that ended in FAILED (`data/ingestion/data_ingestor.py:333`),
against its docstring (line 304: "Exits only when shutdown() is called or the feed enters FAILED
state.") and against the recovery manager, which means FAILED to be final until someone looks at it.
The model does what the code does; `FeedComesBack` excepts a FAILED feed, so that it asks for
neither. `is_live` is true from that moment, before a connection exists. And an update published between the snapshot and the connection is in
neither: the book then refuses every later update as a gap. It has no hole (`BookHasNoHole`), but it
stands still until the next snapshot, which a greeting exchange sends and Binance does not;
the guard's stale-book rule is what stands in front of it. A gap in Bybit's numbers, which
`data/recovery/delta_buffer.py` treats as legitimate, has the same effect, since the book manager
requires consecutive numbers and nothing calls its `reset`. So `FeedComesBack` promises the book's
progress only up to the next hole of an exchange that greets.

Two details are coarser than the code. A Binance delta is a range of numbers and one update here, and
snapshots end where a range does; one that ends inside a range makes the book refuse that range, which is a
gap like any other. And BOOK_CROSSED and BOOK_CRC_MISMATCH are raised after the levels and
`last_update_id` have changed (`data/processing/book_manager.py:184`, `131`): the event counts as rejected and
is in the book all the same, which for the book's numbers is as if it had been accepted.

### 2.6 FillBooks

`Filled` is `_apply_buy` and `_apply_sell`: `Increased`, and `Reduced` for a partial close, a close
or a flip. Prices are multiples of a unit for which every average within the bounds is whole, so
the identity of `BooksBalance` is exact; the code's floats are not modelled. `sums` is a history of
what the fills paid; `SumOf` adds the profits of the positions up, counted unit by unit, in the
shape in which a proof can follow it. `ObservePrice` lets any fills under observation mature and leave the observer,
`AppendRecord` appends their records one by one, `AppendFails` ends the cycle without its save.
`Die` loses memory; `Start` takes the saved portfolio and the identifiers of the TCA file, or none
where the file does not load.

Left out with the mark price: unrealized profit, exposure, NAV. Of these the reader should know that
`_effective_nav` adds the day's realized profit, so that `reset_day_pnl` takes it out of NAV although
`update_nav` documents NAV as tracking realized profit; nothing in the source calls the reset, so
"daily" profit accumulates. A second record of an order is prevented twice over (the loop's set and
the observer's), so no property is about it. Fills under observation at a crash are never measured.

## 3. Runs

Every run uses fresh orders, events or updates from a finite set: TLC explores every behaviour that
creates at most that many. Deadlock is checked except in the service and feed runs, because those
really may stop: no more events, no further start, the consumer gone; a feed that was shut down.

| run | asks | bounds |
|---|---|---|
| `lifecycle_paper` | does the log replay, agree with memory, close orders for good; is nothing over-filled or left at the venue; does a recovery close its orphans | two orders of size 2, or of size -1 and refused; depths 0, 1, 2; all three modes, torn writes, adapter errors, requests stamped at the clock or behind it |
| `lifecycle_contract` | for any adapter that keeps its contract: is the state in memory the one replay gives; does the log implement `OrderLedger` | one order of size 3, any partial fills, torn writes, registering and reconciling that raise, two clock values and requests stamped at the clock or behind it |
| `lifecycle_disorderly` | what still holds when the adapter keeps only fills to fill kinds, and appends fail | one order of size 1, answers of up to three events, fills of 1 and 2, reconciliation silent once the log has five records |
| `session_cycles` | log and portfolio across crashes and restarts in four deployments; a logged fill reaches the file | two orders of size 1, any contract adapter, torn writes, reconciling that raises, two clock values |
| `service_threads` | one thread in the runner, none after stop, the mode's truth, order of events; nothing held twice with two consumers; calls return; the queue is served | two feeds, three events, queue of 3 that sheds at 2, two starts |
| `trading_gates` | no entry in a cool-down or soon after HALT; approvals and holds; trading resumes | ten readings, ages to 3, stamps up to 1 late, holds of 1 and 2, cool-downs of 1 and 2, `ks_input` of level 0 or 4 |
| `feed_recovery` | the book has no hole, messages arrive in READY, shutdown ends, a feed that is not FAILED comes back | three updates, two attempts, both kinds of exchange |
| `fill_books` | positions and profits add up; an observed fill is recorded | one symbol, two prices, two sizes, three fills |
| `lifecycle_restored_open` | violated, see 3.2 | one order |
| `lifecycle_clock_ahead` | violated, see 3.2 | one order |
| `session_inconsistent` | violated, see 3.2 | one order |
| `service_second_consumer` | violated, see 3.2 | queue of 1, three events |

Why the bounds are enough. Records of different orders meet only in the file and in recovery, and
two orders cover one that recovery has closed while the other is still open, and a fill of one in a
cycle that the other aborts. Size 2 has a full fill, a partial one and a residual; size 3 two partial
fills and the one that completes; depth 0 is the fill of nothing; -1 stands for every size that Gate 2
refuses. A session counts and books fills and does not look at what they leave of their order, so there the
size is 1, and a cycle with two fills has them from two orders; that the books stay within the log is
proved for every size. A longer history of the same order does not exist: the FSM has no cycles except
repeated partial fills. A skew of -1 gives an order's first records older stamps than its later ones,
two clock values put a restart between stamps, and `lifecycle_clock_ahead` has the stamps that are out
of order. The four deployments are: saves after fills and at `stop`, with a TCA store that fails; the
same with a limit of cycles; the same with saves that may fail; and a save at `stop` only, which may fail. In
each the failure may also stay away. The queue of 3 has all three pressure zones and two waiting events in
order; two starts are what a second consumer needs. The readings have every target, both sides of each
exit threshold and each kind of maxed signal; holds and cool-downs of 1 and 2 with ages of 3 tell apart
the states and the levels, and a stamp late by 1 can make any of them too short. Three updates are one
in the book, one lost and one after it. Three fills are an increase and a flip, a flip and back, or
an order with two fills next to another. A disorderly adapter's three events are a partial fill, a
close and something that comes too late; a log that stops growing at five has the whole answer after
CREATED and VALIDATED, or one that a crash cut short and a reconciliation of up to three events after it. The
proofs of section 4 remove the bounds for every invariant and action property; for liveness the bounds
stand.

### 3.1 What the properties are about

The types are one invariant per module. The others relate two pieces of state or two moments:
`MemoryIsWhatReplayGives` (registry against replay), `LogNotAheadOfMemory` (which excepts a late
REJECTED: the FSM refuses it after a partial fill, `_maybe_persist` records it all the same),
`FilledWithinSize` (fills within the size, and FILLED
exactly when they reach it, unless the size left nothing to fill), `ClosedInLogIsFinal` (across processes),
`PortfolioWithinLog` and `SnapshotNeverForgets` (two files), `SnapshotIsCurrent`, `StoppedIsSaved`,
`RunsOnlyAfterRecovery`, `OneCallerIfOrderly`, `EventHeldOnce`, `StoppedIsQuiet`, `EventsInOrder`,
`SessionFollowsService` (two modes that a cycle, an operator and a failure change),
`NoEntryInCooldown` (a cycle against every event before it), `FallsAfterHold` (the code's timer
against the history of evaluations; both short by `MaxLag`, see 2.4), `HaltNeedsApproval`, `BookHasNoHole` (the book against the
exchange), `UpMeansReady` (two threads), `BooksBalance` (the tracker against its fills), and the
leads-to properties. Each has a mutant in `PROJECT.json`: a plausible error in a modelled definition
that makes TLC find it violated.

`OneCallerIfOrderly`, `StoppedIsQuiet`, `SessionFollowsService`, `AliveIsReported` and
`EventsInOrder` assume `orderly` (2.3); `service_second_consumer` shows why.

### 3.2 Where the code and what it says differ

* `session_inconsistent`: `execution/recovery.py:91` documents success as "both stores loaded
  cleanly and are consistent"; nothing compares them. After a crash between the append of a fill and
  the save of the snapshot, the session runs on a portfolio without the fill.
* `lifecycle_restored_open`: `execution/paper_adapter.py:386` says an open paper order becomes STALE
  after a restart. The FSM has no such move from CREATED or VALIDATED: the order stays open, at every
  later restart too, and recovery counts it as stale.
* `lifecycle_clock_ahead`: `execution/events.py:5` promises deterministic replay. If the exchange
  clock is ahead of the local one, the venue's events sort before CREATED, and the next start is
  blocked on a log the process wrote itself.
* `service_second_consumer`: `service/paper_live_service.py:507` says there is no concurrent access
  to the runner. After a feed reports an overflow the service is FAILED with its consumer alive;
  `start` makes a second one.

More were met with the same modules, and the properties exclude them where they matter:

* `start` without a portfolio file never looks at the log (`session/engine.py:460`), so a crash before
  the first save is followed by a clean start over a log with orders and fills. This is why
  `RunsOnlyAfterRecovery` speaks of sessions with a snapshot.
* A fill of quantity zero (`orchestrator/pipeline.py:654`), and an append of the TCA store that raises
  (`execution/tca_loop.py:304`), make the pipeline drop its result: fills booked in the cycle are saved
  only by a later save. `cutShort` remembers it, and `SnapshotIsCurrent` and `FillsReachSnapshot`
  except it.
* Reaching `max_cycles` sets STOPPED and saves nothing (`session/engine.py:211`), so `StoppedIsSaved`
  asks of a deployment with a limit that each cycle was saved.
* An error in a paused service, or one that comes while `start` is about to set RUNNING, leaves a
  RUNNING service without a consumer (`service/paper_live_service.py:548`). `QueueIsServed` excludes it.
* A FAILED service whose session was paused runs again, after `start`, with the session still paused:
  the runner was never stopped (`service/paper_live_service.py:133`). `orderly` excludes it.
* A cycle may end the session under a RUNNING service, by reaching `max_cycles` or by raising
  (`session/engine.py:211`, `232`). The service is not told, and hands the ended session every further
  event. `SessionFollowsService` excepts it.
* The session's `pause` reads its mode, and then writes PAUSED (`session/engine.py:343`): a cycle that
  raises in between sets FAILED, which is overwritten, and `resume` runs the failed session again.
* A fill on an event that is not a fill kind is ignored in memory, persisted and replayed
  (`execution/lifecycle.py:612`, `554`, `execution/store.py:343`): see 2.1. `LogNotAheadOfMemory` is about adapters that
  do not report one.
* An adapter that raises while restored orders are registered makes recovery succeed with its orphans
  unasked (`execution/recovery.py:301`): see 2.1. `RunsOnlyAfterRecovery` assumes that it does not raise.
* The supervision loop goes on from FAILED, against its docstring (2.5); `FeedComesBack` excepts it.
* A `shutdown` between the check of the event and the new connection (`data/ingestion/data_ingestor.py:328`)
  closes a client that is not connected yet; the connection then lives and the supervision thread
  joins it for ever. A `stop_feed` during a recovery is overwritten by it. This is why `ShutdownEnds`
  speaks of connected feeds.

### 3.3 Fairness

Safety runs assume none. `FairSpec` of `OrderLifecycle` is weak fairness of `EngineStep`, of
`PaperSession` of `SessionStep`: a synchronous Python call that has begun runs to its end unless the
process dies, and a crash disables it, so no fairness of restarts, of requests or of operator calls is
assumed. In a session the pipeline of a cycle ends after finitely many requests because the set of
orders is finite in the model, as the list of signals of a cycle is in the code.
`FairSpec` of `PaperLiveService` is weak fairness of each consumer thread and of the operator's
begun call: threads are scheduled, `queue.get` polls with a timeout, and no step of either
waits for another step except `Join`, which waits for the consumer. Feeds and the operator's next
call are unfair: they may stop at any time.
`FairGatesSpec` is weak fairness of `Cycle` and of the clock: market events keep coming.
`TradingResumes` needs no approval: it excepts a HALT that the operator does not approve.
`FairSpec` of `FeedRecovery` is weak fairness of the supervision thread, of a connect that has begun
(it succeeds or fails), of the receiver and of the operator's begun call; connections need not drop
and the exchange need not publish. `FairSpec` of `FillBooks` is weak fairness of the pipeline and
strong fairness, for each order, of a price that resolves its horizons: a fill's horizons expire by the
clock, whatever other fills mature first.

## 4. Proofs

TLAPS checks every theorem for all values of the constants.

`OrderLifecycleProofs`, for each of the three adapters, any fault and skew:

* `TypeCorrect`: `Spec => []TypeOK`.
* `ReplayIsDefined`: every order in the log has a first and a last record in replay order, so the
  `CHOOSE` in `FirstOf` and `LastOf` is well defined. TypeOK is not inductive without it: the type of
  a restored order is the type of a record that must exist.

`OrderLogProofs`, each under the assumption `Faithful`: the adapter is the paper venue or keeps its
contract, appends do not fail silently, and requests are not stamped ahead of the local clock.
Each part is needed. With a clock ahead the log does not replay (`lifecycle_clock_ahead`); with a
disorderly adapter a late REJECTED is refused by the FSM and persisted all the same; with a lost
append the file has a gap.

* `LogAlwaysReplays`: `Spec => []LogReplays`.
* `ClosedStaysClosed`: `Spec => ClosedInLogIsFinal`.
* `LogImplementsLedger`: `Spec => LogIsALedger`, the refinement of `OrderLedger` under which an
  order's abstract state is what its newest record reports.

The argument. That the log replays is not inductive: an append keeps it replaying only if it
continues what the file has for the order, which depends on memory, on the call in progress and on
the clock. The inductive invariant `LogInv` adds:

* `TypeInv`;
* `Chained`: in file order, the records of an order start with CREATED, follow the FSM, and their
  timestamps do not decrease;
* `Stamped`: no record is later than the clock, and what a call still has to record is not earlier
  than what its order has in the log;
* `Agree`: an order known to memory and log has the state of its newest record, and one the log does
  not know never left the process;
* `InCall`: the order of a call is where the call's program counter says, and the events left to apply
  are a path of the FSM. Those of a reconciliation are of the kinds a venue answers with, and one of them may be
  refused: it and the rest are dropped.

`NextKeeps` has one step per action, and `SubmitAnswersLegal` shows that every answer of a faithful
adapter is a path. From `LogInv` one lemma says that each step leaves the log alone or `Writes` one
record that legally continues its order; the refinement and the action property follow from it,
`LedgerShowsNewest` and `TerminalHasNoMoves`.

`TradingGatesProofs`, for all readings within `PossibleReadings`, holds, durations and ages, and any
`MaxLag`:

* `FloorIsDead`: no reading ever meets the floor of `_try_deescalate`.
* `TimerStaysHonest`: `Spec => [](StateTypeOK /\ TimerIsHonest)`, where the timer is
  never more than `MaxLag` ahead of the history: they start together, up to the lag of the event that starts
  them, and both end at an evaluation below the exit threshold.
* `HaltHolds`: `Spec => HaltNeedsApproval`. `FallsHold`: `Spec => FallsAfterHold`, by
  `TimerIsHonest`, which turns "held long enough" into "met long enough, but
  for `MaxLag`".
* `GatesDriveTheStateEngine`: `GatesSpec => Spec`, so these hold inside the pipeline.
* `GatesTypeCorrect`: `GatesSpec => []GatesTypeOK`.
* `EntriesWaitForCooldown`: `GatesSpec => []NoEntryInCooldown`. An entry says nothing of the event
  before it, so the invariant adds that the time left of the cool-down covers what is missing of each
  event's own: `since[l] + cooldown + MaxLag >= CooldownFor[l]`.
* `EntriesWaitAfterHalt`: `GatesSpec => []NoEntrySoonAfterHalt`. The invariant adds that after a HALT the
  state is at least CRISIS until the hold of CRISIS is over, and that no hold in CRISIS is older
  than the last HALT, both but for `MaxLag`.

`FeedRecoveryProofs`, for any number of updates and attempts:

* `MessagesFindReady`: `Spec => []UpMeansReady`. The invariant `Supervised` ties the connection to the
  join of the supervision thread: outside the join the client is down.
* `FeedTypeCorrect`: `Spec => []FeedTypeOK`.
* `NoUpdateIsMissing`: `Spec => []BookHasNoHole`. The invariant adds `Ordered`: what was published,
  fetched, applied or is on the wire is never newer than the exchange's newest update.

`OrderMemoryProofs`, with the assumptions each theorem names:

* `StateAgreesWithLog`: `Faithful`, `Spec => []StateIsWhatReplayGives`. From `LogInv` and `Tracked`: a
  registered order is one memory knows, and the order of a call in progress, or being reconciled, is where the
  call says.
  `LogInv` gives that the newest record in the file is the last in replay.
* `LogNeverAhead`: `Spec => []LogNotAheadOfMemory`, for each of the three adapters, any fault and
  any clock: whatever events come, in any order, as long as fills are on fill kinds. Nothing like `LogInv` is available then, and a record may be sorted before older ones.
  The invariant `CoverInv` is `TypeInv`, `Tracked` and `Covered`, which says it of every order that memory knows,
  registered or not; each append
  changes what replay makes of its own order only, and that to the state it reports or not at all.
* `PaperOrdersRestNowhere`: `Venue = "paper"`, with any faults and clocks,
  `Spec => []NothingRestsAtPaperVenue`. `RestInv` carries it through calls: what is left of an answer
  leads off the venue, and an open order is an orphan still to be reconciled.
* `FillsKeepToSize`: `Faithful`, `Spec => []FilledWithinSize`. For sizes of any
  sign: `FitsSize` says what the log may hold of each, so that an order refused for its size has no fill and is not
  FILLED. `SizeInv` adds that the events a call has still to apply keep `Within` what is left of the order, one after
  another (a partial fill leaves something, FILLED leaves nothing), that memory and log agree on the quantities of the
  order of a call, and, at the paper venue, of every order. It uses `LogInv`: that the first record
  of replay is the one that carries the size.
* `ReplayRebuildsMemory`: `Faithful` and `Venue = "paper"`,
  `Spec => []MemoryIsWhatReplayGives`, from `LogInv`, `Tracked` and `SizeInv` together. With another
  adapter a fill that the FSM refuses is added to memory before it is refused, so only the states agree.

`PaperSessionProofs`, for any set of deployments, where registering restored orders does not raise
(`SessionAssumption`):

* `SessionRunsEngine`: `SessionSpec => Spec`: every theorem above holds of a session.
* `SessionTypes`, `SnapshotStaysCurrent`, `StoppedSessionIsSaved`, `SnapshotOnlyGrows`: the session's
  types, `SnapshotIsCurrent`, `StoppedIsSaved` and `SnapshotNeverForgets`, with no assumption on adapter, faults
  or clocks. The invariant `StoreInv` follows tracker and file through a cycle: `KeepsSaved` (a running
  session has booked what the file has), `SavedEachCycle` (file and tracker are equal until the cycle's
  first fill), `SavedAtEnd`.
* `PortfolioNeverAheadOfLog` and `RecoversBeforeRunning`: `Faithful`, `PortfolioWithinLog` and
  `RunsOnlyAfterRecovery`. A booked fill was logged when it was applied, which is several steps before it is booked;
  `FillsLogged` says that the fills of a call are in the log on top of what the tracker has booked.
  That reconciliation itself never breaks the log comes from `LogInv`.

`PaperLiveServiceProofs`, for any number of feeds, starts and events and any size of the queue:

* `EventsAreHeldOnce`: `Spec => []EventHeldOnce`, and `ServiceTypes`, with any number of living consumers.
* `EventsReachRunnerInOrder`, `OneThreadCallsRunner`, `StopLeavesNoThread`,
  `SessionFollowsItsService`, `LiveConsumerIsReported`: `EventsInOrder`, `OneCallerIfOrderly`,
  `StoppedIsQuiet`, `SessionFollowsService`, `AliveIsReported`, which speak of an `orderly` service.

The invariant `IInv` has `QueueInv` for the numbers of the events, wherever they are, `ModeOfCall` for
what the mode may be at each place of the operator's call (a failure may intervene anywhere), and
`OrderlyInv`: only the newest thread lives; between the join of `stop` and the next spawn none does and the
runner is stopped; the session's mode is what the service's mode and the call say, or one in which it ended by itself or was blocked. The one thread in the
runner is not inductive without all of these, since it rests on what `start` finds.

`FillBooksProofs`, for any instruments, prices, sizes and number of fills:

* `BooksTypeCorrect`: `Spec => []BooksTypeOK`.
* `PositionsNetTheFills`: whatever the averages are rounded to, a position is the net of its fills, flat exactly
  when that is nothing, and the day's profit is the sum over the positions. The file's copy
  satisfies the same of the fills as of its save, or a restart would break it.
* `BooksAddUp`: `Spec /\ []WholeAverages => []BooksBalance`. The identity is about money and is exact only
  where no average is rounded, which `WholeAverages` says of the fills that may come next. The prices
  and sizes of `fill_books` meet it: a rounded average would break the identity in the next state. Per
  fill, cash, profit and the open value at average change by amounts that cancel.

Only model-checked: liveness. `OrphansAreClosed`, `FillsReachSnapshot`, `OperatorReturns`, `QueueIsServed`,
`TradingResumes`, `ShutdownEnds`, `FeedComesBack` and `FillsAreMeasured` need fairness, and with it
ENABLED, which is beyond the prover. Sums are written as cardinalities of sets of units, not as folds:
the library's theorems about finite sets then carry the induction that the installed provers cannot do over
recursive definitions.

## 5. Not modelled

`PROJECT.json` names each component. In short:

* float arithmetic: prices of fills, NAV, CVaR, edge signals, edge health and regime windows, the
  numbers of a TCA record; their verdicts are free choices in the models;
* rules over a single input (most of the guard and of the risk contracts, routing, which event fires
  a cycle): one free verdict, since they keep no state another component changes;
* event windows of the scheduler, the unsupervised `start_feed`, message parsing;
* campaigns, reviews, sleeves, audit ledgers: state machines over files of their own that poll the
  service or are driven by an operator, beside the trading loop;
* declarative documents and offline evidence (`strategy`, `validation`, `venue`), the bulk of the
  repository's lines: pure functions from documents to reports;
* best-effort output (`telemetry`, evidence); `bist_core`, another program; scripts and tools.

## 6. Plan

Done, in this order: `OrderFSM`, `OrderLifecycle` with `OrderLedger` as its abstraction,
`PaperSession` on top of it, `PaperLiveService` next to it, the proofs of the log; then `SystemState`
and `TradingGates` with their proofs, `FeedRecovery` with its proofs, `FillBooks`; then the proofs of
memory against log, of the session, of the service and of the books.

What would add most from here:

1. an abstract portfolio (fills arrive once, are booked, are saved, survive a death) that
   `PaperSession` implements, as `OrderLifecycle` implements `OrderLedger`;
2. an abstract queue (events in, each out once, in order, or counted as lost) for `PaperLiveService`;
3. the steps of the leads-to properties that are safety: what a measure of the work left does in each
   step, from which only the fairness argument is missing;
4. `Campaign` (`service/campaign_controller.py`, `run_state.py`): run and campaign life cycles with
   their files, polling the status of the service;
5. the composition of several feeds with the bridge, whose readiness rule decides which events start
   a cycle, and the scheduler's event windows.
