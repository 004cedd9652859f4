# Verification of the order path of trade_xv2

TLA+ models of the order management system (OMS) of trade_xv2 and of the
infrastructure it stands on, the TLC instances that check them, and TLAPS proofs
about them. Paths below are relative to the repository (`application/...` is
under `src/src/`).

The part that must not be wrong is small: what turns a request into exactly one
order at a broker, what turns the broker's messages into orders, fills and
positions, what limits the risk in between, and what carries calls and events.
It is shared state touched by API threads, the broker's stream thread, the
reconciliation thread, the event worker and the schedulers, with three durable
stores written one after the other. That is what is modelled.

## 1. Inventory

| Component | State | Operations | Interacts with |
|---|---|---|---|
| `OrderManager` (`application/oms/order_manager.py`, `_internal/order_lifecycle.py`) | `_orders`, `_orders_by_correlation` under one `RLock` | `place_order`, `upsert_order`, `record_trade`, `cancel_order`, `modify_order`, bus handlers | everything below |
| `IdempotencyGuard` | pending correlation ids with a 24 h TTL | `check_and_reserve`, `release_pending` | order book, ledger lookup |
| `SqliteExecutionLedger` | `order_intents`, `submission_outcomes`, `fill_events` | `record_intent`, `record_outcome`, `record_fill`, lookups | placement, trade recorder |
| `SqliteOrderStore` | latest version of each order | `upsert`, `load_all` | saved outside the OMS lock, reloaded at start |
| `OrderStateValidator`, `ORDER_STATUS_TRANSITIONS` | one state machine per order, created on the first change | `validate_transition` | `upsert_order` |
| `TradeRecorder`, `FillReducer` | buffer of early trades, seen fill ids, cumulative quantity per order | `record_trade`, `flush_pending_trades_locked`, `validate`, `commit` | order book, ledger, marks, bus |
| `ProcessedTradeRepository` | trade ids in memory and in an append-only file | `is_processed`, `mark_processed`, load | trade recorder |
| `PositionManager` | positions, a state machine per symbol, the last 10 000 trade ids | `on_trade_applied`, `upsert_position` | bus, reconciliation |
| `UpstoxPortfolioStream` | last cumulative quantity per order, 1 h TTL | order and trade messages to the bus | event bus |
| `ExecutionEngine.apply_mass_status` | the broker lists of one run | heal orders, heal positions | order and position books |
| `ReconciliationService`, its wiring | stop and request events, thread, first-success flag; the context's gate and ready flag | `start`, `stop`, `_loop`, `run_now`, attach | placement gate, lifecycle manager |
| `LifecycleManager` | registered and started names | `start_all`, `stop_all`, `register` | every background service |
| `RiskManager`, `MarginChecker` | pending notional per correlation id with a 10 min TTL | `check_order`, `release_pending`, `reduce_pending` | placement, fills, positions |
| `LossCircuitBreaker`, `DailyPnlTracker`, `DailyPnlResetScheduler` | rolling samples, state and cooldown, total and day of the last reset | `record_loss`, `allow_trading`, `reset`, `update`, rollover | `check_order`, position events, operator |
| Kill switch, throttler | a flag, a counter | activate, check | `check_order` |
| `EventBus`, `EventIdempotencyGuard`, `DeadLetterQueue`, hooks | subscribers, processed window and claims, log buffer, dead letters | `publish`, `subscribe`, `set_replay_mode`, `push` | all handlers |
| `AsyncEventBus` | queue, stop event, worker | `publish`, `start`, `stop`, `_drain_batch` | wrapped bus, lifecycle manager |
| `EventLogReplay` | none of its own | replay at start | order and position managers, bus |
| `ShutdownCoordinator`, `SquareOffService` | none of their own | kill switch, cancel all, flush; close positions | order manager, gateway |
| `QuotaScheduler` | token buckets per endpoint class, in a chain of windows | `register_profile`, `acquire`, refund | every broker call |
| Upstox transport (`brokers/providers/upstox/auth`) | token state, single-flight event, TOTP cooldown | retry loop, 401 handling, `ensure_valid`, daily login | circuit breaker, broker |
| `CircuitBreaker` | state, failure and success counts, time of opening | `state`, `on_success`, `on_failure` | transport |
| Dhan, paper and other brokers; Dhan transport, pools, limiters | – | – | submit functions and streams |
| Market data, datalake, analytics, strategies, backtest | – | – | – |
| API, CLI, UI, composition root | – | wiring, formatting | – |

What is hard about it:

* **Interleaving.** Locks are held for state changes only. The duplicate check,
  the stub, the intent, the broker call, the outcome and the final record of one
  placement are separate critical sections, and so are the claim, the log and the
  handlers of one publication, the reads of one risk check, the buckets of one
  quota chain, the check and the record of one login.
* **Crashes between writes.** Intent, outcome, order row, fill, mark and file are
  separate durable writes.
* **Unreliable delivery.** A submission can be lost, or accepted with the answer
  lost. Stream messages repeat, overtake each other, or never come. Handlers fail,
  and a failed event is published again to all of them.
* **Time-outs.** Reservations, the stream's memory and the cooldowns expire while
  what they protect goes on; a `stop()` gives up on a thread that then still runs.
* **Partial failure.** Almost every ledger or file write can raise, and where the
  exception goes decides what is left behind.
* **Limits.** Id windows, dead letters, trade buffers, queues and buckets are
  bounded, and what happens at the bound is a decision of its own.

`PROJECT.json` lists each hazard at its line with the properties that watch it.

### What makes it correct

* Placement: one correlation id, one submission; what the venue holds can be found
  again; one placer at a time; no exposure left reserved for nothing; an immutable
  ledger; every call returns; every venue order reaches the book.
* Fills: the position book never takes over more than the venue filled; nothing is
  marked processed that is not on the ledger or was not counted; no order is filled
  beyond its quantity.
* Risk: a working order stays covered by its reservation, and positions and working
  orders stay within the limits; a loss halts trading for a whole cooldown and not
  for ever, and every move is counted once.
* Reconciliation: the gate opens after a clean run and does not stay shut behind one;
  a request is answered by a run that reads the books after it; a stopped loop ends.
* Events: an id the guard refuses has been taken by every handler; a second delivery
  has a reason; a failure is on record; the log comes first; the asynchronous queue
  loses and doubles nothing that is capital, and keeps the order.
* Calls: no quota is minted or leaked, the reserve is left to critical callers;
  an order write goes out once per call; one login per cooldown; the breaker opens
  and closes on what it has really seen; every call ends.

### A fact about this commit

`OrderStatus` (`src/src/domain/enums.py:18`) has neither `is_terminal` nor
`normalize`. Code that uses them raises `AttributeError`, and the models
translate what the code does, exception included:

* `upsert_order` raises after a status change, with the order stored in the book
  and the audit line written; the publication, the flush of buffered trades, the
  release of the reservation and the save are not reached. Without a status change
  the save is reached, and the wrapper raises after it.
* `cancel_order` and `modify_order` raise on every known order before changing
  anything. They have no reachable effect and no action; the cancellation of open
  orders at shutdown always fails for the same reason.
* `OrderManager.record_trade` raises after the order has been saved and its
  pending exposure reduced.
* The replay of a non-empty event log raises at its first status change and takes
  the start of the trading context with it. The models of placement and of fills
  therefore start from the order store and the marks.

The replay and the fill path were confirmed by running the code. If `is_terminal`
is added, `UpsertOrder` in `OrderPlacement` and `FillRecording` and `VenueCancels`
in `ExposureLimits` are the definitions to change.

## 2. Modules

| Module | Models | Used by |
|---|---|---|
| `OrderStatuses` | statuses, lifecycle table, `can_transition_to`, `with_status` | the two below |
| `AtMostOnceSubmission` | the promise of placement: commit, submit once, held | `OrderPlacement` (refinement) |
| `OrderPlacement` | `place_order` with guard, book, ledger, store, risk reservation, venue, feed, reconciliation, restart | |
| `FillRecording` | stream, trade recorder, reducer, marks, positions, reconciliation, restart | |
| `ExposureLimits` | `check_order` read by read, reservations, fills | |
| `LossLimits` | loss circuit breaker, daily PnL, session feed, midnight, operator | |
| `ReconciliationGate` | reconciliation service, placement gate, attachment, lifecycle manager | |
| `EventBus` | `publish` with guard, log, handlers, dead letters, replay mode | |
| `OrderedDelivery` | the promise of the asynchronous bus | `AsyncEventBus` (refinement) |
| `AsyncEventBus` | queue, worker, batches, start and stop with their deadlines | |
| `QuotaScheduler` | token buckets in a chain, priorities, deadlines, registration | |
| `CircuitBreaker` | the breaker as functions on its state | `UpstoxTransport` |
| `UpstoxTransport` | retry loop, 401s, token refresh, single-flight login, cooldown, breaker | |
| `MC...` | the instance of the module of that name | runs |
| `...Proofs` | theorems about the module of that name (section 5); `RiskProofs` is about `LossLimits` and `ExposureLimits`, `BrokerCallProofs` about `UpstoxTransport` and `QuotaScheduler` | |
| `CollectionLemmas` | lemmas about queues, windows, counting, induction and sums | the proofs of all but placement and the gate |

A step is one critical section of a lock, one durable write, one message, or all
that happens between two of those. Data is abstracted to what decides control.

### OrderPlacement

`pc[t]` follows `place_order`:

| Phase in the code | Actions |
|---|---|
| 1 `check_and_reserve` | `ReturnExisting`, `LookupRaises`, `ReportInFlight`, `Reserve` |
| 2 `build_and_validate` | `Approve`, `Reject` |
| 3 `submit_to_broker` | `Reject` (kill switch), `SkipSubmit` (no `submit_fn`), `StoreStub`, `RecordIntent` / `IntentFails`, `Send`, `Reply` / `SubmitFails`, `StoreUnknown`, `RecordUnknown`, `RecordAccepted` / `AcceptedUnrecorded`, `PublishUnknown` |
| `_release_pending` | `ReleasePending`, `ReleaseRisk` |
| 4 `record_and_publish`, `_persist_order` | `RecordAndPublish`, `Persist` |
| TTLs | `PendingExpires`, `RiskPendingExpires` |
| outside | `VenueAccepts`, `VenueDrops`, `VenueFinishes`, `FeedUpdate`, `ApplyMassStatus`, `Crash` |

An order is `[id, corr, status]`; price, quantity and symbol play no role in
control. A stream update may be stale (the venue's current status or `OPEN`) and
may lack the correlation id. Risk and the placement gate answer either way: what
they look at is in `ExposureLimits`, `LossLimits` and `ReconciliationGate`.
`Crash` keeps the ledger, the store and the venue.

### FillRecording

Orders are in one symbol; quantities are lots. `pc` of the three actors `stream`,
`recon` and `placer` says where a handler is; the OMS lock is held in the phases
`apply`, `flush_check` and `flush_apply`, between the durable writes of
`record_trade` and the flush.

| Code | Actions |
|---|---|
| `UpstoxPortfolioStream._publish`: order message | `FeedOrder`, `SaveOrder`, then `FeedNothingNew` or `FeedTrade` for the derived trade |
| trade message | `FeedTradeUpdate` |
| `record_trade` up to `record_fill` | `RecordTrade` in the two above |
| `apply_trade`, `TRADE_APPLIED`, mark, commit | `ApplyFill`, `ApplyRaises` |
| save after `record_trade` | `ReadOrder`, `SaveOrder` |
| `flush_pending_trades_locked` | `FlushCheck`, `ApplyFill`, `ApplyRaises` |
| phase 4 of `place_order` | `RecordPlacement`, `SaveOrder` |
| reconciliation | `FetchMassStatus`, `FetchPositions`, `HealOrder`, `HealPosition` |
| 1 h TTL of the stream's memory | `ForgetCumulative` |
| venue and process | `VenueFills`, `VenueCancels`, `Crash` |

A trade is named by the cumulative quantity it reaches and by its origin, as the
code's ids are (`order_id:cumulative`, or the exchange's id); the quantity is
not part of the name, which is what `TradeIdKey` does. `messages` and
`executions` only grow: any of them may be delivered at any time, again, or never.
`booked`, `counted` and `loaded` are history variables. The position book is empty
after a restart, because nothing persists it. Average prices and PnL are left out.

### ExposureLimits

| Code | Actions |
|---|---|
| `check_order`: lock and position of the symbol; `pending_symbol_notional`; positions; `pending_gross` and the gate | `BeginCheck`, `ReadPendingSymbol`, `ReadPositions`, `Approve` / `Reject` |
| `_sweep_expired` | `Sweep` inside the two reads of reservations; `Age` is the passing of the TTL |
| the submission | `VenueAccepts`, `SubmitReturns`, `SubmitFails` (releases), `VenueCancels` |
| `record_trade`, then `reduce_pending` (reads the entry, writes it back, no lock) | `RecordTrade`, `ReduceReads`, `ReduceWrites` |

Prices are 1 and capital is fixed, so limits are amounts. An order is reserved with
the multiplier of its instrument (`Notional`). A position is valued by the check with
`Position.multiplier`, which the position book never sets, so with 1 (`BookNotional`);
`Owned` is what the position is worth, and the properties are about that. Three
variables are history: `lapsed`, the working orders whose reservation was swept;
`forgotten`, the filled ones that lost in the sweep what the position book does not
count of them; and `torn`, whether a fill has moved notional from reservation to
position between the reads of one check.

### LossLimits

`ReadEquity` and `Update` are the two halves of `_feed_daily_pnl`, one outside the
risk lock and one inside; `CheckOrder` is the part of `check_order` that asks the
breaker and the daily total, with the self-heal of a total of an earlier day;
`Midnight` and `Rollover` are the day and the scheduler; `Market` moves the equity
and the capital. Times are ages counted up to where the code stops telling them
apart. A sample keeps the total it moved away from, as history.

### ReconciliationGate

The bootstrap thread attaches a service (`Detach`, `JoinReturns`, `Wire`, `Close`,
`Register`, then `run_now`), starts and stops all (`StartAll`, `StopAll`,
`StopReturns`). A loop waits (`Wake`, `IntervalOver`), clears its request (`Clear`)
and runs, as `run_now` does: `Snapshot` of the books, `Reconcile` or
`ReconcileFails`, then, when the report is clean and the service has not called back
(`Notify`), `ClaimFirstSuccess` and the callback `MarkReady`. The look at the flag and
the setting of it are two steps, as no lock is held: two runs of one service may both
call back. An event is
`RequestReconciliation`. Since books and broker may change at any moment, a
comparison may come out either way; the lists themselves are in the two modules
on orders. The loops are interchangeable threads of a service: a second one exists
only after a stop that gave up.

### EventBus, AsyncEventBus

`Publish`, `TryClaim`, `Persist` / `PersistFails`, `Snapshot`, `HandlerReturns` /
`HandlerRaises` and `Settle` are the sections of `publish`; all locks are free
between them. `Flush` is any other flush of the log buffer; the replay mode is set
in two steps, bus and hook. `taken`, `failing`, `owed`, `released`, `evicted` are
history. In `AsyncEventBus` a draining thread (a worker of `start()`, or a thread of
`stop()`) steps through `DrainLoop`, `Take` and `Dispatch`; `Start`, `BeginStop`,
`EnterJoin`, `JoinReturns` and `StopReturns` are `start()` and `stop()` under the
manager, which abandons a stop after its own deadline. `stop()` reads `_worker` three
times without a lock, once in each of `BeginStop`, `EnterJoin` and `JoinReturns`; one
that meets the `None` of another stop raises. The refinement to `OrderedDelivery` maps
`delivered` to the events handed over and `disordered` to "a stop ran out of time".

### QuotaScheduler, UpstoxTransport, CircuitBreaker

`Take` and `Miss` are one `try_acquire` on one bucket of the chain, `Refund` one
`refund` of the rollback, each under that bucket's lock only; `Exhausted`, `Sleep`
and `Wake` are the polling loop, `Register` a second `register_profile`. Tokens are
counted in units, because refill and reserve are fractions of a token.

In `UpstoxTransport` one call goes through `Begin` (breaker), `StartAttempt` (rate
limit, token), and one of `Answered`, `Rejected`, `Garbled`, `Faulted`, `SoftRetry`,
`HardRefresh`. `ClaimRefresh`, `CheckAllowed`, `RecordAttempt`, `LoggedIn`,
`LoginFails` and `WaitEnds` are the single-flight login with its leader and its
followers, entered before a request, after a 401, or by the daily scheduler
(`ScheduledRefresh`). A login may fail before its attempt is recorded (the cooldown, a
missing configuration or library) or at the broker. The breaker is the functions of `CircuitBreaker`, which run
under its lock; its counts are cut at the thresholds.

## 3. Runs

State counts are distinct states, times those of a run by itself with two workers.

| Run | Question | Result |
|---|---|---|
| `placement` | `TypeOK`, `SubmittedOnce`, `VenueOrderFound`, `NoStrandedExposure`, `LedgerStable`, `KeepsPromise`: two callers of one correlation id, lapsing reservations, a restart | holds, 500 k states, 62 s |
| `placement_live` | `SinglePlacer`, `PlacementReturns`, `VenueOrderSurfaces` | holds, 65 k states, 27 s |
| `fills` | `PositionNotAhead`, `ProcessedReachedPosition`, `MarksOnLedger`: a buy and a sell, every write failing, a restart | holds, 1.24 M states, 38 s |
| `fills_reconciled` | `FillInv`: reconciliation, expiring memory, trade messages before their order | holds, 2.94 M states, 104 s |
| `fill_snapshot` | `PositionIsSumOfFills` | violated |
| `exposure` | `ReservationInv`, `ExposureWithinLimits` | holds, 1.08 M states, 30 s |
| `loss_limits` | `LossInv`, `HaltLasts`, `HaltEnds` | holds, 443 k states, 49 s |
| `reconciliation` | `GateInv`, `OpenedByCleanRun`, `RequestServed`, `StopEnds` | holds, 130 k states, 42 s |
| `event_bus` | `BusInv`, `ProcessedWasTaken`, `DeliveredOnce`, `FailuresOnRecord`, `LoggedBeforeTaken` | holds, 1.62 M states, 52 s |
| `async_bus` | `QueueInv`, `DeliversInOrder`, `StopDrains`, `QueueDrains` | holds, 442 k states, 114 s |
| `quota` | `QuotaInv`, `SpentWithinQuota`, `ReserveForCritical`, `AcquireReturns` | holds, 90 k states, 27 s |
| `transport` | `BreakerCounts`, `WriteSentOnce`, `OneLoginPerCooldown`, `CallReturns`, `RefreshReopens` | holds, 273 k states, 124 s |

`FillInv`, `BusInv`, `QueueInv`, `ReservationInv`, `LossInv`, `GateInv`, `QuotaInv`
and `BreakerCounts` are the type invariant of their module together with the state
invariant that belongs to it; the modules name the parts.

**Bounds and why they are enough.**

* Placement: reservations and intents are per correlation id, actions on different
  ids share no state, and a third caller of one id meets only what the second meets.
  Two OM ids let both callers draw one. A second restart starts from the same durable
  state that the first has reached with every interleaving.
* Fills: an order of two lots has one partial fill, so updates can be repeated and
  overtaken; the pair adds a sell, with which the position closes, reduces and
  reverses. The buffer of 1 and the trade-id memory of 1 stand for 32 and 10 000; both
  limits are reached. `fills_reconciled` has no failing write and no restart, `fills`
  has both: together they would not finish in a few minutes.
* Exposure: three orders, of which two compete in one symbol whose multiplier is 2, so
  that the check counts its filled lots for half of what they are worth, and limits that
  admit some pairs and not others; an order of two lots has partial fills, and every
  reservation may lapse, of working orders and of what a filled one has left.
* Losses: two feeding threads can overtake each other; a window of 1, a cooldown of 2
  and two moves reach trip, recovery, cooldown, a second trip and the midnight in any
  of these phases. The capital may be zero.
* Reconciliation: one replacement, and one loop that survives its stop.
* Event bus: two threads, two events, two handlers, a window and a dead-letter queue
  of two (of which the window remembers one id, see section 4), three publications: a
  duplicate, an eviction and a lost letter all occur. Async bus: a queue of one and a
  batch of two with capital events beyond the bound; two starts and two stops.
* Quota: two priorities, three buckets with different rates, deadlines that end while
  the other caller is mid-chain, one re-registration.
* Transport: two threads, both kinds of calls, one breaker for both (it sees every mix
  a breaker of its own would see), thresholds of 2; `MaxRetries = 0` still gives a read
  two attempts.

**Symmetry** is used in `placement` (threads, correlation ids and OM ids) and
`event_bus` (threads, events, handlers), which check no liveness property.

**Deadlock** is checked in the runs on fills and in `transport`. The others may rest:
all ids placed, all publications made, all moves of the market done, the clock at its
bound.

**Fairness.**

* `placement_live`: each thread's own steps (the transport ends every call with an
  answer or a timeout, so `SubmitFails` is always possible) and `ApplyMassStatus` (the
  reconciliation thread runs on a timer). The venue, the stream, the TTLs and crashes
  are not fair, so the order surfaces although every stream message is lost.
* `async_bus`: threads that drain run, a join returns at its deadline. Starting and
  stopping is not fair; `QueueDrains` is about a bus that is not stopped any more.
* `loss_limits`: time passes and orders keep being checked, as it is `check_order`
  that ends a cooldown. That the feed goes on and that there is capital are premises of
  `HaltEnds`; a third is in the bound: after `MaxMoves` moves the market has settled and
  the samples fed from then on are zero. In a market that keeps falling the circuit may
  trip again after each cooldown, and the run says nothing about that.
* `reconciliation`: a thread's steps; the end of the interval is not among them, so a
  request is served because the loop is woken and not because it comes round anyway.
* `quota`: the clock and a running call. `transport`: a running call; each of its waits
  (rate limiter, request, follower) has a timeout.

## 4. Where the code and its documentation part

Each of these is reachable in a model. `fill_snapshot` is a run; the others have a
configuration beside the runs, and TLC finds the property named violated with it.

| Configuration | Statement | What happens |
|---|---|---|
| `FillSnapshot` | `PositionIsSumOfFills` | the order update brings the filled quantity into the book before the derived trade adds it again; the reducer refuses the trade and the position does not move until reconciliation sets it |
| `FillMarked` | `MarkedFillReloaded` | a restart between the mark and the save loses the fill on the order |
| `FillAfterHeal` | `ProcessedReachedPosition` | `upsert_position` does not move the position's state machine; the next fill needs an illegal transition and is marked without being counted |
| `PlacementInFlight` | `InFlightReported` | a second caller that arrives after the stub is stored is answered ACCEPTED, although nothing has been submitted |
| `PlacementGhost` | `OneOrderPerPlacement` | the stream delivers the order with its correlation id before phase 4: the stub stays in the book as a second open order |
| `PlacementTerminal` | `TerminalImmutable` | phase 4 stores the reply over a FILLED order |
| `AsyncReplay` | `ReplaySuppressed` | the replay ends replay mode while its events are still queued; the worker hands them to handlers as live ones |
| `ExposureRace` | `CheckSeesWholeState` | positions are read before the reservations; a fill in between is in neither, and the limit is exceeded. `ExposureWithinLimits` holds for every other interleaving |
| `ExposureFutures` | `FilledLotsCount` | the check multiplies a position by `Position.multiplier`, which the position book never sets: the filled lots of a future count with 1 each. What is missing stays in the reservation, because `reduce_pending` takes back lots without the multiplier, and goes when the TTL of ten minutes sweeps it; the next order is then approved beyond the limits |
| `LossOvernight` | `QuietDayIsFlat` | the rollover zeroes the total, the next feed still subtracts the equity of the session's start: yesterday's loss is back |
| `ReconciliationReattach` | `AttachedServiceServes` | the service attached in place of another has a name the manager has started, so its loop never starts |

`FillSnapshot`, `FillMarked` and `FillAfterHeal` were also seen by running the Python
code. More that a reader of the code may not expect, all of it in the models:

* Placement and fills: the UNKNOWN path of `place_order` releases the exposure of an
  order the venue may hold; `place_order` delivers an order without flushing the trades
  buffered for it; the flush commits a fill to the reducer before ledger and order have
  taken it, so a fill that raises there is refused from then on; with an expired memory
  (`Fills.cfg` with `MemoryExpires = TRUE`) `PositionNotAhead` fails, because the
  cumulative quantity is published as a new trade.
* Risk: `reduce_pending` does not apply the multiplier the reservation was made with,
  and only what it leaves there stands for the lots the position book counts for less
  than they are worth (`ExposureFutures`); a cancelled order keeps its reservation until the TTL; a write of `reduce_pending`
  after a sweep brings a reservation back that has no date and never expires. An open
  loss circuit never ends without new samples, a cooldown closes without looking at
  the losses again, and a capital of zero or less neither trips nor recovers.
* Reconciliation: a late clean run of a replaced service opens the gate of the new one;
  the gate never closes again on later drift.
* Events: the id window remembers one id less than `max_processed_events`; a handler
  that succeeded gets the event again when another one failed.
* Quota: a window bucket starts full and refills, so up to twice its capacity passes in
  one window although it is called a hard cap; registering a profile again fills it.
* Transport: a rate-limit timeout, a failed mint and an order write after a 401 count as
  breaker failures although authentication is said not to; of two threads that log in
  after each other the second is refused by the cooldown and its call fails; a follower
  goes on with the rejected token when the leader's login failed; a probing breaker
  admits any number of calls.

## 5. Proofs

TLAPS checks every proof below to its leaves. The theorems hold for every value of
the constants, under the one assumption each module names, which its run evaluates;
bounds on restarts, publications or moves are arbitrary numbers in them. Each main
theorem follows one scheme: an inductive invariant, `Init` implies it, every action
keeps it (one step per action), it implies the property, and a last temporal step
combines the three.

| Module | Theorems | Assumption |
|---|---|---|
| `OrderPlacementProofs` | `PlacementInvariant`, `TypeCorrect`, `NoDoubleSubmission`, `VenueOrdersRecoverable`, `LedgerIsStable`, `PlacementKeepsPromise`, `OnePlacerAtATime`, `ExposureNeverStranded` | `PlacementAssumption` |
| `FillRecordingProofs` | `MarksOnLedgerAlways`, `FilledWithinOrderAlways`, `MarkedIsCounted`, `FillInvAlways`, `PositionNeverAhead` | `FillAssumption` |
| `RiskProofs` | `HaltLastsAlways`, `LossInvAlways`; `ReservationInvAlways`, `ExposureStaysWithinLimits` | `LossAssumption`; `ExposureAssumption` |
| `ReconciliationGateProofs` | `OpenedByCleanRunAlways`, `GateNeverShutForGood` | `GateAssumption` |
| `EventBusProofs` | `OneDispatcherAlways`, `ProcessedWasTakenAlways`, `DeliveredOnceAlways`, `LoggedBeforeTakenAlways`, `FailuresOnRecordAlways`, `BusInvAlways` | `BusAssumption` |
| `AsyncEventBusProofs` | `QueueInvAlways`, `BusDeliversInOrder`, `StopDrainsAlways` | `AsyncBusAssumption` |
| `BrokerCallProofs` | `LoginsCoolDown`, `WritesGoOutOnce`, `BreakerCountsAlways`; `SpentWithinQuotaHolds`, `ReserveHolds`, `QuotaInvHolds` | `TransportAssumption`, `ThresholdAssumption`; `QuotaAssumption` |

Every invariant a passing run checks is stated by one of these theorems.

**Collections** (`CollectionLemmas`): queues and windows without repeated elements,
counting in them, and sums. A sum over orders, samples or callers is a fold of the
`Functions` module, and what a fold returns is a fact by induction. The induction
theorems of the library take the statement as an operator and cannot be cited; the
lemmas `FiniteSetInduction` and `NaturalInduction` say the same of a *set* of finite
sets or numbers that is closed under one step, and follow from the library's
`FS_StrictSubsetOrderingWellFounded`, a plain fact. From them: a table of partial
sums exists and is unique (`SumTableExists`, `SumTableUnique`), the fold is that
table (`SumIsTable`), and the rules the proofs cite, such as that the sum changes as
much as one term does (`SumOfChanged`), that sums are monotonic, and how the sum of
a sequence changes at both ends. They have no model of their own to be checked on;
they are about operators of the library and hold for all finite sets and sequences.

**Placement** (`PlacementInv`). `SubmittedOnce` is not inductive: a caller that is
about to submit relies on nothing but its own progress, because the reservation in
the guard may lapse while it runs. What protects the venue is the unique
`correlation_id` of `order_intents`: only the caller whose insert succeeded goes on
to `Send`. So the invariant relates the phase of a caller to what is on record:
`CallInv` (what a caller holds in each phase), `OwnIdInv` (OM ids of different
callers differ), `IntentInv` (an intent belongs to one caller and one id) and
`SentInv` (who may still send, and that everything sent has an intent). `LedgerStable`
needs `OwnIdInv`, since `record_outcome` is keyed by the order id. The refinement
maps `committed` to the correlation ids with an intent and `held` to the venue's
orders; `RecordIntent`, `Send` and `VenueAccepts` are its steps, all others stutter.
`SinglePlacer` says nothing while reservations may lapse; otherwise it is inductive
by itself, and its proof groups the steps by whether they keep, hand over or never
had the reservation. `NoStrandedExposure` needs in addition that a call which is only
left with saving its order has it in the book, and that the book forgets an order's
correlation id in a restart only, which empties the reservations too (`Backed`).

**Fills** (`Types`, `Within`, `Holder`, `MarksOnLedger`). The reducer checks a trade
in one section of the code and applies it in a later one, with durable writes in
between. `Holder` says what the OMS lock makes of that: one actor is in these
sections, the trade it validated is still the first of its work, is on the ledger
and fits its order. `Within` bounds everything an order may be overwritten with: the
venue, the messages, the fetched lists, the snapshots waiting to be saved.
`MarkedIsCounted` is stated for a process that does not reconcile (`~Reconciles`), as
in the run `fills`: there the state machine of a position agrees with its quantity
(`PositionInState`), every trade then finds a legal transition, and so every trade the
position book remembers has been counted. Healing moves the quantity and not the
state, and breaks exactly this (`FillAfterHeal` in section 4). `FillInv` adds the
types of the other books, which each step leaves alone or changes in one place
(`RestTypes`). `PositionNeverAhead` is a balance: of each order, the lots the position
book took over, those in the buffer and those in hand add up to at most what the
stream has derived (`Derived`), and the stream derives from what the venue had
reported (`Fed`). Both hypotheses are needed, as TLC shows when either is dropped: an
entry of the stream's memory that times out makes the next fill a trade of the whole
cumulative quantity, and trade messages of the venue's own name the same fill a second
time. Repeated and reordered messages, failing writes, reconciliation and restarts are
all allowed.

**Losses** (`HaltInv`). The cooldown and the time since the trip are two clocks that
start at different moments; the cooldown never runs ahead of the other, and a circuit
that closed by itself has been through all of it. `LossInv` needs that the samples are
a chain, each beginning at the total the one before it ended at and the last ending at
the present total (`ChainInv`); a chain adds up to the way from its beginning to its
end, and taking samples from its front leaves a chain.

**Exposure** (`ReserveInv`; `ExposureInv`). What a check can know of an order by its
reservation only is `Unbooked`: what it may still be filled with and, of what it was
filled with, what the position book does not count. `ReservationInv` says that the
reservation covers that, and is not inductive: while a fill is between the position
and the reservation, `reduce_pending` will write back a value it has read earlier.
`CoversOrder` says that the entry covers the lots of such a fill on top, and that what
the feed thread read is still there, because one thread delivers trades and no other
step touches the entry before it lapses or the order is given up.

`ExposureWithinLimits` relates the four reads of a check, none of which sees one state
of the account. `Checked` bounds, after each read, what the positions count for *now*
and what is unbooked *now* by what has been read so far: after the first read the
position of the symbol, but for the lots of a fill that is under way and began after
the check did (`MissedIn`); after the second, position and unbooked rest of the symbol
by both reads; after the third the positions, with the same exception as the first. A
fill that also gives its reservation back within the check would break the bounds, and
is what `torn` excludes (`ExposureRace` in section 4). Then `WithinLimits` makes the
approved order fit (`LimitedStep`), and every other step only shrinks the sum of
positions and unbooked rests (`NoApprovalNoMore`). The limits so kept are on what the
book counts and the reservations hold. That they bound what the account owns at its
worth takes one invariant more: what the book leaves out of a position is at most what
it leaves out of the fills it comes from (`Booked`), which their reservations hold as
long as none of them was swept (`WorthIsCovered`); `ExposureFutures` is what happens
then.

**Reconciliation** (`Types`, `Reports`, `Fresh`, `NotShutForGood`,
`OpenedByCleanRun`). A run that is about to call back holds a clean report (`Reports`).
The callback is given once per service; that the gate is not shut behind a service
that has spent it needs what the bootstrap thread relies on between setting the gate
and registering the service: no loop of it is alive, and it has not called (`Fresh`).

**Event bus** (`Types`, `Claims`, `Taken`, `Once`, `Logged`). The claims of the guard
are those of the publications under way, one each; what such a publication has not
delivered yet is in its own list of handlers; deliveries are balanced against
releases and evictions; and every publication has passed the hook before its
handlers. `LoggedBeforeTaken` counts the hook's memory buffer as the log: an event that
is in the buffer when the process ends is not on disk, and the property does not say
that it is. `Lost` counts the failures without a letter: a letter that is pushed out is
counted, and a failure without one can only have lost it that way.

**Asynchronous bus** (`Types`, `Apart`, `OneDrainer`, `Ordered`). Nothing is lost or
doubled whichever threads overlap, because each cut of the queue is made under its
lock (`Apart`). The order is a stronger matter: it needs that one thread drains, which
holds while every stop has ended in time (`OneDrainer`); then what was handed over,
that thread's batch and the queue, one after the other, are what was accepted. The
refinement to `OrderedDelivery` and `StopDrains` follow from that.

**Transport** (`LoginInv`; `CallInv`; `BreakersInv`, `TokenInv`). The cooldown is
checked and recorded in two unlocked steps; that one login falls into one cooldown
rests on the single flight around both (`SingleFlight`) and not on the cooldown. For
writes, the invariant says which attempts can have reached the broker in each place
of a call. The breaker's counts agree with its state whatever ends late.

**Quota** (`QuotaInd`, then `SpentWithinQuota` and `ReserveForCritical` themselves,
`QuotaBalance`). What a rollback may give back is what the attempt has really taken:
`QuotaInd` says that the buckets an attempt holds are consecutive ones of the chain, of
registrations there have been, and that each has a token of the caller on its account.
With it the bound on what was spent and the reserve are inductive, each a sum over the
callers that one step changes by one; a refund that is cut off at the capacity only
makes the bucket poorer. `QuotaBalance` counts, per caller and level, what was paid to
the buckets of all registrations against what was granted and is held.

### Only model-checked

* Liveness under fairness (`PlacementReturns`, `VenueOrderSurfaces`, `HaltEnds`,
  `RequestServed`, `StopEnds`, `QueueDrains`, `AcquireReturns`, `CallReturns`,
  `RefreshReopens`): `ENABLED` and fairness are out of the prover's reach.
* The violations of section 4, which are counterexamples.

## 6. Not modelled

Cancellation and modification, and the shutdown that relies on them, cannot change
anything at this commit. What a replay of the event log rebuilds: it aborts at its
first status change. The kill switch and the throttler are a flag and a counter; the
models have their effect, a rejection. Square-off places orders like any other
caller, with fresh correlation ids, and nothing in the code prevents a position from
being closed twice, so there is no property of the code to state. Dhan's order stream
publishes nothing at this commit, its transport repeats the patterns modelled for
Upstox; the paper broker fills synchronously. In the transport, the OAuth mode and the
interactive browser login are left out, and with them the fallback of a failed TOTP
login to a refresh token; so is `UpstoxTokenManager.bootstrap`, which logs in at start
without the single flight (`token_manager.py:141`) and is outside what
`OneLoginPerCooldown` says. In the quota scheduler, the default bucket of
an unregistered class and `acquire_async`, which repeats the loop of `acquire`.
Market data, datalake, analytics, strategies and backtests are numerical and columnar
processing without shared mutable state; interfaces and the composition root are
wiring, formatting and I/O. `PROJECT.json` gives the reason for each component.

## 7. Plan

Modelled and checked: everything in section 2. What is left, in order:

1. The composition of `AsyncEventBus` with `EventBus`: the order in which handlers see
   events when several publishers and the worker meet in the guard.
2. When `OrderStatus` has `is_terminal`: cancellation and modification, the replay of
   the event log and the shutdown coordinator, each of which this commit ends with an
   exception before it changes anything.
3. The Dhan order stream and transport, once the stream publishes.

## 8. Running

    tlc -workers 2 -config Placement.cfg MCOrderPlacement
    tlc -workers 2 -config Transport.cfg MCUpstoxTransport
    tlapm OrderPlacementProofs.tla      (and the other ...Proofs modules)

Definitions marked as mutants (or as a bug's shape) are altered versions of the one
that follows them. `PROJECT.json` pairs each with the property it breaks.
