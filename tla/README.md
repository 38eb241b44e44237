# XTS tenant gateway: verification

TLA+ models, TLC runs and TLAPS proofs about the multi-tenant trading cluster in
this repository. Each tenant has a *client* container (`client/`) that receives
TradingView webhooks, runs strategy engines and sends orders to the Symphony XTS
broker; a *portal* (`portal/`) provisions, supervises and commands those
containers. The models follow the money first: the order path of one client, the
runners that feed it, the broker's position and who else moves it; then what
that path depends on (sessions, contracts, the order gate) and the portal that
switches clients on and off.

    tlc  -workers 2 -config MCSignalPipeline.cfg MCSignalPipeline
    tlapm SignalPipelineProofs.tla

`PROJECT.json` lists the components, runs, mutations, findings, hazards and
theorems, and maps every definition to the source lines it stands for.

## 1. The system

| Part | State it keeps | Operations | Hard behaviours |
|---|---|---|---|
| Webhook ingress and dispatch, `client/main.py` | SQLite rows `signals`, `signal_dedup`; `TRADING_PAUSED`; a lock per symbol | `/webhook`, `_dispatch_and_record`, pause, resume | handlers, background threads and recovery interleave; the pause switch is read once |
| Crash recovery, `client/main.py` `lifespan` | the unfinished rows at start-up | `process_recovery` | the broker may know more or less than the row says |
| Order placement, `client/xts_api.py` | none of its own | `place_order`, `verify_order_rms_acceptance`, `execute_trade_with_retry`, partial-fill guard | timeouts, garbled replies, one retry, slices |
| Rate limiter and slices, `client/xts_api.py` | `tokens`, `last_update` | `acquire`, `slice_quantity_for_freeze`, `cancel_all_orders` | many threads, fractions of permits, a wall clock that may be set back |
| Token sessions, `client/xts_api.py` | interactive and market-data tokens, a refreshing flag each | single-flight login, proactive refresh, `clear_tokens` | waiters, timeouts, a clear that races a login |
| Instrument master cache, `client/xts_api.py`, `client/config.py` | `FUT_MASTER`, `CASH_MASTER`, `CACHE_DATE`, `REFRESH_LOCK` | refresh, watchdog, choice of the contract, cut-off dates | midnight in the middle of a refresh, broken lists, early returns under a lock |
| SuperTrend runner, `client/supertrend_engine.py` | `virtual_position`, `active_contract_id` (both saved to SQLite), last processed candle, `is_enabled`, an asyncio lock | `evaluate_cycle` (flip, rollover, expiry), `sync_to_current_trend`, `reset_to_flat`, `update_config` | legs of slices, each of which may fail; a position that is never read back from the broker |
| SuperTrend fleet, `client/supertrend_engine.py` | the runners, rejection history per symbol | `run_loop`, `reconcile_positions`, registry | a broker snapshot that is stale when used |
| Panic and square-off, `client/xts_api.py`, `client/main.py` | `TRADING_PAUSED`, all virtual positions | cancel all, square off all, zero the positions | concurrent flips and reconciliation; a repeated request |
| Custom strategies, `client/custom_strategy_engine.py` | position per strategy, not persisted; a sandbox process | evaluate, enter | the position is set whatever became of the order |
| Portal operations, `portal/main.py`, `portal/database.py`, `portal/caddy_manager.py` | tenant rows, strategies (two tables), routes | add, edit, pause, resume, delete, strategy forms and their JSON twins | the database, `config.json`, the container and the routes change one after the other |
| Portal scheduler, telemetry, bulk operations, `portal/` | jobs, event queues, lists read once | drawdown breaker, warm-up, fleet alignment, bulk pause and resume, global panic | late answers repeated at another address; lists that are stale when used |
| Container life cycle, `portal/docker_manager.py` | containers, `config.json` | create, restart (`unless-stopped`), remove | Docker fails between two steps |
| Portal security, `portal/security.py` | sessions, TOTP, lockouts | login | – |
| Backup, scripts, frontends, TradingView scripts | files | – | I/O and presentation: not modelled |

Interactions. A TradingView alert is an HTTP call to the ingress. It and the
strategy engines insert a `pending` row and call `_dispatch_and_record`, which
holds the symbol's lock around `execute_trade_with_retry`, one POST per
freeze-limit slice, each after a permit of the token bucket, and writes the
verdict to the row. A runner awaits that call once per slice and adjusts its
virtual position by the reported status. The drift watchdog of the run loop
compares the sum of the virtual positions with the broker and trades the
difference. The portal reaches a client through `/internal/*` calls and `/panic`,
at up to three addresses one after the other. Panic and the watchdog bypass parts
of the order path. A restart reads the rows and the positions back, and the
strategies from `config.json`.

What makes the parts correct: a signal leads to at most one order per slice and
to one verdict, for good, that agrees with the broker; orders on one symbol do
not overlap; every signal gets a verdict; a runner's books are the broker's
position; a position never exceeds the configured size and is never entered
against what is still open; what moves the position besides a runner brings the
two together again; one login at a time, and nobody is given a refused token; no
expired contract from a list of the day; no window of time with more orders than
the rate allows; a report says what the broker took; a deleted tenant stays
gone, a breach ends in a pause, every job ends. `PROJECT.json` lists under
"hazards" where the code is exposed to each of these going wrong.

## 2. Modules

| Module | Models | Proofs |
|---|---|---|
| `SignalLedger` | abstract: what the gateway promises for each signal | in `SignalPipelineProofs` |
| `SignalPipeline` | webhook, dedup, pause, dispatch threads, symbol locks, slices, network and broker, crash and recovery; implements `SignalLedger` | `SignalPipelineProofs` |
| `StrategyRunner` | one SuperTrend runner in LIVE mode with its broker position | `StrategyRunnerProofs` |
| `PositionControl` | the runners of a symbol, the run loop with its watchdog, panic and square-off, and the broker | `PositionControlProofs` |
| `OrderGate` | the token bucket, slices, and every kind of thread that asks for permits | `OrderGateProofs` |
| `TokenSession` | a broker session shared by threads | `TokenSessionProofs` |
| `MasterCache` | the list of contracts and the calendar that chooses one | `MasterCacheProofs` |
| `TenantControl` | the portal's hold on a tenant: row, file, container, routes, client memory, scheduler | `TenantControlProofs` |
| `FleetJobs` | bulk jobs, event streams, fleet alignment, syncs and the global panic, with clients that answer late | `FleetJobsProofs` |
| `MC...` | instances for TLC | – |

Operators whose comment begins with *Mutation* are not part of a specification:
each is a plausible mistake in the definition below it, and shows that a
property notices it.

How they compose. `SignalPipeline` is one order exchange after the other;
`StrategyRunner` sees such an exchange as one order with a fate; `PositionControl`
sees a runner's leg as one order and adds those who move the position without the
runner; `FleetJobs` sees a whole sync as one handler of a client and adds those
who ask for it; `TenantControl` sees a client as its strategy in memory.
`OrderGate`, `TokenSession` and `MasterCache` are what an order exchange waits
for; the other modules let such a wait fail.

### SignalPipeline and the code

- *Rows.* `row` is the status column of `signals`, `shield` the table
  `signal_dedup`; both survive a crash. A row absent from the table is `none`,
  one deleted by the weekly pruning is `pruned`.
- *Threads.* `pc[s]` is where the handler, background task, engine thread or
  recovery job that works on signal `s` is. `asPaper`, `attempt`, `placed` and
  `verdict` are its locals; `owner` the holder of each symbol lock. A crash
  clears them.
- *One action per atomic step*: `Receive` (the pause check), `Screen` (the dedup
  transaction), `Stage` (insert of the row), `EngineStage`, `Begin` (row to
  processing), `Acquire`, `Post`, the five ways a POST ends, `Record` (the
  verdict is written), and the notification: `Notified` releases the lock,
  `NotifyRaises` first writes `failed` over the verdict, as the handler of
  `_dispatch_and_record`'s exceptions does.
- *Broker and network.* `order[s][k]` is the life of the latest request for
  slice `k`: in flight, lost, denied, or booked with a status; `booked` counts
  bookings. A request that timed out may still be booked later.
- *Verification.* `verify_order_rms_acceptance` and recovery look orders up by
  `order_ref`, so `Reports` is a set over all signals with that reference.
- *Recovery.* `Boot` snapshots the unfinished rows; `Recover` asks for the
  base reference (slice 1), closes the row or queues the signal again without
  `is_paper`.

### StrategyRunner and the code

- *Books.* `virtual` and `active` are `virtual_position` and
  `active_contract_id`, `saved` the row of `strategy_virtual_positions`; `held`
  is the broker's net position in the old and in the new front contract, in lots.
- *Operations.* `task` is what holds `self.lock`; `leg`, `side`, `size`, `left`
  and `tries` are the loop variables of `_execute_exit` / `_execute_entry` and
  of the retries around them. `Turn` is the choice of legs shared by a flip
  and a sync.
- *Orders.* One order is one slice: `Send` fixes its contract (`Destination`:
  only a rollover and a reset name one), `OrderEnds` is what became of it. It
  abstracts the pipeline: `filled` and `refused` are reported as such; `unseen`
  is a timeout whose order was filled; `cancelled` is accepted and then taken
  back by the partial-fill guard.
- `SliceDone`, `ExitDone`, `EntryDone`, `ExitFails`, `EntryFails` are the
  continuations after a dispatch returned, with the save that belongs to each.
- *Candles.* `trend` and `candle` are the verdict on the last closed candle;
  `taken` compares it with `last_processed_candle_time`; `judged` remembers
  whether a candle has closed since the cycle looked.
- *Restart* reads `saved`, clears the pause and takes `is_enabled` from the
  tenant's configuration, whatever it was in memory.

### PositionControl and the code

- Everything between two awaits is one step: the coroutines share an event
  loop; orders and queries run in threads and are separate steps.
- *Runners.* `lock`, `leg`, `aim`, `amount` and `order` are the operation that
  holds a runner's lock; a leg is one order. `queued` are cycles past their first
  checks that wait for the lock. `Books` and `Refuses` are the broker's side of an
  order, `Reported` and `Fails` the coroutine's.
- *Run loop.* `loop` is where `run_loop` is: it asks for positions and orders,
  checks the guards, judges the drift, awaits the primary runner's lock, heals,
  then starts a burst of cycles and waits for all of them. `want`, `seen`, `open`
  and `heal` are the locals it carries over those awaits; `backoff` the rejection
  history with the margin breaker. `stirred` is a history variable, not the code's:
  the query was misled, or others than the loop's cycles have since moved the
  position, or the target after it was summed again.
- *Panic* is four steps: cancel, ask for positions, close them, zero the virtual
  positions one runner after the other. `SquareOffAsks` and `SquareOffCloses` are
  the single square-off.
- *Events* (orders lost after acceptance, resting orders, syncs, short margin,
  switches, others who trade the symbol, failing queries) are switched on by a
  constant.

### OrderGate and the code

- *The bucket* is kept in units of time: a permit costs `Grain`, one unit flows in
  per tick, and `Capacity` is the most it holds (8 permits at 8 a second in the
  code). `Refilled` is the refill under the bucket's lock; `Permitted`, `Sleeps` and
  `Denied` are the three ways a turn of the loop in `acquire` ends. A look that
  ends in sleep writes `tokens` and `last_update` all the same.
- *Threads.* `place` is `place_order`, `single` and `panic` the square-offs, `cancel`
  is `cancel_all_orders` (and the first half of a panic), `clean` the guard of a
  partial fill. An order gives up its rest with the slice that fails, a square-off
  only the slice. `sent` and `lost` are what the report counts.
- *Clock.* `Tick` lets time pass, over threads that could go on only `MaxStalls`
  times; `SetBack` sets `time.time()` back.
- Left out: prices, references, the verification of an accepted order (in
  `SignalPipeline`), and the query for positions before a square-off (in
  `PositionControl`).

### TokenSession and the code

`token` counts logins, `aged`, `failing` and `cooling` are its age, the last error
and the cooldown, `refreshing` the single-flight flag, and `held` and `refused` what a
thread was given and refused in this call. `Enter` is the decision under the
condition variable: take what another thread fetched, wait, or log in; `Posted`,
`BrokerGrants`, `LateGrant`, `LoginSucceeds`, `LoginFails`, `Finish` are a login and its
`finally` block. `kind` chooses between the interactive and the market data
session, whose differences are disjuncts. A call is retried once with
`force_refresh` after `clear_tokens`.

### MasterCache and the code

A day has four periods (closed, 09:00 to 14:00, to 17:00, evening). `fut`, `cash`, `date`
are the masters and `CACHE_DATE`, `lock` is `REFRESH_LOCK`, `cool` the cooldown, `today` the
date a refresh took at its beginning. `Begins`, `Acquires`, `FindsBusy`, `Fetches`,
`Leaves` are the steps of `refresh_master_cache` with every early return; a refresh
that fetches publishes the list and stamps it with `today`, whatever day it is by
then. `Looks` copies the masters under `CACHE_LOCK`; `Finds` chooses by `Candidates`
and `Nth`. A waiter's take and release of `REFRESH_LOCK` is one step, and the 25
seconds it waits at most are not counted as a fault.

### TenantControl and the code

- `status`, `row` and `old` are the tenant's row, its strategy and the strategy of the
  old single-strategy table; `file` the strategy in `config.json`; `box` the container;
  `live` and `halted` what the client has in memory; `route` and `stale` what Caddy
  has.
- The portal is one event loop: a handler is one step up to its first request to
  the client (`Sends`), and a step for each address tried (`Answered`, `Unanswered`). A
  request that timed out may still be served (`late`).
- The scheduler is one loop: breaker, warm-up at 08:30, rest. Its lists are read
  once (`list`), so a tenant may be deleted or paused before its turn. An exception in
  the warm-up ends it (`BreaksOff`); within 15 seconds it may begin again.
- Docker works, fails or raises (`Outcome`). When it fails, a container may be left that
  was not started, or the old one may stay: `provision_client_container` swallows the
  error of the removal, then the name is taken, and the old client runs on with its
  memory while `config.json` is already new (`Starts`). When Docker cannot be reached,
  `docker_manager.py` tries to start the client as a process in `../client`. The image
  of the portal holds `portal/` only (`portal/Dockerfile`), so this raises, and what
  remains of the handler, the reload of Caddy included, is skipped (`ReloadsAfter`).
- `loss` is the day's: at 08:30 it is forgotten or, with positions carried over, kept.
- `Crashes` and `PortalRestarts` lose what is in memory; the start of the portal copies
  strategies of the old table that are missing in the new one.

### FleetJobs and the code

`worker` is the coroutine of one tenant in a bulk job, `free` the semaphore, `queue` the
job's events, `stream` the browsers that read them, `post` the portal's requests and
`hand` the handlers that run in the clients, which go on when their caller has gone.
`virt` and `book` are the runner's and the broker's position. One job is modelled per
life of the portal, and one strategy per tenant. `RepeatedSyncsAgree` and
`SyncedMeansSynced` are asked up to the first panic, because a panic closes
positions behind the runners' backs; what it does to them is `PositionControl`'s.
A stream ends after `MaxWaits` timeouts of 15 seconds (five in the code).

## 3. Runs

| Run | Question | Bounds |
|---|---|---|
| `signal_pipeline` | Is no slice booked twice, is `done` true of the broker, do locks exclude, are verdicts final but for a notification that raises, does the pipeline implement `SignalLedger`? | two webhook signals of the same content on one symbol, one of them with two slices; one crash |
| `signal_settles` | Does every staged signal get a verdict? | a webhook and an engine signal on one symbol, two crashes |
| `runner_sliced` | Do the books, what is saved of them and the size hold through partial legs, retries, syncs, switch-offs and a restart? | two lots in slices of one; orders filled or refused; one restart between orders |
| `runner_ends` | Does every operation free the lock? | one lot; rollover, expiry, reset, forced reset; a restart that may leave an order at large |
| `position_control` | Does a panic that met no runner half way have the last word on their positions and leave the symbol flat? | two runners of one lot; orders lost after acceptance, short margin, panic, switches; one fault, two calls |
| `position_settles` | Does a heal make the broker agree with the runners, unless its query failed or somebody other than the loop traded while it waited? Do broker and runner agree again and again? | one runner and every event: as above with resting orders, syncs, failed queries, square-offs and others who trade; two faults, two calls. Two runners with one fault give the heal the same answer (five million states, too many for the liveness) |
| `order_gate` | Is no window of time given more permits than the rate allows? Is a thread refused only after it has waited on an empty bucket? Are reports and slices true, does every request end? | an order of four units in two slices, a panic with an open order and a position of four, the guard of a partial fill; three half permits of capacity, 20 ticks, one step back of the clock, one stall, one refused request |
| `token_session` | One login at a time? Is nobody given what was refused, do tokens only get newer, does every login and call end? | two threads, two logins, one expiry, both kinds of session |
| `master_cache` | No expired future from a list of the day? Has the refresh lock an owner, does the contract only roll forward and change while one can trade, is the list renewed every day? | a caller and the watchdog; days 0 to 2; contracts expiring on days 1, 3 and 4, so that the front contract changes on the afternoons of days 0 and 1 (the second pulled back by the morning holiday of day 2) and old lists still hold the contract left behind; one fault |
| `tenant_control` | Does nothing of a deleted tenant come back? Is every fault repaired in the morning, does a breach end in a pause? | one tenant with a row in the old table; two addresses, two calls, two faults; every operation |
| `fleet_jobs` | Do broker and runner agree however requests are repeated? Is a client reported as synced in sync, is no permit lost? | two tenants, one permit, two addresses, two calls, two faults |
| `fleet_ends` | Does every job and every event stream end? | two browsers on one job's queue, one timeout each, two calls, two faults |

Why these are enough. *Signals*: two give every pairwise race of the pipeline
(lock, dedup shield, shared reference); two slices are the smallest number with a
first, a last and a boundary between them; one crash reaches every point of a
signal's life and its recovery, and the liveness run adds a crash during recovery.
*Runner*: two lots in slices of one give a leg that fails half-way. `MaxHeld` only
stops an operation from starting on a position that the code has already let grow
without bound; in the safety run it is never the reason an operation does not
start. `runner_ends` keeps one lot because the retries it is about do not depend on
the size, and leaves syncs out because they have no retry. `MCRunnerRolls.cfg`
checks the books and the size through rollovers; it passes. *Position*: two
runners are a primary and another one, so a target is a sum and a heal is ordered
by one runner for both; the second run keeps one runner so that every event fits.
*Gate*: an order, a square-off and a guard wait at once, and the bucket holds less
than they ask for together; a permit is two units, so a refill leaves a fraction.
*Session*: the second thread is a waiter, a late login and a refuser in turn.
*Master*: three days have a first and a second midnight, a contract that expires
at once and one that has to be rolled. *Portal*: what is asked is about one
tenant's parts (`tenant_control`), or about tenants that share a permit and a
queue (`fleet_*`); two addresses give a first, a late one and a last.

Counters that only bound a run are named `Max...`: crashes, faults (a failure the
environment may inflict), calls (what a user may ask for), logins, expiries, days,
setbacks, stalls. Deadlock is checked in `signal_pipeline`, `signal_settles` and
`token_session`. The other configurations say `CHECK_DEADLOCK FALSE`, because
there the system may rest: a runner between candles, a portal nobody calls, a day,
a clock or a queue at the bound. `TypeOK` is a theorem of every module but the
abstract one, so no run repeats it.

### Disagreements found

A configuration that is not in the table above demonstrates a sentence of the
repository that the code does not keep, or a condition that a property or a
theorem needs. Run it by hand: TLC stops with a counterexample. "findings" in
`PROJECT.json` quotes the sentences.

| Configuration (`tlc -config` it, with the module named) | Property | What happens |
|---|---|---|
| `MCSliceCrash` `MCSignalPipeline` | `DoneMeansEverySlice` | A crash between two slices: recovery looks at the first slice only and records the signal as done. |
| `MCPaperRecovery` `MCSignalPipeline` | `PaperStaysPaper` | Recovery dispatches a paper strategy's pending row as a live order. |
| `MCPauseRace` `MCSignalPipeline` | `PausedMeansNoPost` | A signal that passed the pause check sends its order after the pause. |
| `MCSharedRef` `MCSignalPipeline` | `DoneMeansOwnOrder` | Two accepted signals have one `order_ref`: recovery closes the second on the first one's order. |
| `MCBlindRetry` `MCStrategyRunner` | `NoBlindRetry` | A flip leg that timed out is sent again under a new reference, and is filled twice. |
| `MCRollLots` `MCStrategyRunner` | `RollKeepsLots` | A rollover leg refused after its first slice is retried with the whole quantity. |
| `MCResetRefused` `MCStrategyRunner` | `ResetClosesBroker` | A reset whose exit order is refused reports the strategy flat. |
| `MCPendingOrder` `MCStrategyRunner` | `PendingSuppresses` | The pending-order check reads keys the order rows do not have, so a flip starts over a pending order. |
| `MCMidOrderCrash` `MCStrategyRunner` | `RecoveryNeverDuplicates` | A crash between a fill and its report: the position is recovered without it and ordered again. The drift watchdog may correct it afterwards (`position_settles`). |
| `MCStaleHeal` `MCPositionControl` | `HealIsCurrent` | A sync ends while the watchdog waits for the lock: the target is summed again, the broker's position is not asked again, and the heal orders a difference that is gone. |
| `MCPanicInFlight` `MCPositionControl` | `PanicSticks` | A panic in the middle of a flip zeroes a virtual position to which the flip then adds. |
| `MCSmallFreeze` `MCOrderGate` | `UnderFreeze` | A freeze limit below one lot: the slice is one lot, above the limit. |
| `MCUnpaidPanic` `MCOrderGate` | `PostsArePaid` | A panic whose token is refused logs in and posts the slice again without a permit. |
| `MCStaleContract` `MCMasterCache` | `NeverExpired` | While no new list can be had, an old one gives out an expired contract. |
| `MCFutureLost` `MCMasterCache` | `FutureStaysFuture` | A list without futures turns a future into the share of the same name. |
| `MCRefreshReport` `MCMasterCache` | `ReportIsTrue` | A refresh that only waited for another one reports success whatever became of it. |
| `MCEditWakes` `MCTenantControl` | `PausedStaysDown` | Editing a paused tenant starts its container. |
| `MCLegacyReturns` `MCTenantControl` | `RemovedStaysRemoved` | A removed strategy comes back from the old table at the next start of the portal. |
| `MCOrphan` `MCTenantControl` | `GoneIsStopped` | Docker fails while a tenant is deleted: the container goes on without a row. |
| `MCPanicTwice` `MCFleetJobs` | `PanicTurnsNothing` | A panic answered late is sent to the next address: two square-offs read the same position and the second turns it round. |

Others need only other constants in a copy of a configuration:

| Property | Constants | What happens |
|---|---|---|
| `OneOrderPerSlice` | `MCSliceCrash` with `Signal = {w2}`, `OddStatus = TRUE` | The broker reports a status outside `XTS_STATUS_CODE_MAP`: recovery sends the order again. |
| `PartialIsRecorded` | `MCSliceCrash` with `Misread = {w1}`, `MaxCrashes = 0`, as a PROPERTY | Unit counts that contain 502, 503 or 504 are read as a gateway error and hide a partial failure. |
| `OneContract` | `MCBlindRetry` with `Events = {"sync", "rollover"}`, `Fates = {"filled"}` | A sync between the change of the front month and the rollover trades the new contract. |
| `BreakerEndsDrift` | `MCPositionControl` with `Events = {"margin", "lost"}`, `MaxFaults = 2` | The margin breaker gives each of two runners the whole of the broker's position. |
| `FewTrade` | `MCFleetJobs` | Requests that timed out free their permit while their handlers still trade, so more clients trade than there are permits. |
| `RollsForward` | `MCMasterCache` with `Depth = 2`, `Expiry = {3, 6}`, `Horizon = 5` | Who asks for the contract after the nearest one is sent back when a list does not reach that far: the last one of the list is taken. |
| `HealIsCurrent` | `MCStaleHeal` with `Events` one of `{"rests"}`, `{"outage"}`, `{"squareoff"}`, `{"others"}`, `{"panic"}` | Each alone lets the position or the target change between the watchdog's questions and its order, or misleads the question. |
| `NotRefusedIdle` | `MCOrderGate` | After the clock was set back a thread is refused though it hardly waited. |

### Fairness

- `SignalPipeline`: a thread that can continue does (the operating system
  schedules it), recovery goes through its rows, and a stopped container comes back
  (`portal/docker_manager.py` creates it with the restart policy `unless-stopped`).
  Weak fairness is enough for the symbol locks, because each of the finitely many
  signals takes a lock a bounded number of times between crashes. Nothing is asked
  of the broker: a POST has a timeout, so its failure is a step of the thread.
- `StrategyRunner`: the coroutine that holds the lock goes on (every await in it has
  a timeout or is a sleep), and a cycle with nothing left to do returns.
- `PositionControl`: the same for the run loop, each runner and the panic; the
  broker books or refuses an order; a day order does not rest for ever; a backoff
  passes.
- `OrderGate`: time passes, and a thread that can go on does; a thread may be
  stalled, but only `MaxStalls` times.
- `TokenSession`: a thread goes on; every wait and every request has a timeout.
- `MasterCache`: the watchdog wakes each half minute, so it begins a refresh in
  every period; the cooldown passes; threads go on.
- `TenantControl`: containers boot, requests end, the scheduler's loop goes on. That
  every morning comes is strong fairness of `WarmUpStarts`: the loop returns to rest
  again and again, and at one of these times it is 08:30.
- `FleetJobs`: the event loops of portal and clients go on; what waits for an answer
  gets one or times out. Nothing is asked of users.

## 4. Proofs

All proofs hold for every value of the constants that satisfies the module's
assumption; TLC checked every invariant used in them before it was proved.

| Module | Theorem | States | Assumes |
|---|---|---|---|
| `SignalPipelineProofs` | `TypeCorrect` | `TypeOK` | – |
| | `Exclusion` | `OneExchangePerSymbol` | – |
| | `Finality` | `VerdictIsFinal` | – |
| | `AtMostOneOrder` | `OneOrderPerSlice` | `OddStatus = FALSE` |
| | `DoneHasOrder` | `DoneIsBooked` | `OddStatus = FALSE` |
| | `Refinement` | `SignalPipeline` implements `SignalLedger` | the same, unique references |
| `StrategyRunnerProofs` | `LegsAddUp` | `TypeOK` and `LegInv` | – |
| | `SavesFollow` | `SavedFollows` | – |
| | `BooksStayRight` | `BooksAgree` | `OrdersAreCertain` |
| | `SizeIsKept` | `WithinLots` | `OrdersAreCertain` |
| | `ExitComesFirst` | `NeverOpposed` | `OrdersAreCertain` |
| | `FlipsComplete` | `FlipCompletes` | `OrdersAreCertain` |
| `PositionControlProofs` | `Types` | `TypeOK` | – |
| | `PanicIsLast` | `PanicLasts` | – |
| | `HealsAreWarranted` | `HealIsWarranted` | – |
| `OrderGateProofs` | `Types` | `TypeOK` | – |
| | `Window` | `WindowBound` | – |
| | `Earnest` | `RefusedInEarnest` | – |
| | `Reports` | `ReportsHold` | – |
| | `Slices` | `SlicesFit` | – |
| `TokenSessionProofs` | `TokenTypes` | `TypeOK` | – |
| | `OneLoginAtATime` | `SingleFlight` | – |
| | `NoRefusedToken` | `FreshAfterRefusal` | – |
| | `TokensNeverGoBack` | `TokensMoveForward` | – |
| `MasterCacheProofs` | `Types` | `TypeOK` | – |
| | `FreshFutures` | `FreshNotExpired` | – |
| | `LockOwned` | `LockHasOwner` | – |
| | `SwitchesInHours` | `SwitchIsTradable` | – |
| | `RollsStayForward` | `RollsForward` | `Depth = 1` |
| `TenantControlProofs` | `Types` | `TypeOK` | – |
| | `DeletedTenantsStayGone` | `GoneStaysGone` | – |
| | `NobodyIsRevived` | `NoRevival` | – |
| `FleetJobsProofs` | `Types` | `TypeOK` | – |
| | `PermitsKept` | `PermitsHold` | – |
| | `SyncsAgree` | `RepeatedSyncsAgree` | – |
| | `SyncedIsTrue` | `SyncedMeansSynced` | – |

*Pipeline.* `TrackInv` ties each `pc` to what the row, the lock and the verdict
must be; exclusion and finality follow. `CountInv` adds that a slice the thread may
still send was never booked and has no request on the way, which `OneOrderPerSlice`
alone does not say and the step `Post` needs. `BackInv` adds that a signal advances,
and is judged done, only on orders of its own, if its reference is its own.
`OddStatus = FALSE` says that the broker's statuses are those of
`XTS_STATUS_CODE_MAP`. The refinement maps `issued` to the slices ever sent, `orders`
to `booked`, and an unfinished row to an open signal; every step is one step of the
ledger or a stutter.

*Runner.* `LegInv` says that what a flip or sync leg has left is what separates the
virtual position from flat (exit) or from the full size (entry); `TypeOK` needs it,
because a retry orders `quantity - abs(virtual_position)`. `CountInv` says the same
of rollovers, resets and expiry square-offs, and adds the broker: an order is at
large only for a leg, and books, saved row and broker agree. `OrdersAreCertain` says
that orders are reported as what became of them, that no restart catches one at
large and that no target is reset by force; and, if orders may be refused, that
positions are closed neither by a reset nor by an expiry, which do not look at the
answer, and that a rollover fits one order. If none is refused, resets, expiries and
rollovers in any number of slices are covered, with restarts between the slices.
`MCBlindRetry`, `MCMidOrderCrash`, `MCResetRefused` and `MCRollLots` violate a
property as soon as one of these is dropped. `SavesFollow` needs none of them: every
branch that changes position or contract writes the row.

*Position.* The target is a sum over the runners. That it is a number is proved
without induction over the set: a set of runners for which it fails would have a
smallest size (`LeastOf`), and so would a set too large for the recursive equation to
have a solution (`SumBelow`); hence `ControlAssumption` asks for finitely many runners.
`Quiet` is the argument of the panic: trading is paused before the panic looks at
anything, so no cycle is queued any more; only cycles and syncs have orders; and the
lock the watchdog holds is of a runner that has none. `Warranted` follows one pass
of the run loop: cycles are queued or at work only in its gather, so no cycle comes
between the answer with the broker's position and the heal, and whatever else moves
what is compared is remembered in the history variable `stirred`. Without that
remark (`HealIsCurrent`) the claim is false: syncs, resting orders, failing queries,
square-offs, other traders and a panic break it, each of them alone.

*Gate.* The bucket's argument is a flow: `FlowInv` says, of every permit in the log,
that what was spent since then plus what is left in the bucket is at most the
capacity plus what flowed in meanwhile. `DryInv` says, of a clock never set back, that
the bucket owes nothing and has filled with the clock since its last permit.
`Accounts` splits each thread's quantity into what is left, sent and lost, and puts
what the broker booked between the last two. `SliceInv` says that an order of whole
lots has whole lots left; a slice is a whole multiple of a lot because the limit is
rounded down to one (`LimitIsWhole`), and the solver is led through division and
remainder by the quotient.

*Session.* `IInv` ties `refreshing` to the thread that logs in, and says what a
thread may still find once it was refused: a token newer than the refused one, or
none. *Master.* `ListInv` says that a list, and every copy a caller took of it, holds
futures of its stamped day and later only; a refresh stamps with the day it began on,
which may be over. `FrontInv` says that every list, old or new, is without gaps up to
its horizon, so the contract found in it is the first of all that could still be
traded when the list was copied; that one only moves forward with time. With
`Depth = 2` it does not hold (see above). `CalendarAssumption` says that weekends and
holidays are never ten days in a row before a commodity rolls over: `config.py` steps
back until it finds a trading day, and the model looks ten days back. *Tenant.* `DeletedTenantsStayGone` is inductive given `TypeOK`; the
work is in the late requests, whose effect on a container depends on the row at the
time they are served.

*Fleet.* `OneRequestEach` says that a job's worker waits for the one request it has
sent, which is of the kind the worker is at; so a permit is given back once, by the
end of that request, and the permits are counted over a finite set of tenants.
`Calm`, up to the first panic, says that at most one handler per client is past the
runner's lock, that what it read of the position when it took the lock still holds
when it orders, and that a tenant with the result `ok` follows its trend: the repeated
handlers that get the lock later find nothing left to do.

Only model-checked: liveness (`Settles`, `LockIsReleased`, `PanicFlattens`,
`Converges`, `WorkEnds`, `FlightEnds`, `CallsEnd`, `Freshens`, `MorningRepairs`,
`BreachIsPaused`, `JobEnds`, `StreamsEnd`), which is beyond this prover under fairness.
Every invariant and action property of the runs is a theorem, some of them under the
assumption the table names. What the recursive `Sum` computes is not proved beyond its
being an integer, which is all that the theorems need of it.

## 5. Not modelled

- `SignalPipeline`: rows with a corrupt payload (`abandoned_error`; rows are only
  written by the program), failing SQLite writes, a panic row re-queued by recovery,
  a guard thread that cannot be started (its slice then counts as failed), a broker
  that refuses a repeated reference. The exponential per-IP ban and all wording and pricing are left out.
- `StrategyRunner`: PAPER runners, whose orders touch no position; changes of symbol,
  quantity, timeframe or virtual position by `update_config`; a rollover aborted
  because the old contract has no descriptor; the guard against orders above fifty
  lots or five times the size, which the modelled operations never reach; a
  `partial_failure` inside one chunk (a runner's chunk is below the freeze limit, so
  it is one slice).
- `PositionControl`: slices (a leg is one order; `StrategyRunner` has them) and
  rollovers.
- `OrderGate`: the daily notional cap and the prices of the orders.
- `MasterCache`: options, whose strikes are data, and the copy of the list on disk.
- `TenantControl`: clients that are processes beside the portal, as `run_local.py`
  has them on a developer's machine without Docker.
- `FleetJobs`: a second job while one runs; reports and exports.
- Custom strategies beyond the signals they stage: the code evaluated is the
  user's, and the process around it is I/O.
- The administrators' accounts (`portal/security.py`), which are apart from the
  trading system; pages, backup, scripts, frontends: I/O and presentation.
- The SuperTrend indicator is floating-point arithmetic over candles; its verdict is
  an input of the models.

The comment on the event stream speaks of a "60s total timeout"
(`portal/bulk_operations_service.py:296`); the code waits 15 seconds five times in a row. `StreamsEnd` is
true of either.

## 6. Plan

Done: the nine modules above, with proofs for each. Left:

1. `StrategyRunner` orders as an abstraction of `SignalPipeline` dispatches: a
   refinement from one signal per slice to one order with a fate.
2. `CustomStrategy`: the position that is set whatever became of the order, and the
   sandbox process that is killed and started again.
3. How far the books can be off when orders are not certain: a bound by the number
   of orders that were reported wrongly.
4. `AdminLogin`: lockout and recovery codes.
