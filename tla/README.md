# Verification of the auto-trading worker

The repository is a personal automatic-trading system for a Korean broker
(KIS). A **worker** process runs at most one strategy, places orders, follows
them until they settle and keeps the books; an **API** process takes commands
and manual orders and watches the worker; a **database** and **Redis** stand
between the two. This directory holds the TLA+ models of the parts that move
money or decide whether it may move, the TLC runs that check them on small
instances, and proofs checked by TLAPS. File names below are relative to the
repository's root.

## 1. The system

| Component | Code | State it keeps | Operations |
|---|---|---|---|
| Fill poller | `backend/execution/order_poller.py` | an entry per open order: watermark, processing lock, `terminal_fired`; back-off, breaker, health | `register`, `resync`, the tick, `_apply_update`, the 30 minute timeout |
| Order state machine | `order_machine.py`, `order_events.py` | orders by broker number | `register`, `process_fill`, `transition`, `apply_terminal_event` |
| Fill pipeline | `worker/runner.py` (`_make_fill_callback`, `_persist_order`, `_persist_fill`) | rows `orders`, `fills`, `daily_risk_state`; the row a number is bound to | machine and row, position, P&L, fills |
| Reconciliation | `backend/execution/reconciler.py` | none; reads rows, asks the broker, writes rows | the order pass, the position pass |
| Corporate actions | `backend/data/corporate_action*.py` | actions, the entry gate | classify, record, apply, restore |
| Startup recovery | `backend/worker/recovery.py`, `runner.main` | SAFE_MODE and its latches | nine steps, then the gate |
| Position tracker, placement | `position_tracker.py`, `strategy/indicator/strategy.py` | positions, the pending lock per symbol | scan, stop sweep, `try_mark_pending`, `on_fill` |
| Worker sessions | `worker/runner.py`, `backend/api/server.py` | run rows, command rows, the slot, auxiliary threads | start, stop, restore, replay, market open, shutdown |
| Risk | `quant/risk/engine.py`, `risk/kill_switch.py`, `recovery.py` | losses, drawdown, halts, the released floors | trigger, adopt, release, restore, resume |
| Watchdogs and flatten | `worker/watchdog.py`, `worker/emergency.py` | rounds, restarts, flatten claims | probe, judge, restart, halt, liquidate |
| Quick trade | `api/services/quick_trade_*.py`, `api/routers/quick_trade.py`, `risk/sellable_qty.py` | a request row per idempotency key | submit, cancel, close, sweep |
| KIS adapter | `brokers/kis.py`, `kis_adapter/` | token, pace, breaker, exchange rate | place, cancel, look up, page |
| Paper broker | `brokers/paper_broker.py` | scripted orders, cash, shares | place, look up, cancel, settle |
| Calendar, scheduler | `data/calendar.py`, `worker/scheduler.py` | holiday index; rows and messages | permission, next session, opening signals |
| Uptime and promotion | `worker/uptime.py`, `promotion_guard.py` | uptime rows | beat, end, gate |
| Freshness, idempotency | `data/stale_detector.py`, `freshness_gate.py`, `execution/idempotency.py` | feed records; keys and locks | record, judge; check, lock, mark |
| Live account | `worker/portfolio_feed.py`, `websocket/server.py` | the last state, sockets | publish, relay, snapshot, sweep |
| Signals, backtests, models, front ends, legacy bot | see `PROJECT.json` | | |

How they interact. A strategy places an order under the symbol's pending lock,
registers it with the state machine and with the poller. The poll thread and up
to two reconciler threads read the broker and end in the poller's
`_apply_update` under the entry's own lock. That calls the worker's fill
callback, which writes the row, updates the tracker (and releases the pending
lock), records P&L, which may break a loss limit, and files the fill. A broken
limit writes a halt to the risk row, shuts the SAFE_MODE gate that every order
passes and, for a drawdown, liquidates. The API writes commands as rows and
publishes them on Redis; the operator's release of a halt reaches the worker
through the row only. A restart restores runs, orders, losses and halts from
the database and opens the gate last.

What is hard here:

* a broker answer is always **read before** the lock under which it is applied;
* one fill is **four transactions**, each of which can fail while the rest run on;
* a **crash** between two of them leaves row and fills apart; positions, halts,
  corporate actions and manual orders have such gaps as well;
* locks have **no owner**: the pending lock is a timestamp released by every
  fill, by terminal answers, by the timeout and by its TTL;
* two processes write **one risk row**, each from a snapshot;
* a command arrives by Redis, by the table, by both, or **by neither**;
* threads with a deadline are **left behind**, not ended: recovery's reconcile,
  a flatten, a publish, a scan during shutdown;
* an answer that is **lost** leaves open whether the order exists.

`PROJECT.json` lists the hazards one by one, at their lines, with the
properties that cover them.

## 2. Modules

The header of a module says which files it translates and what it leaves out.

| Module | Models |
|---|---|
| `OrderStatus` | the statuses and `VALID_TRANSITIONS` |
| `FillDelivery` | what the pipeline promises of an order: the abstract specification |
| `FillPoller` (+ `FillPollerProofs`) | one order in the poller, with all its threads |
| `PollTick` (proofs in `FillPollerProofs`) | which orders a tick asks for: due times, back-off, breaker, timeout |
| `OrderRecord` (proofs in `OrderRecordProofs`) | one order from the broker to the database, with crashes, recovery and the reconciler's pass |
| `OrderRows` | which row a number leads to when numbers start again every day |
| `SymbolLock` (+ `SymbolLockProofs`) | the pending lock of a symbol between scan, sweep and callbacks |
| `PositionSync` | a position at the broker, in the table, in the tracker, and under a corporate action |
| `RiskHalt` (+ `RiskHaltProofs`) | a halt from the fill that breaks the limit to the operator's release, over two processes |
| `LossWindow` (proofs in `OrderRecordProofs`) | the losses of day and week: rolling days, floors, restore |
| `KillSwitch` | the graduated kill switch of `risk/kill_switch.py` |
| `Flatten` | the emergency liquidation, automatic and by hand |
| `Boot` | the start of the worker up to its order gate |
| `RunSlot` (+ `RunSlotProofs`) | the single strategy slot from the API to the session's threads |
| `SessionSignal` | the opening of a market, from scheduler to sessions |
| `Teardown` | the shutdown and the threads it waits for |
| `RunUptime`, `Watchdog` | uptime rows and the promotion gate; the watchdog's rounds |
| `QuickTrade` (+ `QuickTradeProofs`) | manual orders: reservation, submission, cancel, recovery sweep |
| `ClosePosition` | closing a position: quantity, price, key, sells in flight |
| `KisCall`, `KisShared` | a broker call and what its caller is told; token, pace, exchange rate |
| `PaperBroker` | the scripted broker of paper trading |
| `Calendar` | order permission and next session |
| `Freshness`, `Idempotency` | feeds' records and the gate; the idempotency store |
| `LiveFeed` | the published account and the sockets that see it |
| `MCPoller`, `MCRecord`, `MCParts` | instances for TLC |
| `PartsProofs` | proofs of the parts of `MCParts`: `KillSwitch`, `Watchdog`, `Idempotency`, `Freshness`, `Flatten`, `Boot`, `LiveFeed`, `Teardown`, `PositionSync`, `RunUptime`; extends `FillPollerProofs` |
| `RecordPartsProofs` | proofs of the parts of `MCRecord`: `Calendar`, `SessionSignal`, `KisCall`, `KisShared`, `PaperBroker`, `ClosePosition`; extends `OrderRecordProofs`, which has the lemmas on sums |

Where parts share state they are in one module (`OrderRecord` holds poller,
machine, recovery and pass over one order; `RiskHalt` holds worker, API-side
watchdog, reset and the morning job). Parts that share none are put into
`MCRecord` and `MCParts`: a variable `part` picks one of them in the initial
state, and only that one moves. The state spaces add up instead of multiplying,
and since a part that stands still stays in one of its own initial states, its
invariant is asked only where `part` names it. This composes nothing: it says of
each part what a run of its own would.

Correspondence, module by module:

**FillPoller.** `mark` is `last_reported_qty`, `fired` is `terminal_fired`,
`lock` the processing lock, `live` the entry under the order number. A thread is
`idle`, holds an answer (`read`, `found`), is inside `_apply_update` (`locked`,
`called`) or, the poll thread only, in the timeout. The answer is the broker's
state at `PollLookup` or `ResyncRead`; everything may happen before `TakeLock`.
`RestoreRead`, `RegisterFind` and `RegisterInPlace` are the three moments of a
strategy start. `base`, `handed`, `counted` and `gaveUp` are history. The
callback is one step that succeeds or raises. `DeliverySpec` says that the
module implements `FillDelivery` with `filled <- broker.filled`. `PollTick` has
what decides when a lookup is made; times there are relative.

**OrderRecord.** The same order with the callback taken apart: `StepGuard`,
`StepMachine`, `StepPnl`, `StepFile`, `Settle`, or `StepStub` for recovery's
callback. A transaction is one step and may fail (`Fault`). `Crash` loses all
that is not in `durable`; `BootReconcile` .. `BootRegister` are steps 6 and 7 of
the recovery, `StartRead` .. `StartPoller` the strategy start after it,
`PassStart` .. `PassWrite` the reconciler's pass. One order and one day;
`OrderRows` has two orders of one number, on one day or across midnight, and the
binding `_persist_order` makes between them.

**SymbolLock.** Scan and sweep read the position (`Size`), claim the lock
(`Claim`), are refused, answered or left without an answer (`Refused`, `Place`,
`PlaceUnanswered`). `Deliver` and `Book` are steps 1 and 2 of the callback:
between them the machine has closed the order and the lock is still held.
`Lapse` is the TTL. `regular` falls with the first partial or late fill, lapsed
lock or failed cancel; `OneLiveOrder` is claimed only under it.

**PositionSync.** `psBroker`, the row, the tracker and the corporate action of
one symbol; a position is a quantity and the era of its price. The pass reads
the rows, asks the broker and repairs in separate steps, beside a fill that
books row and tracker in two; the corporate-action path commits three times.

**RiskHalt.** `mem` is the tracker in memory, `rows` the `daily_risk_state`
rows, `gate` SAFE_MODE, `th` the threads: fillers that record a loss, check,
write, shut the gate, alert and liquidate, and the resume poll that adopts,
settles and reopens. The watchdog's halt, the reset, the morning job, a new day
and the end of the worker are environment steps. The limits are shares of the peak
(`Share`, whole units); a release tests the day's loss against the peak it finds
(`Accepted`), then rebases that peak (`Rebased`), or, without an equity, leaves it to
the first reading of that day (`Resolved`); a balance that cannot be read lets the
last one stand (`RecordLoss`) or the loss go unrecorded (`SkipLoss`).
**LossWindow** has the rolling week `RiskHalt` leaves out, on one thread. **KillSwitch** is the library
switch of `risk/kill_switch.py`: reports of several threads, store, announce,
resume.

**RunSlot.** `row` is the run row, `pending` the commands table, `redis` the
bus, `worker` the main thread, `session` the session threads and the callbacks
queued on them. `outbox` holds commands committed and not yet
published. **SessionSignal** and **Teardown** follow the worker further: what
happens to opening signals, and to threads while it goes down.

**Boot.** The nine steps under a stop signal; a broker call has a deadline and
its thread is left behind; `boPass` is the one of step 6, whose reconcile writes
on although nobody waits for it.

**QuickTrade, ClosePosition.** Rows by idempotency key. `req` is a request
thread between check, reservation, gate, broker call and record; `sweep` is the
recovery pass with its claim, lookup and stamp. `ClosePosition` adds what
`close_position` does before that way: the broker's figure, quote, derived key,
pending sells.

**KisCall, KisShared, PaperBroker.** `KisCall` follows threads through one
call: breaker, hash key, tries, pages, verdict; beside it, what the broker has
really done. `KisShared` is three small machines (token, pace, rate).

**The rest.** `Flatten`: claims, the positions as the broker lists them (a market that
could not be read is left out), the loop over them, and the retry; an order has three
outcomes (`EfOutcomes`): taken, returned without being taken, raised. `RunUptime`: beats
and end written by two threads. `Watchdog`: rounds of probes and one action per
finding. `Freshness`: records per symbol and tier, read by sessions later.
`Idempotency`: check, lock, place, mark under a Redis that comes and goes.
`Calendar`: the index loaded beside other threads, windows, next session.
`LiveFeed`: `publish_portfolio`'s coalescing flag, and the sockets' tokens.

## 3. Runs

All bounds are constants of the configurations, each commented in its module.
Deadlock is checked in the two poller runs; elsewhere a behaviour really ends
(the order settles, the bounded number of requests, days or faults is used up).

| Run | Asks | Bounds |
|---|---|---|
| `poller_race` | poll thread, reconciler and timeout: `NoShareTwice`, `DeliverySpec`, `NeverCancelSettled`, `FilledIsRecorded` under fairness | 3 shares, so that two partial fills and a stale answer between them exist; one entry |
| `poller_overtaken` | `NeverCancelSettled` with a strategy start: **violated** | as above, with starts |
| `record_pass` | one crash at any step, one pass, one failure: `FillsOnFile`, `FillsWithinBroker`, `AccountsAgree`, `ClosedStaysClosed`; beside it the parts of `MCRecord`: `RowsInv`, `BrokerInv`, `MarketInv`, `LossInv` | 3 shares; two threads per shared object; two orders of one number; three days with a window of two |
| `record_lost` | `FilledRowIsFiled` with a crash: **violated** | 2 shares, no failure |
| `lock_turns` | `OneLiveOrder`, `SweepNotTwice`, `LockReleased` under fairness | 2 orders, 2 market opens, 2 shares held: a second sell while the first is in parts |
| `lock_beside` | `SweepAlone`: **violated** (in the trace TLC finds, beside a live buy) | 2 orders, 1 market open |
| `halt_release` | `GateInv`, `OnlyReleased`, `NoSecondFlatten`, `ReopenUnbreached`, `ReleaseResumes` | one filler and the resume poll, ten units of equity of which three can be lost, daily limit 10 %, drawdown 15 % (of ten, one unit each: the second lost breaks both; of a rebased peak, the daily limit is none), release step 5 % (none: the third halts again), two days, one release, one event (a fill whose balance cannot be read included; at boot it may fail besides) |
| `slot` | `SlotInv`, `DeployKeepsRuns`, `HeardStopEnds` | two runs, two environments, one stop, one mishap |
| `slot_missed` | `StopReaches`: **violated** | as above |
| `trade_sweep` | `TradeInv`, `ReplayAnswered`, `FollowsTable`, `SettledOrRaised` | two requests, a chosen and a derived key, one foreign order of the same shape (one shape in all), one fault, one crash, sweeps of one row |
| `parts` | the parts of `MCParts`: `EntryAccounts`, `KsSafe`, `MonitorInv`, `PsFillsStand`, `SyncInv`, `GuardInv`, `FlattenInv`, `BootInv`, `TickInv`, `ServiceInv` | per part, see below |
| `sync_shut` | `PsFoundFillMovesPosition`: **violated** | 2 orders, 2 passes |

A merged invariant is a conjunction of named parts; its definition lists them
with what each says: `SlotInv` (`OneRunActs`, `ActingHoldsSlot`, `ActsInItsEnv`,
`OffStaysOff`), `TradeInv` (`OncePerKey`, `NothingSentDenied`, `RaisedOnce`),
`GateInv` (`HaltShutsGate`), `AccountsAgree`, and, for the hosted parts,
`KcInv`, `ShInv`, `PbInv`, `QcInv`, `ClInv`, `SoInv`, `OrInv`, `LwInv`, `UpInv`,
`WdInv`, `PsActionInv`, `IdInv`, `FrInv`, `EfInv`, `BoInv`, `PtInv`, `LfInv`,
`TdInv`.

Why the bounds are enough. The code compares an answer with one watermark and
one row, so 3 shares give an older, an equal and a newer answer to each. Two
orders are all that "a second order", "the same number again" and "another row"
need. A lock, a flag, a token or a row that two actors fight for needs two of
them; a third adds no new pair of steps, except where one listens to two, as in
`Teardown` (three threads). A limited sweep needs one row more than its limit; a
rolling week needs one day more than its length; a breaker of threshold two sees
a failure that trips and one that does not. One mishap (crash, fault, outage) may
strike at any step; `record_pass` has a crash and a failure, so that the one hits the
repair of the other, and what it checks of the record is proved for any number of
failures. `LossWindow` was also explored with
four days, a week of three, five fills and gains, to depth 16, without an error.

**What a violated run shows.**

* `poller_overtaken`: `register()` finds the entry, waits for its lock while a
  resync fills and unregisters the order, then resets `entry.order` to open; the
  poll thread, waiting for the timeout, closes a filled order. The comment at
  `order_poller.py:582` says this never happens.
* `record_lost`: `process_fill` commits the row as filled before the fill is
  filed. After a crash in between nobody looks at the row again, because
  recovery and reconciler read open rows only. `PHILOSOPHY.md` says a fill the
  database misses is written.
* `lock_beside`: the sweep looks at the open orders once and asks for quotes
  afterwards; an order of the scan sent meanwhile is guarded only by the lock,
  which a partial fill pops and the TTL ends. `check_stops` says it does not
  sell beside a live order.
* `slot_missed`: a stop published between the restore's read of the rows and the
  worker's subscription is heard by nobody, and while Redis answers the table is
  never polled. The comments of the API say the table saves the command.
* `sync_shut`: a pass without a poller closes the row of an order that filled
  while no session ran and files its fill; the position stays behind, and the
  closed row is restored by nobody. `PHILOSOPHY.md` says the position is updated.

**Mutants.** Every property of a passing run is broken by a changed definition,
written beside the original and listed in `PROJECT.json`: a lock not taken, a
total applied for an increment, a key derived from a figure that moves, a halt
adopted without its floor, a flag read before the lock, a claim taken late. Each
conjunction has at least one mutant per hosted module, most have several.

## 4. Fairness

`FillPoller!Fairness`: `_loop` catches everything and never stops ticking, so
lookups happen again and again; a thread that holds the entry's lock runs on;
neither lookup nor callback fails for ever, and a thread that waits for the
entry's lock gets it at some point (strong, because others take it in between).
`PollTick` shows what stands behind the first assumption: every open order gets
its tick, although failing orders keep the breaker busy.

`SymbolLock!Fairness`: the two threads run on and an order sent is answered or
fails; a callback that began returns; the poll loop reaches the timeout of an
order that stays open (strong, because a fill being delivered disables it for a
moment). `LockReleased` says that the lock comes back without its TTL.

`RiskHalt!Fairness`: the resume poll, a loop of its own that catches what it
raises, keeps running. `RunSlot!Fairness`: the worker's main thread, the
sessions' threads and the callbacks run on, and what was committed is published
or fails to be. `QuickTrade!Fairness`: request threads run on, time passes for a
reservation, and the sweep is called periodically.

Nothing is assumed of fills, market opens, operators, reconcilers, releases,
Redis or the broker, and crashes and faults are never owed.

## 5. Proofs

TLAPS proves the following for every value of the constants: any number of
threads, requests, runs, orders, symbols, sockets and days, any order size, any
bound on crashes, faults and events. They rest on the named assumptions about
the constants in each module (`QtyAssumption`, `ThreadAssumption`, ...), which
TLC evaluates in every run, and on the hypotheses of the second table.

| Module | Theorem | Says |
|---|---|---|
| `FillPollerProofs` | `TypeCorrect`, `AccountsCorrect` | types; `EntryAccounts` |
| | `RegisteredOnceNoShareTwice`, `RegisteredOnceDelivers` | `NoShareTwice`; `FillPoller` implements `FillDelivery` |
| | `TimeoutSparesSettled` | `NeverCancelSettled` |
| `OrderRecordProofs` | `TypeCorrect`, `FillsAlwaysOnFile`, `AccountsAlwaysAgree`, `ClosedRowStaysClosed` | types; `FillsOnFile`, `AccountsAgree`, `ClosedStaysClosed` |
| | `NoCrashNothingDoubled`, `OneCrashNothingDoubled` | `FillsWithinBroker` |
| `SymbolLockProofs` | `TypeCorrect`, `OneLiveOrderCorrect`, `SweepSellsOnce` | types; `OneLiveOrder`, `SweepNotTwice` |
| `QuickTradeProofs` | `TypesHold`, `ReplaysAnswered`, `OneOrderPerKey` | types; `ReplayAnswered`; `OncePerKey` of `TradeInv` |
| | `NothingSentIsDenied`, `RowsFollowTable` | `TradeInv`, `FollowsTable` |
| `RunSlotProofs` | `OneRunTrades`, `DeployKeepsItsRuns` | `SlotInv`, `DeployKeepsRuns` |
| `RiskHaltProofs` | `OnlyTheOperatorClears`, `ReopensUnbreached` | `OnlyReleased`, `ReopenUnbreached` |
| | `KnownHaltShutsGate`, `LiquidatesOnce` | `GateInv`, `NoSecondFlatten` |
| `PartsProofs` | `PositionsHold` | `PsFillsStand` and `PsActionInv` of one position |
| | `KillSwitchKeeps`, `FillsStand`, `SyncHolds`, `GuardHolds`, `FlattenHolds`, `BootHolds`, `ServiceHolds` | `KsSafe`, `PsFillsStand`, `SyncInv`, `GuardInv`, `FlattenInv`, `BootInv`, `ServiceInv` |
| | `MonitorHolds`, `TickHolds` | `MonitorInv`, `TickInv` |
| `RecordPartsProofs` | `MarketHolds`, `BrokerHolds`, `LossHolds` | `MarketInv`, `BrokerInv`, `LossInv` |

| Hypothesis | Of | Why |
|---|---|---|
| one entry (`OneEntry`) | the two `RegisteredOnce...` | a second entry hands a fill over again, section 6 |
| no strategy start, one resync at a time (`~MayRestart`, `OneResync`) | `TimeoutSparesSettled` | `poller_overtaken`; a `PositionReconciler` lets one resync in at a time (`_reconcile_lock`, `reconciler.py:116`); the start of a session builds another one, so two may overlap, and then the property fails, section 6 |
| `MaxCrashes = 0`, `<= 1` | the two `...NothingDoubled` | two crashes double a fill, section 6 |
| `~Overstays` | `NothingSentIsDenied`, `RowsFollowTable` | a submission that outlasts the grace period of the sweep, section 6 |
| `~BootRelease` | `KnownHaltShutsGate` | a release during the boot, section 6 |
| `~LateMayFail` | `LiquidatesOnce` | a flatten that fails after its halt's release, section 6 |

The conditions inside a property (`passes = 0 \/ crashes = 0`, `regular`, ...)
are its own and stand in its definition. In each module the proof is one
inductive invariant, which TLC checked on small instances before it was proved,
one lemma per part and action, and a theorem that reads the property off. Why
the properties are not inductive by themselves, and what was added:

**FillPoller.** Inside a callback the shares are passed on and the watermark has
not moved. `Accounting` adds what holds there (`HolderAccounts`), that the thread
there holds the lock (`OneInside`, `HolderInside`), and that entries not made yet
are untouched. For one entry: every answer held, and every watermark, is at most
what the broker filled (`Behind`), and what the worker counted is what the entry
passed on (`HandedByOne`). For the timeout, `SettledIsSeen`: a settled order is
tracked no more, and a timeout that waits for the lock then sees it settled, as no
resync still holds an answer.

**OrderRecord.** One part per era of the order's life: before the first crash
(`Steady`, `Answered`, `Counted`, `Handed`), before the first pass of the
reconciler (`Solo`: who may be where, which callback an entry has, that the row is
open as long as something may be written to it, that the machine never runs ahead
of watermark and pipe), before the first fault (`PnlBehind`, `FirstBooks`), and with
one crash (`FillsBehind`: a stub starts where the fills on file end at the
latest). A pass after a crash breaks the latter, which is the condition of
`FillsWithinBroker`.

**SymbolLock.** `Guarded`: an order still in use, or a thread with a claim, has
the lock, unlapsed, and there is at most one. Without `regular` that is lost; for
the sweep's own sells `SweepSells` suffices: from its look at the open orders to its
order, the sweep has no other sell that is live and not given up.

**QuickTrade.** `Claims` and `AtHead` tie a request and the sweep to their rows;
`Sent` says that an order at the broker is of a row and a shape, and that a
request which has yet to send has none there: this alone gives one order per key.
`Graced` adds that a row whose request is on its way is as the reservation left
it, that what the sweep found at the broker stands when it writes it down
(`Verdict`), and that the mark stays on a row as long as it may be raised again.

**RunSlot.** `OneSlot` (one row is active or without its end), `Owned` (a session
that lives holds the slot, and its callbacks are through before it is),
`Building` (the run about to start has no session, and its row waits for one), and
`Commands` (a stop on its way is of a run the operator switched off).

**RiskHalt.** `Bounded` (no reading of the loss is above what was lost),
`Decided` (a decision not written yet is a halt, and a writer that asserts never
clears: the epochs), `Baselined` (a process that came up without its halt has
accepted nothing until a release), `Gated`, `Marked` and `Once`: while the sells of
a drawdown are out, whatever still carries that halt counts as asked for. The share
that a limit is of the peak shrinks with the peak (`ShareFalls`), so what is no breach
by a lower peak is none by the one the release was judged by, `mem.judged`; the
drawdown needs no such care, since a peak is rebased to the equity itself.

**PositionSync.** `PsActed`: what each of the three transactions of the
corporate-action path has done when the next one begins or is lost.
`PsJudgedStill`, `PsOwned`, `PsCarried`, `PsSeen`: what a pass read before a fill is
known to be old, or the row is one the fill has not touched.

**KillSwitch.** `KsHeld`: a halt stored, or about to be, is in force and nobody has
begun to clear its rows, and a resume that is let through saw it past the cooldown.
`KsTelling`: a change not yet told is one thread's to tell.

**Idempotency, Freshness.** `IdLocked`: while no lock was lost, one worker at most
is between lock and release. `IdFound`: a record stored where it can be read is
read. `IdKnown`, `IdDone`: a worker knows orders that were placed, and with one
order nobody takes it for done before it is. `FrMatches`: what the tracker has of a
tier is what came in for it last; `FrUntouched`: a call nobody came after finds
what it recorded.

**Flatten, Boot.** `EfBooked`: a position a flatten was given is still to come, asked
for in full, or missed, and its failures are those it missed. `EfClean`: while no order
of the automatic flatten came back, none of its sells is at the broker, as only an
order that raised was never sent. `BoSentFirst` (the
cancel of the order in hand is out before its row is closed), `BoMayOpen` (who may
open the gate comes from a recovery that was sound), `BoToldApart` (a failure that
stops the start, and is not the stop's own, was one).

**RunUptime.** Two sets stand in the invariant (`UpInductive`): `R`, the units the run
was up, as many as `upRan`, and `G`, a grace for each interruption that is over.
`UpPaid`: a unit in neither is in no row, and comes into none by a beat or an end on
its way, but for the grace of the stop that is going on. A stop is charged when it is
over, since an end written in time takes the grace back that a last beat, late, may
then use. `UpRanUnits`: while nothing failed or came late, each unit of `R` is in a
row. Both halves of `UpInv` are then the cardinalities of unions.

**PollTick.** `PtTurns` counts what an order has waited and what it may still wait: a
cooldown for each order that may be tested before it (`PtAhead`). An order asked
after another began to wait has a later due time (`PtRenewed`), so nobody goes twice.
`PtAges` bounds the age of an order nobody fills. A tick that cannot time it out is a
test, or found it not due, or the breaker opened in it. The last needs `threshold`
errors in a row, hence, with fewer orders that fail, one of them asked twice, whose
interval has grown; `PtToRise` is what is left to grow, and each time costs a turn
(`PtLate`). The proof corrected the model: the bound of a turn had counted the failing
orders only. A test that succeeds closes the breaker, which may open again, and with
larger constants than the run's TLC finds an order past that bound.

**Watchdog, LiveFeed, Teardown.** `WdStillIll`, `WdSameProc`, `WdIllIsFound`,
`WdDoneAsMapped`: who was sick in a round is so until it ends and is to be probed or
found, the process's record is as old as when the round began or fresh, and what was
done is what a finding calls for. `LfAlone`, `LfFresh`, `LfToldOf`: one thread
publishes while the flag is up; if nobody has still to see the last fill, what is on
its way is the account as it is; what the screen was sent is kept or about to be.
`WsRecorded`: an open socket is on record or about to be closed. `TdSpawned`,
`TdOnList`, `TdBehind`: a thread listed is its spawner's, one listed or alive is on
the list or fell off it, and what each step of the shutdown that did not give up has
waited for has ended.

**Calendar, SessionSignal.** `ClKnown`: what is on record for a day of a year is nothing
until the year is loaded, and the exchange's answer unless the static table was used.
`ClOnGround`: how far a caller has come, and on what record; `ClPassed`: the days a
search for the next session went over had none. `SoInductive` says the like of the
openings: who was sent one, who polled it, and what its mark still promises.

**KisCall, KisShared.** `KcSane` is, per kind of call, what it has done at each place
and so may tell its caller; `KcHolds`, that who began under a tripped breaker has
sent nothing. `TkCounted`: a token of the process that is still valid is in memory, or
with the one thread behind the lock, so nobody asks for another; `TkGone`: what a
revoke that met nobody has still to remove. `LmAll`: each slot claimed is one waiting
thread's, and none between now and the last is free, which bounds the wait. `FxAll`:
the last attempt is no older than any that is still out.

**PaperBroker, ClosePosition.** Both are about sums, over orders and over rows
(the lemmas are in `OrderRecordProofs`, since `LossWindow` needs them too). The
community modules define a sum by a recursive choice over the set; that it is a
total, that it does not depend on the order, that one value more, less or changed
moves it by the difference, is proved here once (`SumTakes`, `SumChanges`, `SumAdds`,
`SumPlus`, `SumMore`), by induction over a set of numbers (`NumbersAll`), which
needs no theorem with an operator for a parameter. `PbAll` then says that shares and cash are
the sums over the orders, and what an order that is over was told last. For the
close, two sums stand between the broker and the rows: what the broker still shows
beyond what is free is at most the shares on rows that nobody is busy with (`QcLoose`),
and what has left the free ones at most those on rows that may have been sent
(`QcGone`); `QcFine` says what a request has understood of it by where it is.

**LossWindow.** `LwAdds`: the week is the sum of the earlier days kept and today, and
those are days of the week. `LwTold`: while every write worked, the tracker and every
row and Redis key have what was made and lost, but for the fill on its way; a day
without a row had none. `LwHalts`: a halt is in memory, and in a row or about to be.
`LwStores`: one of the two stores has a number as bad as the day's. `LwAllowed`: the
floors in memory, and once noted those on record, are what the last release taken in
had accepted (`LwFits`). A tracker counts only days it has rows for and a release all
days of its week, so the sums are compared over different sets (`LwFitsSum`). The
proof corrected the model and its property: what is accepted of the week must end
when the release's own day leaves it, not when the last of its days does; the row
written along with the release's record may bring another release, which the model
had lost; and that same release is on record as seen before its floors are, so that a
worker that ends in between comes up with neither. `LwDecidesRight` is asked only of
behaviours without such a restart (`lwAccepted.lost`, section 6).

**The composition.** A step of `PartsSpec` is a step or a stutter of each part
(`StepOfEach`), so an invariant of a part's own specification is one of the whole;
the theorems of `PartsProofs` state it of `PartsSpec`, for the parts whether or not
they move, which is more than the run asks.

Only model-checked:

* liveness (`FilledIsRecorded`, `LockReleased`, `ReleaseResumes`, `HeardStopEnds`,
  `SettledOrRaised`): fairness and ENABLED are out of the prover's reach;
* `NoShareTwice` and the refinement with more than one entry, where they fail, and
  `NeverCancelSettled` with more than one resync;
* `RowsInv` of `MCRecord`, the order numbers that come again: which of two orders of
  one number a row, a registration and a fill on its way belong to ties all of them to
  one another pairwise, and has not been made inductive.

## 6. Known disagreements and conditions

Behaviours of the code met while modelling. The properties are stated with the
condition that excludes them (a guard flag, a bound or a hypothesis); none is
hidden by leaving the step out.

* **Poller.** A start that read the row before a fill seeds a stale watermark, and
  a second entry hands the fill over again. A strategy start and the timeout
  together can break `NoShareTwice`. Shares first reported with a cancel are never
  filed (`order_poller.py:512`). A lookup that answers None counts as a fresh
  read. Two resyncs at once break `NeverCancelSettled`: the older answer overwrites
  `entry.order`, so the look at `order_poller.py:582` finds an open order.
  `_reconcile_lock` excludes that for the passes of one `PositionReconciler` only:
  `_startup_reconcile` of `runner.py` builds its own, and its pass may overlap with the
  worker's. With at least as many
  unanswerable orders as the breaker's threshold, the timeout of the others may
  starve (`PtClosed` says fewer).
* **Record.** A crash and a later pass can file a fill twice, hence the condition
  `passes = 0 \/ crashes = 0` of `FillsWithinBroker`. Two crashes can double the
  fills; a row in status `unknown` is not restored.
* **Rows.** A number drawn while another live order has it (the comment at
  `runner.py:1606` excludes it), a row first written a day late, and a last fill
  redelivered on a later day can lead to the wrong row; `orOdd` marks them.
* **Placement.** The quantity of a sell is read before the lock is claimed, so
  shares just sold may be sold again (`strategy.py:318`).
* **Positions.** The insert of an unknown holding checks neither pending orders
  nor recent fills, against the comment at `reconciler.py:344`; a crash between
  the filled row and the position write leaves the position behind;
  `claim_ca_exit` asks the broker before it locks; a failed commit can leave two
  actions in memory, of which one is removed; the tracker refresh in
  `docs/CORPORATE_ACTION_RUNTIME_INTEGRATION.md` is not in the code.
* **Halts.** A later risk halt overwrites an untrusted one (`recovery.py:261`).
  A release tests the floors by the peak it finds and then lowers that peak to the
  equity (`engine.py:451-463`); without an equity it does so at the first reading of the
  day (`_mdd_rebase_pending`). The limits are shares of the peak, so a loss below the
  old limit may be past the new one with no floor to excuse it: the gate opens, and the
  next fill halts again. TLC finds that at once if the property is
  stated with the present peak. `ReopenUnbreached` therefore judges the day's loss by the
  peak of the release (`mem.judged`), and the drawdown by the equity last read. The reading
  dropped on a later day (`engine.py:466`) leaves the old peak, and the next fill
  may liquidate over the release.
  A fill without any balance ever read since the start is not recorded at all
  (`runner.py:1655`): neither the daily nor the weekly loss sees it.
  With `LateMayFail` a flatten that still runs when the release of its halt is adopted,
  and then fails, asks for another one (`runner.py:1114`), which the next breach
  gets although the first one's sells are out; with `BootRelease` a release during
  the boot opens over a halt of the same day. A crash between the drawdown's
  liquidation and the row's commit liquidates again. `sold` counts an order that
  came back refused, as the code does. The kill switch's resume reads, judges and
  applies in three turns.
* **Losses.** The capital of `LossWindow` stands still: what a rebased peak does to the
  limits is in `RiskHalt` only, for the day. A fill recorded before 07:00 and written after it is rolled first,
  so the day's row never gets it (`lwLate`). A failed write of a day's last fill
  is not repaired, and a failed read of the week at boot gives a fresh budget.
  A release adopted by the second row write of a `_persist` is marked as seen by the
  record of the one before it (`engine.py:973`); if the worker ends before the floors of
  that one are recorded, the next start does not apply it, though `engine.py:990`
  says a restart does (`lwAccepted.lost`).
* **Slot.** The finding `slot_missed`. A late beat is counted with one grace more
  (`RunUptime`). A halt latched between the check and `enable()` lets recovery
  report success with the gate shut (`Boot`), and one set between steps 3 and 9
  is opened over; `_mark_order_lost` does not look at the row again.
* **Signals.** Rows delivered through Redis stay pending and are replayed in a
  later outage; the dedup is lost with the process and, after a host's boot,
  wrong for its first five minutes; Redis coming back between ping and first poll
  loses a signal, though `scheduler.py:254` says polling handles it.
* **Shutdown.** `_spawn_aux` lists a thread before it starts, and a second spawn
  drops it as not alive (`tdDropped`); a check past its flag may spawn after the
  passes looked; a join may give up.
* **Manual orders.** A sweep may adopt an order another row or the broker's own
  front end sent; after a rollback the stamp is not under the lock; with
  `Overstays` a submission outlasting its age turns failed into submitted.
  Two overlapping closes of different keys may both ask for the same shares: the
  figure is read before the other's order and the pending sum after it, and only
  the broker's refusal stops the second. The deletion of credentials, which takes rows
  along, is not modelled. `QcNoOverAsk` is claimed for a close
  that met no other. The broker's figure is taken to count an order from its
  acknowledgment on, as `sellable_qty.py` says.
* **KIS.** `is_open` reads the clock and then `_tripped_at` again, and another
  thread's success between makes it raise; a success of a price lookup resets the
  orders' failures; a cancel answered False may have cancelled; `get_positions`
  may return a part (modelled in `Flatten` only). Token and expiry are two keys, so two
  processes can read a torn pair or both issue; with Redis down a revoke does not
  tell the broker.
* **Paper broker.** After `settle_all_open` a lookup replays the plan and may
  reopen a filled order, without booking twice; a sale of shares not held credits
  cash; an addition is booked at the cumulative average price.
* **Calendar.** A year falls back to the static table for good, which knows one
  year and fails open; the early-close threshold treats every summer day of the
  NYSE as short; half days not listed are full days; `CalendarCache` is written
  and decides nothing.
* **Flatten.** `KISBroker.place_order` returns a refused order (open breaker, broker's
  refusal) and one without an answer instead of raising (`kis.py:263-268`, `302-314`),
  and `flatten_all` does not look at the status (`emergency.py:314-323`): both count as
  submitted, so a liquidation that sent nothing, with the breaker open, is not retried
  and not reported as failed, against `runner.py:1065-1073`. Only what raises, a closed
  market, counts as failed. `get_positions` leaves out a market it could not read
  (`kis.py:216-255`); a flatten that gets an empty list for that reason ends as
  "no positions" and is not retried either. `FlattenInv` is stated of the positions
  and orders as `flatten_all` sees them.
  An order that raises after a shortfall counts twice; flattens of two
  processes may overlap. A flatten held back for its reading re-arms before its dry run
  has the lock (`runner.py:1080`): a fill meanwhile asks for another, which the lock
  refuses, and nobody asks again (not modelled: `dry` is fixed at the start).
* **Freshness, idempotency, watchdog.** The run has one threshold for bars and days (the
  theorem has any). Naive timestamps count as UTC and a late
  bar overwrites a newer one. The store checks before it locks, so two orders of
  one intent are possible; a record written to Redis alone is invisible in an
  outage; a release may delete a lock it does not own. A thread that never beat
  is not found hanging, and a callback that never returns stops the watch.
* **Live account.** The `finally` at `portfolio_feed.py:107` may clear the flag
  of a later publisher, against the docstring; then two publish at once
  (`lfCut`). A newcomer can miss a live event and read an older state, and an
  older state may overtake a newer one on the way to a screen. A failed
  disconnect leaves a socket open that nobody looks at again.

## 7. Not modelled, and the plan

Per component in `PROJECT.json`. In short: signals, sizing, backtests and the
volatility and correlation parts of risk are numerical; front ends, order lists,
balances, CRUD routers, logging and notifications decide nothing that is traded;
migrations are schema; the bar validator and `live/safeguards.py` are pure
checks; `reconciliation.py` and the legacy bot have no caller; of `watchdog.py`
and `idempotency.py`, which the worker does not wire up, the models say what
their own interface promises.

Left to prove: `RowsInv`.

Left to model: the parts of the API process that write one row from two workers.
