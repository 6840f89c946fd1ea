# A formal model of the paper trading engine

The repository is a paper-first terminal for BTC and ETH options on Delta
Exchange: one asyncio process (`trading-engine`) scans the market, opens and
closes option positions on a simulated broker and keeps its account in Postgres;
`web-app` shows the same database and proxies the control calls. This directory
holds TLA+ modules translated from the Python source, TLC configurations that
check them on small instances, and theorems that TLAPS proves for every instance.

Paths below are relative to `trading-engine/src/algocrypto/` unless they start
with `src/`.

## 1. Inventory

### What runs, and what it shares

One event loop runs the quote stream (`MarketDataEngine` calls `on_quote` of the
position manager, then of the orchestrator), the periodic scan
(`run_periodic_scan`), the candle poller, the feed tasks, and the FastAPI
endpoints. They share three things:

- the row of `daily_risk_state` for today (capital, counters, halts), changed by
  single SQL statements;
- the rows of `positions`, `orders` and `closed_trades`;
- memory: `PositionManager._open`, the cooldown stamps, the pending flips,
  `TradingOrchestrator._scan_lock` and `_entering_tokens`.

There are no threads in the core. A coroutine is undisturbed between two awaits;
every database, broker and journal call is an await. All hard behaviour comes
from that: state is read, some awaits pass, and the state is used.

### Components

| Component | State | Operations | Correct when |
|---|---|---|---|
| Daily risk ledger (`risk/engine.py`, `api/health.py`) | today's row | seed, reserve, release, reconcile, halt, kill switch, auto-trade, record flip | columns agree with each other and with the trades when nothing is under way; halts are not lost |
| Circuit breakers (`risk/circuit_breakers.py`, `resolve.py`) | none | entry gate, post-trade halt | a reached limit blocks; paper mode lifts circuit limits only |
| Orchestrator, entries (`trading/orchestrator.py`) | scan lock, entering tokens | scan, execute signal | one entry at a time, one position per contract, limits hold when the position is registered, the lock comes back |
| Position manager (`position/manager.py`) | `_open`, cooldown, pending flips | register, on_quote, manual exit, close, rehydrate | each position closed, sold and credited once; memory agrees with the rows |
| Execution engine, journal (`execution/engine.py`, `journal/writer.py`) | orders, positions, trades | order, opened, closed, trade | rows written in an order that a failure cannot turn into a credit without a trade |
| Paper broker (`broker/paper.py`, `execution/price_model.py`) | none | place order | a fill is within the order and above the minimum ratio |
| Rule validator (`validator/engine.py`) | none | duplicate, cooldown, quote rules | sees every position and cooldown that exists |
| Sizing and caps (`risk/sizing.py`, `portfolio.py`) | none | lots for a signal | the entry stays within capital and exposure caps |
| Halts, auto-trade, flip limits (`risk/engine.py`) | four columns of the row | set, clear, count | a manual block survives an automatic clearing, and the reverse |
| Reversal flips (`orchestrator.py`, `manager.py`) | pending list | queue, drain | a flip follows a close that happened, once |
| Exit rules (`position/exit_rules.py`, `reversal_confirm.py`) | peak, trail, timers of a position | decide | precedence of the rules, monotone trail |
| Rehydration (`position/manager.py`, `main.py`) | `_open` | read OPEN rows | the book after a restart is the book before |
| Day roll (`db/paper_account.py`) | tomorrow's row | seed | no capital made or lost at midnight |
| Market data, safety (`market_data/`, `safety/`) | candles, minute marks | refresh, staleness | stale data blocks entries |
| Feed (`broker/delta_ws.py`, `main.py`) | subscription | subscribe, reconnect | every open position stays subscribed |
| Event bus (`bus/event_bus.py`) | bounded queue | publish | not modelled: nothing drains it |
| Reset and repair (`main.py`, `src/scripts/repair_paper_account.py`) | all rows | reset, rewrite | not under an entry or exit in flight |
| Contract selection, option data (`contract_selector/`, `option_data/`) | IV history | pick a contract, classify its IV and expiry | near the money, quoted, of the side the signal wants |
| Features, regime, scanners, strategy, quality gate, EV (`features/`, `regime/`, `scanner/`, `strategy/`, `quality/`) | none | bars to at most one signal with a confidence | no entry against a trend, the best signal wins |
| Learning, backtests, web app, migrations, configuration | none of the live book | read, replay, proxy | not modelled |

`PROJECT.json` lists the same parts with their files and status, and under
`hazards` every place where this code is hard to test, with the properties that
watch it.

### What is hard

- Two scans (loop and quote handler) or two closers (quote handler and exit
  endpoint) that both passed a guard before an await.
- Limits evaluated on a snapshot of the row and a count of the book that are
  several awaits old when the position is registered.
- Three callers of `reconcile_margin` that read the total first and write it
  after an await, next to `reserve` and `release` in the same columns.
- Any await that raises between the pop and the credit of a close, or between
  reserve and register of an entry. There is no transaction and no put-back.
- A kill switch or halt written while an entry is between its check and its order.
- Midnight between two statements that each take their own date: the SELECT and the
  INSERT of a seeding, the seeding and the select that follows it, a reserve and its
  reconciliation.
- A start that goes on with the rows it failed to read.

## 2. Modules

| Module | Role |
|---|---|
| `RiskLedger` | the row and each SQL statement on it, as pure operators |
| `CircuitBreakers` | entry gate and post-trade check over a snapshot of the row |
| `TradingCore` | races within a day: entrants, closers, summary endpoint, kill switch, failures |
| `PositionBook` | abstract specification of the book: none, held, leaving, settled or lost |
| `AccountDay` | the rows of several days: seeding, halts, auto-trade, flips, start, reset, midnight |
| `Session` | the process over crashes: writes of a trade, start-up, rehydration, WebSocket feed |
| `MarketFreshness` | candle refresh, quote age, and the checks before a scan goes on |
| `Signals` | bars to setups, bias, regime, scanners, score, router, crypto gate |
| `ContractChoice` | strike, contract, IV rank and regime, expiry adjustment |
| `EntrySizing` | order-book gates, slippage, lot size, portfolio caps, expected value, paper fill |
| `ExitRules` | thesis, exits in their order, trail, fees, reversal confirmation |
| `TradeLife` | the five modules above composed: one trade from the feed to its close and flip |
| `MCTradingCore`, `MCAccountDay`, `MCSession`, `MCTradeLife` | instances for TLC |
| `Sums` | the sum of a function over a finite set, for all the `sum(...)` of the code |
| `SumLemmas` | what such a sum is, and how an element more or less changes it (proved) |
| `LedgerLemmas` | what the statements of `RiskLedger` keep of a row (proved) |
| `TradingCoreSafety` | types, lock and ownership, exits, order of writes (proved) |
| `TradingCoreLimits` | contract, position and exposure limits (proved) |
| `TradingCoreBook` | rows, counters and columns against the book; the refinement of `PositionBook` (proved) |
| `AccountDaySafety` | every invariant of `AccountDay` (proved) |
| `SessionSafety` | every invariant of `Session` (proved) |
| `TradeLifeSafety` | every invariant of `TradeLife` (proved) |

The system is cut along its questions, since one machine with all of it is out of
TLC's reach. `TradingCore`, `AccountDay` and `Session` model interleavings and
abstract what the market says to a free choice; `TradeLife` models the decisions
and runs alone. `AccountDay` uses the same `RiskLedger` and `CircuitBreakers` as
`TradingCore`, so that the two agree on what a statement does.

### How TradingCore corresponds to the code

An action is one segment of a coroutine, from the resumption of one await to the
next, or the one statement awaited. The `pc` in `entry[e]` and `exit[c]` names
the await a coroutine is at; the other fields are its local variables that a later
segment reads: the risk snapshot, the lots, the position id, the total passed to
`reconcile_margin`. The `map` in `PROJECT.json` gives the lines of each definition.

| pc of an entrant | the coroutine is |
|---|---|
| `idle` | not scanning |
| `scanning` | inside `async with _scan_lock`, looking for a signal |
| `checking` | `_execute_signal_locked`, before `ensure_daily_state` returns |
| `validating`, `sizing` | before the validator; in the order-book awaits before `size_entry` |
| `sized` | after sizing, before the last duplicate guard and `reserve_capital` |
| `ordering` | capital reserved, BUY order awaited |
| `rejected`, `filled`, `journaled` | the order's result; the OPEN row written |
| `syncing`, `unwinding` | `reconcile_margin` awaited, on the normal or the except branch |

| pc of a closer | the coroutine is |
|---|---|
| `decided` | a rule fired, or the endpoint found the position; an await is ahead |
| `selling` | popped from `_open`, SELL order awaited |
| `sold`, `rowClosed`, `tradeWritten` | after the order, the CLOSED row, the trade row |
| `released`, `halting`, `accounted` | in `release_capital`: after its UPDATE, before a halt, done |
| `syncing`, `synced` | `reconcile_margin` awaited; cooldown stamp ahead |

`EntryRaises`, `UnwindRaises` and `ExitRaises` are an await that raises; the
failure of an await before `reserve_capital` is an `AbandonEntry`. `recentExit`
and `credited` are history: no guard reads `credited`, and `recentExit` only
times the history itself.

What a scan sees in the market is a free choice (`ExecuteSignal` for any token,
`AbandonEntry` at any early return), and so is when an exit rule fires.

### Abstractions and their limits

- Money is in whole units. An order of `lots` at one of the `Prices` has the premium
  `price * lots`. When it is filled in part, the code recomputes the premium from the
  fill price, which comes from an order book fetched again (`orchestrator.py:1097`),
  so that `FillBuyOrder` takes any of the `Prices`; an order filled in full keeps the
  premium it was sized with. Fees and slippage are part of the free result `Pnls`.
- Which orders sizing, caps, confidence and order book allow is in `EntrySizing`;
  here they are part of the free abandon and of the free choice of `lots`.
- `on_quote` of the engine closes positions and then scans. Here that coroutine
  is a closer and an entrant that are not ordered, which allows more behaviours.
- At most one market-summary call at a time. Each further caller would be one
  more reconcile; the exit and entry reconciles already overlap with it.
- An exit takes less time than the cooldown, so `CooldownElapses` waits for exits
  that have popped. The finding about the cooldown does not depend on it.
- Reversal flips, which bypass the cooldown, auto-trade, the emergency halt and
  the change of day are in `AccountDay`, crashes in `Session`.
- No cancellation of a task: nothing in the core cancels one but the shutdown, which
  is the crash of `Session`.
- A position row that a failed entry left `OPEN` stays so: nothing but a restart
  looks at it.

### How AccountDay corresponds to the code

`row[d]` is the row of IST date `d`, `None` when there is none. A caller is a scan, a
close or an HTTP handler; `op[c].pc` names the await it is at. Four facts of the
code shape the module:

- `ensure_daily_state` is three statements, and each takes its own date: the SELECT of
  the last earlier day (`ReadPreviousDay`), the INSERT (`InsertToday`), and the select
  of the row of a `today` that is fixed between them and the select (`Selected`). It
  runs before most segments: the pcs in `Ensuring` go on only when `op[c].step` is past
  the INSERT. Midnight may fall before each of them.
- When the selected day has no row, `assert row is not None` raises (`AssertionFails`):
  a close, a command or a flip ends there, an entry goes to its except branch.
- Each method of `RiskEngine` fixes its date first (`op[c].day`) and executes later,
  so that its UPDATE may reach yesterday's row, or match no row (`Updated`); so does the
  kill-switch endpoint, whose statement then inserts the default row.
- A halt, `set_auto_trade`, `record_flip` and the market summary are several statements
  each: `PostTradeCheck`, `HaltEntries`, `CallEmergencyHalt`, `EmergencyHalt`;
  `SetAutoTrade`, `ReadKill`, `WriteAutoTrade`; `RecordFlip`, `CheckFlipLimits`,
  `HaltFlips`; `CompareSummary`, `SyncMargin`.

A flip is counted when its contract is in the book after `_execute_signal` has
returned (`orchestrator.py:684`): when it was bought and not closed meanwhile
(`FinishEntry`), and also when it was open before and the duplicate guard refused it
(`GateFlip`). The cooldown is read and not timed: once there was a flip, the next one
is dropped or not (`NextTried`).

Once the last day of the instance has its row, the statements of a seeding change
nothing, and the model leaves them out (`NothingToSeed`); that is a reduction of states,
not of behaviours of the row. Every position costs one unit here, and an entry is a fill
or a rejection; the rest of an entry is in `TradingCore`. `booked`, `unbooked`, `halted`,
`commanded` and `disturbed` are history; no guard reads them. The web application's own
copy of the seeding functions (`src/web-app/`) takes the same steps.

`disturbed` marks the behaviours of which `EquityCarried`, `OvernightResultCarried` and
`EmergencyStands` say nothing, because the code loses money or a decision there: midnight between the
SELECT and the INSERT of a seeding, or from the call of `reserve_capital`, the pop of a
close or the call of a `reconcile_margin` to the last reconciliation (`MoneyUnderWay`); a reset while a booked
result waits for its `release_capital` (`ResultUnderWay`); and a kill switch whose own
statement inserts the day. A position that is held over midnight, a call that waits for
the new day's row, a reset under an entry or under the later steps of a close are not
excluded.

### How Session corresponds to the code

`status` is what the database keeps, everything else is lost by `Crash`. `task[p]` is
how far the entry or close of a position has come: row written, registered, popped,
row CLOSED, credited. `boot` follows `start()`: tasks created, rows fetched, book
rebuilt. A subscriber is a coroutine that calls `subscribe` (the poll's
`_ensure_holdings_on_websocket`) or that also stops and starts the socket (the feed
loop, the expiry roll, endpoints). `socket` is the adapter's socket and the thread
behind it; `orphan` keeps the keys of a socket that is still running but no longer
referenced, because a stop that returned late forgot a newer one.

`RehydrateFails` is the exception that `start()` logs: the rows could not be read and
the book stays as it is (`FetchFails`), or the loop that rebuilds it raised at one of
them (`RebuildFails`). `missed` is history, the OPEN rows that this process left out that
way. They stay OPEN and unwatched until the next restart, and the properties say exactly
that: the book is the set of OPEN rows without `missed`.

`overlapped` is history too: a trade moved on between the start of the tasks and the
rebuild of the book, and nothing else sets it. The properties that exclude it say so:
the code starts its scan before it reads the rows back, and in that window
`rehydrate_open_positions` may clear a position just registered or restore one just
popped (section 3).

### How TradeLife corresponds to the code

| Stage | Step | Code |
|---|---|---|
| `feed` | `FeedMoves`, `Admit` | `market_data/engine.py`, `_scan_for_entry`'s refresh and safety checks |
| `bars` | `ReadBars` | `FeatureEngine.compute` |
| `regime` | `Classify` | `RegimeClassifier.classify`, the scanners |
| `score`, `routed` | `Score`, `Route` | `QualityGate.score`, `StrategyRouter.route`, the crypto gate |
| `entry`, `order`, `filled` | `Size`, `PlaceOrder`, `Register` | `_execute_signal_locked`, `PaperBrokerAdapter.place_order`, `register_open` |
| `hold` | `TimePasses`, `QuoteArrives`, `Restart` | `PositionManager.on_quote`, `evaluate_momentum_exit` |
| `exit`, `flip`, `flip_score` | `Close`, `ConfirmFlip`, `ScoreFlip` | `_close_position`, `_try_reversal_flip` |

`manual_exit` is not a step here: it closes a position whatever the rules say, and races
with them in `TradingCore`.

A stage hands `work` on and reads its other inputs anew from small sets, as the code
does. What the code computes in floating point is in whole units: a price is its
distance from the VWAP in hundredths of an ATR (`Signals`), a percentage of the entry
price (`ExitRules`) or tenths of a dollar (`EntrySizing`), for lots of 0.001 BTC or 0.01
ETH (`ContractUnits`); a continuous input is
represented by one value per class that some comparison tells apart, and
`MCTradeLife` lists them. The confidence is carried on as the greatest limit it
reaches. The spot of a quote is 0 while the process has seen none, after a restart: the
rules that need it are then skipped, and the fee of the exit is not counted
(`RoundTripFees`). While a trade is decided on, the feed is frozen (`Unwatched`): no later
stage asks for its age.

## 3. Runs

The runs of `TradingCore` use a price of 1, the capital of 4 units, trade and deployment caps of 85 %, an
exposure cap of 50 % and a consecutive-loss limit of 1, unless said otherwise.
Safety runs use the symmetry of positions, contracts, entrants and closers; all of
them enter the specification only through equality and set membership.

| Run | Instance | Question |
|---|---|---|
| `core_safety` | 2 positions, 2 contracts, 2 entrants, 2 closers, orders of 1 or 2 lots at 1 or 3, losses | `OnePositionPerToken`, `AvailableSettled`, `ExposureCapHeld`: can overlapping scans and exits open a contract twice, take an order filled in full over the cap, or leave the available column off when all is at rest? No. |
| `core_faults` | 2 positions, 2 contracts, 2 entrants, 2 closers, `MaxPositions` 1, losses, one await raises anywhere | `PositionLimitHeld`, `LedgerMatchesTrades`, `ExitedOnce`, `WritesInOrder`, `BookMatchesDatabase`, `ImplementsBook`: does the stale count overrun the limit, do the counters lose a trade, and is every behaviour with a failure one of `PositionBook`? No, no, yes. |
| `core_liveness` | 1 position, 2 entrants, 2 closers, one failure, one kill-switch call, wins and losses, fair | `TypeOK`, `ScanLockReleased`, `ExitCompletes`, `KillDrainsEntries`: does the lock come back, an exit end, the kill switch take effect? Yes. |
| `account` | 2 callers over 2 days, 2 entries, 1 command, 1 flip a day, losses of 1, breakers in force | `AccountTypeOK`, `EquityCarried`, `HaltOutlastsKillSwitch`, `EmergencyStands`, `FlipsWithinLimit`: is capital made or lost at midnight or by a reset, is a halt lost to the kill switch or to a concurrent close, are flips miscounted? No, under the conditions `disturbed`, `Solvent` and `OnlyLossLimit` that they state (see below). |
| `session` | 1 position, 2 bands, the poll and the feed loop, 2 crashes, 1 lost connection or failed rehydration, 1 refresh, fair | `SessionTypeOK`, `CreditedOnceAcrossCrashes`, `BookRestored`, `SubscriptionTracked`, `HoldingsStreamed`, `OpenRowsComeBack`: does a restart with no trade in the start-up window credit a close twice or lose a position it could read, does a holding lose its ticks for good? No. |
| `trade_life` | every combination of the inputs in `MCTradeLife`, fair | `TradeTypeOK`, `BarsOfMarkedMinute`, `NoCounterTrendEntry`, `RoutedIsBest`, `LotsAreLargestAllowed`, `FillIsBestAndEnough`, `EveryTradeCloses`: do the decisions keep what they promise one another? Yes. |
| `margin_race` | 1 entrant | violated: `UsedMarginMatchesBook` |
| `cooldown_window` | 1 entrant | violated: `NoReentryAfterExit` |
| `kill_in_flight` | 1 entrant, one kill-switch call | violated: `KillSwitchHaltsEntries` |
| `exit_partial` | 1 entrant | violated: `ExitSellsWholePosition` |
| `overnight_close` | 2 callers over 2 days, no breakers, 1 entry | violated: `OvernightResultCarried` |
| `thesis_exit` | the inputs of `trade_life` | violated: `CollapsedThesisCloses` |

Bounds: a contract opened twice needs two positions in one contract, two closers
race for one position, two reconciles overlap with the third of the endpoint, and
the limit of 1 is overrun by a second entry, so two of each suffice to reach every
pair of racing steps. `Positions` also bounds the number of entries in a behaviour
(ids are never reused). `MaxFailures` 1 puts one failure at every await; two
failures are independent in the code, since no handler but the except branch of an
entry catches one, and the safety theorems hold for any number. `MaxKillPresses`
bounds the endpoint calls. A price of 1 or 3 makes a partial fill cheaper or dearer than
what was reserved; elsewhere the price plays no part. In `core_faults` a limit of one
position still lets the second entry race with the first one's failure, and a second
position be bought once the first one is closed or lost.

In `account` two callers are every pair of scan, close and handler; two days are one
midnight, and each row depends on the one before only. One command beside the
trading of two callers is one change of the row from outside; two commands in a
row are two callers doing nothing else. Two entries allow a position and its flip,
which is what the limit of one flip needs to be overrun. The configured
`emergency_flatten_on_daily_loss` is off in the shipped file and on here, since with
it off its branch is never taken. In `session` one position is enough: the rows do
not interact, and a second contract in the key list is the band's. Two crashes let one
process miss a row and the next one find it. `MaxDrops` bounds lost connections, failed
subscriptions and failed rehydrations together. In both, and only there, deadlock
is not checked: with the counters used up the system may rest.

In `trade_life` ticks are 30 s, the scan interval. The account holds 250 USD, the
shipped one, or 400 USD: at 250 the cap of 35 % on one underlying decides before the
risk budget of 12 USD, at 400 both do. One more account, of 140 USD with a position on the
other underlying, makes the sizing step down twice before the portfolio caps decide. Instants up to 1380 s pass every timer of the
exit rules.

Fairness (`FairSpec`) is weak fairness of each coroutine's steps once it is under
way: the event loop resumes every coroutine whose await is done, and the broker
and the pool answer or raise. Nothing is assumed to start a scan, fire an exit rule
or call an endpoint: `AcquireScan`, `DecideExit`, `ReadSummaryRow` and
`PressKillSwitch` are not fair. Symmetry is off in the liveness runs.

`Session`'s `FairSpec` adds: the supervisor restarts the process, the poll and feed
loops come round, the socket's thread connects again and again and in time succeeds,
and the retry time passes. Strong fairness is used where a step may be disabled
meanwhile and is due all the same (a lock's waiters are served in turn). No
trade, crash or refresh is fair. In `TradeLife` the clock (`TimePasses`) and the REST
poll of a held contract (`QuoteArrives`, every 2 s) are fair, nothing else.

### What the documents say and the code does not keep

- `margin_race`: "Used margin — returns to $0 when all positions closed"
  (`src/SESSION_PROGRESS.md:171`). Two overlapping reconciles can write in the
  other order; `deployed_capital` then differs from the book with nothing under
  way, until the next summary or close. `AvailableSettled` still holds, as each
  reconcile writes both columns from the same total.
- `cooldown_window`: "No re-entry for N minutes after exit"
  (`src/ARCHITECTURE.md:233`). The stamp is the last act of a close.
- `kill_in_flight`: "kill switch halts all new entries"
  (`src/ARCHITECTURE.md:88`). An entry that passed its check still orders;
  `KillDrainsEntries` shows that no later one does.
- `exit_partial`: "Exit: place opposite order; monitor partial fills"
  (`src/ARCHITECTURE.md:907`, in the section on live trading; the paper broker fills in
  part and rejects as well, and the same `_close_position` serves it). The result of the
  SELL is not looked at.
- `overnight_close`: "Prefer cash + deployed (correct even if a position was left
  open overnight)" (`db/paper_account.py:61`). Closing that position is often the
  first statement of the new day: `release_capital`'s UPDATE matches no row, the row
  seeded afterwards counts the premium back as cash, and the result of the trade is
  in `closed_trades` only. `EquityCarried` shows that nothing else is lost, outside
  the behaviours that `disturbed` marks.
- `thesis_exit`: "`thesis_degradation` exit when score collapses"
  (`src/DECISION_FLOW.md:18`; `:287` lists "VWAP/regime/structure/IV collapse" and a
  score below 40, `src/GAP_PROGRESS.md:54` the exit). The position manager passes
  structure and IV as `None`, so that the lowest live score is 40, and the shipped
  threshold is 35 (`config/position_exit_config.yaml:45`): the exit never fires,
  although `thesis_exit_enabled` is true. With the structure counted, as in the
  documents, the score of the run's quote is 20.

### What else the models showed

These are facts a change to the code should know of.

- `vwap_reclaim` never passes the crypto gate: its bias needs a close .40 ATR from
  the VWAP, the gate a cross of at most .16. `momentum_continuation` needs the spot
  back within .36 while the one-minute close is still .40 away.
- The bias comes from the sign of the last close, the distance of the spot from the
  VWAP is used without its sign.
- In the shipped paper mode (`paper.disable_circuit_breakers`) the gate strips every stored
  halt as long as the kill switch is off (`evaluate_gates`): auto-trade OFF keeps entries
  out by `entries_blocked` alone, which kill switch ON and OFF clears, and neither a halt nor a limit of
  flips is in force. `HaltOutlastsKillSwitch` and `EmergencyStands` therefore speak of
  the breakers in force, `FlipsWithinLimit` of a limit in force, and the runs turn the
  breakers on, which is what the live mode has, and paper mode with that key set to false.
- An order filled in part is revalued at its fill price, from an order book fetched
  after the sizing: half the lots at more than twice the price exceed the premium that was sized
  and reserved, and may exceed the exposure cap. `ExposureCapHeld` speaks of orders not
  yet filled or filled in full; for the others TLC finds it violated with `Prices` 1 and 3.
- Midnight in the middle of an entry or a close makes the equity wrong, and so does midnight
  between the SELECT and the INSERT of a seeding, or a reset with a result not yet
  credited: see `disturbed` in section 2.
- A rehydration that raises leaves its rows out of the book; nothing tries again before
  the next start.
- Before the first tick after a restart the fees are not known: the exit fee counts as 0,
  and as the fee of the entry is never written to the row, so does that one. A trail may then
  close at a loss after fees.
- A flip is counted, and its cooldown started, also when the contract was open already and
  nothing was bought.
- The 85 % caps of the relaxed paper mode never decide, since the caps per underlying
  and direction come first; `max_hold_mult` is never used; a slippage in percent is
  compared without the size impact that the price carries.
- `_normalize_100` corrects the rounding of all probabilities at the first of the
  greatest, which may take it below another one.
- `EMERGENCY_FLATTEN` is a state only: nobody closes the positions, and
  `emergency_flatten_on_kill_switch` is never read.
- The scan starts before the OPEN rows are read back. Without the condition
  `~overlapped`, TLC finds `BookRestored` violated (a position registered between
  the read and the rebuild drops out of the book, its row stays OPEN) and
  `CreditedOnceAcrossCrashes` (one popped in between is restored, sold again and
  credited again). The window is the await of one SELECT.
- With another limit of the day configured beside the daily loss, `EMERGENCY_FLATTEN`
  may be overwritten: `release_capital` writes `HALTED` first and `EMERGENCY_FLATTEN`
  an await later, for a loss only, so that a concurrent close that halts for another
  limit may write its `HALTED` last. `EmergencyStands` therefore promises the
  emergency under `OnlyLossLimit`, and otherwise that some halt stands.
- Equity is not carried over midnight once an earlier day ended used up, or with
  more deployed than it was worth: the seed is then the configured
  capital again, or counts a premium that the available cash could not cover. `EquityCarried` says so by `Solvent`.
- A new day's row starts with the kill switch off and entries allowed, whatever
  yesterday's row said. `HaltOutlastsKillSwitch` is therefore per day.
- `past_expiry_entry_cutoff` has no caller. The net delta of the portfolio is always 0.
- An ETH option may be bought on a signal of BTC's bars, when its chain has no
  BTC contract.

## 4. Proofs

Every invariant that a passing run checks is a theorem, and so are the two action
properties that need no fairness, `WritesInOrder` and `ImplementsBook`: a run shows
them on a small instance, `tlapm` for every value of the constants. The eight proof
modules rest on the named assumptions only:

| Assumption | Says |
|---|---|
| `CapitalAssumption`, `LimitsAssumption` | capitals and limits are naturals; 0 is off |
| `CoreAssumption` | finitely many positions, orders of at least one lot, integer results |
| `AccountAssumption` | finitely many callers, integer results, at least one day |
| `SessionAssumption` | finitely many positions, some band, a coroutine either ensures or refreshes |
| `FreshnessAssumption` | a request is answered or times out within 1 to 3 ticks |
| `SignalsAssumption` | enabled strategies are distinct names of scanners (`build_strategy_scanners` drops others) |
| `InputsAssumption` | types of the market's inputs: a level of the book has a price and a size (`extract_levels`), a bid or a premium is a natural, and so on |

The rest of each is that `None` or `NoData` is no other value. No theorem bounds the
number of positions, contracts, coroutines, failures, crashes, calls or days; that
ids of one behaviour are finitely many is the only finiteness of the core.

### Sums and statements

The `sum(...)` of the code, over the book, the open premiums, the regimes' scores or
the levels of an order book, is `SumOver`: a fold that picks elements in an
unspecified order. `SumRemove`, `SumSame`, `SumNat` and `SumZero` show that the order
does not matter and what a step changes. Induction over data cannot be used as a
rule, so each is proved from a smallest counterexample. `LedgerLemmas` says which
columns `Reserve`, `Release` and `Reconcile` keep, and that a reconcile leaves
`available + deployed` equal to the equity (`ReconcileBalances`).

### TradingCore

- `TypeCorrect`: `TypeOK` is not inductive, because a closer's position and result
  are read later; `TypeInv` adds what each program counter promises of them.
- `OwnershipHolds`: `LockInv` (a coroutine inside a scan is the holder of the scan
  lock) and `PositionInv`. The latter says for each closer that has popped a
  position exactly which rows it has written (`WrittenAt`), that a position in
  the book has an OPEN row nobody touched, and that no position has two owners. A
  step that writes nothing about positions is dealt with once (`QuietStep`), a
  step of an owner once (`OwnerStep`), the pop, the new row and the registration by
  themselves. `ExitedOnceHolds` and `WritesInOrderHolds` follow.
- `OnePositionPerTokenHolds`, `PositionLimitHolds`, `ExposureCapHolds`: to the
  limits an entry step gives up, passes sizing, proceeds or registers
  (`EntryCases`), and every other step only shrinks the book (`OthersShrink`). With
  `LockInv` the guard of the one entry under way therefore survives every await
  until `register_open`. With `AcquireScanUnlocked` in place of `AcquireScan` TLC
  finds `PositionLimitHeld` and `ExposureCapHeld` violated. One position per
  contract is guarded a second time by `_entering_tokens`, which the proof does not
  need.
- `BookMatchesDatabaseHolds`, `LedgerMatchesTradesHolds`, `AvailableSettledHolds`
  speak of states in which nothing is under way, and such a property is not
  inductive. The invariants say what each coroutine still owes: without a failure an
  OPEN row outside the book has an entry about to register it or a closer about to
  mark it (`RowsOwned`); a trade not credited has a closer that holds its result
  (`LedgerInv`); the columns are out of balance only while a coroutine on its way to
  a reconcile exists. `ExitCases`, `EntryWrites` and `OutsideSteps` say once what each
  step writes; the three proofs then only look at those cases.
- `ImplementsBookHolds`: `Spec => ImplementsBook`. `Staged` reads the abstract stage of
  a position off its rows and owners. A step of a scan either does nothing abstract
  or enters one position, with its limit from `PositionLimitHolds` and its contract
  from `OnePositionPerTokenHolds`; a step of a closer moves one position (`CloseMaps`)
  or leaves all alone.

### AccountDay

`AccountInv` is one invariant, since its parts need one another. Beside the types:

- a date in hand is never one to come, and is today's wherever money is written unless
  something intervened (`DateOK`); a row that was ensured is there, or of a day gone by
  (`SinceOK`); a seed that was read is still what the last earlier day ended with, unless
  something intervened (`SeedOK`), so that it does not matter which of two callers that
  both seed inserts the row;
- a halt has reached a row that is there, and with the breakers in force that row stays in
  a state of halt until auto-trade ON, a reset or the clearing of the paper halt
  (`RowsInv`), hence `HaltOutlastsKillSwitchHolds`, in which the gate is `evaluate_gates`
  and not the raw row;
- a reached daily loss has its halt, or a caller on the way to write it, and where no other
  limit is configured only the loss halts (`EmergencyInv`, `HaltOK`);
- a flip past the gate and not yet counted holds `_scan_lock` and finds the count below
  its limit (`LockOK`, `FlipOK`), also of a day that began after the gate had ensured its
  row (`LaterDays`), hence `FlipsWithinLimitHolds`: only one flip can be between the gate
  and `record_flip`, whether it bought or only found its contract open;
- what the account is worth is the capital and the results less those a caller still
  has in hand (`EquityInv`, with the sum over the callers in `Pending`).

A step is first sorted by what it touches: one that writes no row (`QuietKeeps`), one
that writes today's or an earlier row (`WriteKeeps`), and those that insert a row, the
kill switch among them (`NewRowRows`, `WriteKillSwitchKeeps`, `InsertTodayKeeps`), the
reset (`ResetRowsKeeps`), the close (`ClosePositionKeeps`) and midnight (`MidnightKeeps`)
by themselves. The conditions `OnlyLossLimit` and `Solvent` came out
of these proofs: the steps of `release_capital` and `previous_day_ending_equity` that
section 3 lists are those at which the unconditional invariants failed.

### Session

`SessionInv` has three parts: where each position stands, by its row, its task, the
book and its credit (`PositionOK`); that until the rebuild the book is empty and the
rows read are the OPEN ones (`RestartOK`); and that whoever subscribes holds the
adapter's lock and a socket has the keys of the subscription under way or those the
engine remembers (`LockInv`, `SocketInv`). The first two hold as long as no trade
overlapped the restoring of the book; a restoring that failed does not set that flag, and
`RestartOK` says of the rows it missed that they stay OPEN, untouched and outside the book. Trade steps leave the feed alone and feed
steps the book, so that each half is proved with the other unchanged.

### TradeLife

`TradeInv` says what every stage hands to the next one (`RegimeKept`, `ScoreKept`,
`RoutedKept`, `EntryKept`, `OrderKept`, `FilledKept`, `HoldKept`, `ExitKept`). The steps
are short; the weight is in lemmas about the pure operators:

- `PrimaryFollowsBias`, for `NoCounterTrendEntry`: a bias puts the trend along it ten
  points ahead of the trend against it. Scaling keeps the order, and the error of the
  eight roundings that `_normalize_100` adds to one probability is at most four
  hundredths of a percent, less than the lead (`LeadIsKept`).
- `SelectedIsBest`: the best signal of all is the champion of its family, so comparing
  champions loses nothing.
- `WalkCosts`: from every level the walk over the order book takes what the better
  ones leave, at every depth. The walk is a recursive function over the levels; the
  proof takes the least level at which its cost would differ.
- `LotSizeIs`: the loop that takes off one lot at a time stops at the greatest number
  within the lot limits whose cost the capital covers. The loop is a recursive function of
  the numbers of lots; that it exists, and what it ends at, is proved from a smallest
  counterexample (`DownExists`, `DownIs`), and that a smaller order always fits from the
  monotone cost (`CapitalFitsLess`).
- `OrdersAreKept`, hence `LotsAreLargestAllowedHolds`: the sized lots
  are the greatest number within the limits, and what is ordered, after the cut near expiry,
  is still within them (`NearExpiryIs`, `FewerLotsWithin`).

### Only model-checked

Liveness, which the prover does not handle under fairness: `EveryTradeCloses`,
`ScanLockReleased`, `ExitCompletes`, `KillDrainsEntries`, `HoldingsStreamed` and
`OpenRowsComeBack`. The six violated properties are refuted by a behaviour, which
needs no proof. Of `ContractChoice` no run checks a property of its own; what it
chooses enters `TradeLife` as the contract that a side is scored on.

## 5. Not modelled

- Event bus: events are published to a queue that no task drains, so that nothing
  depends on it.
- Web application: a proxy of the control endpoints and read-only views. Its controls
  and its seeding of the day are the actions of `AccountDay`.
- Database layer, migrations, configuration, wiring: a statement is atomic, a
  configured value is a constant.
- Learning, backtests, analysis scripts: offline; they do not touch the live book.
  The multiplier the learner produces is an input of `Signals`.
- The repair script: an offline rewrite of the rows from the trade list.
- `build_universe`, expiry tags and Greeks: data from the broker, date arithmetic and
  closed formulas; their results are inputs of `ContractChoice` and `MarketFreshness`.
- Strategies that the shipped configuration does not enable, the `scanner/vwap_*`
  classes that nothing uses, and `build_decision_flow`, which formats a page.
- The estimate of a price without an order book, and of a SELL: the result of a
  trade is a free input wherever it is used.

## 6. Plan

The modules of section 2 are complete for the parts `PROJECT.json` calls modelled, and
the invariants of every run are theorems. What is left:

1. Action properties: what a step may never do to the rows and to a halt, for the
   account as for the core, and the steps that keep a trail from falling back.
2. The hazards of `PROJECT.json` that have a note instead of a property: the columns
   that a zero turns into the configured capital, the premium that rehydration
   recomputes, the exposure after an order filled in part at a higher price.
3. `ContractChoice`: that the contract chosen is the nearest quoted one of its side.
4. The conditions of `EquityCarried` and `EmergencyStands` as separate lemmas on the
   statements, so that a change of `ensure_paper_account` or `release_capital` that
   lifts them can be proved to do so.
