# Formal models of mytbot

mytbot is an autonomous multi-asset trading system: one asyncio process that
reads markets, scores signals, passes them through a risk engine and sends
orders to venues. This directory holds TLA+ models of the part that handles
money, the TLC runs that check them and the TLAPS proofs about them. Paths
below are relative to the repository root, `src/` in `PROJECT.json`.

## 1. Inventory

One process runs many asyncio tasks on one event loop: the trading loop, the
stop-loss and aggregate-derisk loop, the intraday-derisk loop, the
profit-harvest loop, the order-reconcile loop, coverage sync, the command
poller, the API and a watchdog. There is no preemption, so a function is atomic
up to its next `await`; nearly every hazard here is state read before an `await`
and used after it.

| component | state it keeps | operations | talks to |
|---|---|---|---|
| Execution engine (`execution/engine.py`) | nothing that outlives a call but counters and `_open_orders`; all state is in the venue and the tables | `execute`, `cancel_working_orders`, `cancel_all`, `reconcile_positions` | venue adapters, table `orders`, fills ledger, risk engine |
| Venue adapters (`brokers/*`) | a session | `place_order`, `get_order`, `get_open_orders`, `cancel_order` | the venue |
| Order-reconcile tick (`system/orchestrator.py`) | none | one batch of aged working rows per tick | adapters, table `orders` |
| Fills ledger (`storage/fills_ledger.py`) | table `fills`, `_FILLS_LOCK` | `record_fill`, `position_state`, reports | database |
| Risk engine (`risk/engine.py`) | kill latch, disabled brokers, cooldowns, loss streaks, open lock; a JSON file | `evaluate`, `kill`, `reset_kill`, `disable_broker`, snapshot and restore | called by everyone |
| Command bus (`control/`, routes of `api/server.py`) | tables `control_commands`, `control_state` | enqueue, claim, apply, mark done or failed | risk and execution engine |
| Broker coverage (`system/orchestrator.py`) | the set it disabled last | exclude and release brokers | broker manager, risk engine |
| Exit monitors (`system/orchestrator.py`, `risk/*derisk*.py`, `risk/stop_loss.py`, `risk/profit_harvest.py`) | cooldown maps and the cross-loop in-flight map | four ticks in two tasks | risk and execution engine |
| Crypto venue room (`execution/engine.py`, `system/paper_wallet.py`) | reservations with a TTL | reserve, reset, fall back to another venue | paper simulator |
| Broker manager, orchestrator lifecycle | adapters, tasks | connect with backoff, start, stop | adapters, all loops |
| Trading loop, signals, portfolio, admission | per-iteration pipelines | one iteration | risk engine, execution engine |
| Universe, instruments, models, AI, data, API | caches and files | batch jobs, I/O | - |

`PROJECT.json` lists every component with its status.

What makes each correct:

- **Execution**: one order per client id however often it is retried; one working
  order per side; a reducing order never sells more than is held; what is
  booked was traded, once; every call ends; nothing is placed once killed.
- **Reconcile tick**: a row that says "over" is over at the venue; a row never
  stays open for ever; what it learns also reaches the ledger.
- **Ledger**: no lost update between concurrent writers; the two authorities for
  a position agree; realised P&L adds up; every fill belongs to the strategy that
  opened its streak.
- **Risk gate and commands**: only an operator opens what is closed, once per request;
  a restart, a stale snapshot or another component's enable does not; commands take
  effect in order and none waits for ever; an excluded broker is blocked and released.
- **Monitors**: two monitors do not reduce one position at the same time, what was
  flattened is not bought back at once, a failing position does not starve a stop.
- **Venue room**: reservations never exceed the room and are given back.

Hard behaviour, each at its line in `PROJECT.json` "hazards": concurrent callers
of `execute`; replies lost after the venue acted; failures that adapters turn
into an ordinary answer (REJECTED, an empty list, False); fills later than the
tracking timeout; crashes between the venue and the table; stale reports written
late; attribution after flips; decimals stored as text; a command claimed and then
lost in a crash; two components that disable one broker; marks made with the time a
tick began, under keys of two shapes.

## 2. Modules

| module | models | uses |
|---|---|---|
| `OrderExecution` | `execute` on a live venue, reconcile tick, sweeper, kill switch | `FillBooking` (refined) |
| `FillBooking` | what booking promises: each order once, with a traded quantity | |
| `FillsLedger` | `record_fill`, `position_state`, the position age | |
| `RiskGate` | the gate of the risk engine: kill switch, disabled brokers, reasons | |
| `ControlPlane` | API, command table, poller, coverage loop, gate file, start and stop | `RiskGate` (extended), `OperatorLatch` (refined) |
| `OperatorLatch` | what the gate promises its operator | |
| `DeriskMonitors` | the stop-loss, aggregate and intraday monitors in their two tasks | |
| `MC*` | the instances for TLC | |
| `*Proofs` | theorems: the inductive invariant of each model and what follows from it | the model |
| `OrderExecutionSerial` | theorems about calls that follow one another | `OrderExecutionProofs` |
| `FillsLedgerSums` | theorems about sums over the table, ages and openers | `FillsLedgerProofs` |
| `ControlPlaneLatch` | the refinement theorem | `ControlPlaneProofs` |
| `ControlPlaneOrder` | theorems about a bus with one poller | `ControlPlaneProofs` |

The three systems meet at narrow places. The monitors and the trading loop are
the callers of `execute`; in `DeriskMonitors` execution is one booking step that
may fail, in `OrderExecution` the callers are arbitrary. A booking is one step
in both, which `FillsLedger` justifies. The gate decides `Approve` and `Refuse`
in `OrderExecution` and `Reject` in `DeriskMonitors`; how it moves is in
`ControlPlane`.

Every safety property the passing runs check has a theorem. What remains are
models of the crypto venue room (reservation, reset, TTL), the profit-harvest
monitor with its persisted peaks, the two arbitrage executors and position
reconciliation.

## 3. OrderExecution

One live venue and one symbol. Several callers run `execute` concurrently beside
the reconcile tick, `cancel_working_orders`, the kill switch and the venue; a
crash may stop the process at any point.

| variable | stands for |
|---|---|
| `book` | the venue: per placement its state, side, quantity, traded quantity and a pending cancel |
| `orderLog` | table `orders`, one row per client order id, with its age class and the rows that are older |
| `booked`, `held` | table `fills`: quantity per broker order, and `SUM(signed_quantity)` |
| `job` | per caller the local variables of its `execute` and where it waits |
| `rec`, `swp`, `kill` | the same for the reconcile tick, the sweeper, `cancel_all` |
| `killed`, `disabled` | the kill latch and the disabled venue |
| `parked` | history: orders that worked when the process last died |

A placement is a client order id with the number of the attempt that created it,
so a retry that reaches the venue twice is visible as two placements.

| `execute` in the code | actions |
|---|---|
| verdict, market session | `Refuse`, `Approve` |
| dedup, flatten replacement | `Dedup`, `ReplaceCancel`, `ReplaceConfirm`, `ReplaceMark` |
| wave 9 gate, oversell clamp and dust close | `Clamp` |
| checks before placing | `Skip` |
| `place_order` with retries | `PlaceAccepted`, `PlaceRejected`, `PlaceRaises` |
| `_track_fill_status` | `Poll`, `Timeout`, `CancelRemainder`, `FinalRead` |
| `_persist_result`, `_persist_fill_to_ledger` | `WriteLog`, `Book` |

`RecPick`, `RecRead`, `RecCancel`, `RecWrite` are `_run_order_reconcile_tick`;
`SwpPick` to `SwpWrite` are `cancel_working_orders`; `KillCommand`, `KillList`,
`KillCancel`, `ResetKill` the kill switch. `VenueFill` and `VenueCancel` are the
venue, modelled from how the code uses it.

The constant `Faults` says which failures the environment shows. An adapter that
catches every exception of `get_order` and answers REJECTED (Alpaca, Binance,
Kraken, Bybit) has `read_rejected`; one that lets it through has `read_raises`.
`IdempotentVenue` says that `place_order` looks the client id up before it submits.

Abstractions: live mode (the paper simulator has no venue); one venue and
symbol, so no reroute to another venue; `open` covers the status pending; a fill
always has a price; quantity normalisation and every check before placement are
the one choice `Skip`; the batch of the tick and of the sweeper is taken row by
row, with a fresh list of open orders; `cancel_partial_on_timeout` is on and
`EXECUTION_AUTO_KILL_GLOBAL` off, their defaults; rows never get older than
the seven-day windows of dedup and reconcile; the row of an order always
carries a broker id; the side of an order is buy to open and sell to reduce.
`Book` is one step, which `FillsLedger` justifies: `record_fill` appends one
row, or none, under its lock.

When dedup finds several working rows on its side it takes the newest
(`ORDER BY timestamp DESC LIMIT 1`). Timestamps grow without bound, so the model
keeps their order instead: a row knows the rows that are `older`, those the table
held when its call began, and `Newest` is a row that no other one is newer than.
The choice matters: with three client ids a stale report can bring an old row
back to a working status, and a dedup that took any row would cancel that one
and place a second order beside the live one. `LiveIsNewest` (section 9) is why
the newest row is the right one.

### Properties

- `BookedOnlyWhatTraded`: never more booked than traded, per broker order.
- `OnePlacementPerClientId`: a client id becomes at most one broker order.
- `BookingSpec`: the refinement of `FillBooking`, in which an order trades unit by
  unit and is booked at most once, with a quantity traded by then. This is where
  a double booking would show, which the bound above does not see while the
  order has traded enough.
- `SingleWorkingOrderPerSide`: no two orders of a side work together; an order
  the process died on before it wrote the row is exempt, since nothing in the
  code finds it again.
- `LedgerNeverShort`: the ledger of a long-only symbol does not go negative.
- `CallsRunDown`: each step of a call brings it nearer to its end (`StepsLeft`,
  at most `11 + 2 * MaxPolls + MaxRetries`), so nothing that venue, tables and
  other tasks do makes a call start over.
- `ExecuteReturns`, `OpenRowSettles`: a call ends; an open row is settled.
- `NeverOversold`, `LedgerComplete`, `KillHaltsPlacement`: what the repository
  says and the code does not keep, see section 8.

## 4. FillsLedger

`storage/fills_ledger.py` for one symbol. `rows` is the table, `lock` is
`_FILLS_LOCK`, `wr` and `rd` the coroutines inside `record_fill` and
`position_state`. `Submit` is the validation, `Enter` takes the lock, `ReadLast`,
`ReadFlat` and `ReadOpener` are the three queries of `_prior_state`, `Commit`
computes and appends the row, `Fail` is an exception anywhere under the lock.
`PositionState` is two queries without the lock. `Crash` loses the coroutines
and the lock, never a committed row.

Money is counted exactly in small integers. An average is rounded to the last
decimal the column keeps, with ties either way, because the two backends break
them differently. On SQLite a decimal is text: `digits` says whether the stored
zero carries decimals ("0.0"), which the query `position_qty_after == 0` does not
match. `Whole` is the number of smallest decimals in one unit.

`AgeRow` is `position_age_seconds_from_fills` on what the query of
`fills_age_seconds_by_symbol` returns: the newest rows of the symbol, how many
depends on the other symbols, because the limit of 8000 rows is shared. It
compares decimals, so the text column does not mislead it. Rows are in time
order: a fill takes its timestamp just before it waits for the lock, which is
first come, first served.

Abstractions: one symbol (the lock is global, other symbols only wait), one
process, quantities on the column's grid, realised results not rounded, fills
that validation drops do not appear, a refresh that fails after the commit is
not told apart from a success.

Properties: `ChainUnbroken` (each row is computed from the one before),
`AuthoritiesAgree` (the sum the oversell guard reads is the position costs are
computed from), `MoneyAddsUp` (realised P&L equals cash received plus the cost
of what is still open, up to the rounding of the averages),
`AnswerIsAPosition` (a reader without the lock gets a position the ledger was
in, and with a count of zero none), `OpenerOwnsStreak` and `FlipStartsStreak`
(attribution of a streak that starts flat, and of one that starts with a flip),
`AgeCountsPosition` (the age the protective exits are gated on is unknown for a
flat position, else counted from the row that opened it, with two exceptions the
property names). Past the limit the oldest row left is the one that counts: a
position whose opening fill has fallen out and that was added to yesterday is a day
old and its soft exits are suppressed. After a flip the count goes back to the last
flat row, since the walk looks for a zero and a flip has none: buy 1, sell 2 leaves a
short as old as the long before it, and the minimum hold does not protect it. Both
disagree with what the repository says, see section 8.

## 5. ControlPlane, RiskGate, OperatorLatch

`RiskGate` holds the methods of `RiskEngine` on the gate as functions from gate to
gate: `Kill`, `ResetKill`, `DisableBrokers`, `EnableBrokers` (no reason given),
`EnableBrokersFor` (one reason), `RestoreRuntimeState`. `ControlPlane` holds their
callers.

| variable | stands for |
|---|---|
| `requests`, `last` | table `control_commands`, in id order; commands the API applies itself are entries with status `direct` |
| `poller` | per consumer the claimed rows it has still to handle and where it is in `apply_control_commands` |
| `gate`, `file` | the gate in memory and in `risk_state.json` |
| `runner` | the process: down, starting (risk engine there, dials not yet loaded), running, or the recovery run of `run_m5` |
| `report`, `lastDisabled` | what `BrokerManager.coverage` says, and the set the coverage loop keeps between ticks |
| `param` | one risk parameter: regime override in memory, `control_state`, `param.yaml` |
| `switch`, `toggling` | one strategy switch, and a toggle stored by the API and not yet enqueued |
| `reopened`, `lostToggle` | history, for the exceptions the properties name |

| code | actions |
|---|---|
| routes of `api/server.py` | `Enqueue`, `Direct`, `ConnectorSwitch`, `StoreToggle`, `EnqueueToggle` |
| `claim_pending` | `Claim` (with the refresh that may fail after the commit) |
| `apply_control_commands` | `ApplyKill`, `CancelAll`, `ApplyReset`, `ApplyToggle`, `ApplySet`, `Merge` |
| marks and events | `MarkDone`, `Emit`, `MarkFailed`; a second failure leaves the batch (`Escape`) |
| execution failures, monitors | `AutoClose`, `MonitorRestores` |
| `_coverage_sync_loop` | `ReportChanges`, `CoverageTick` |
| lifecycle | `Down` between any two awaits, `Start`, `Hydrate`, `Recover` (`--clear-pending-kill-commands`) |

Abstractions: one parameter and one switch (there is one row per name, nothing
relates two of them); a gate change and the write of its file are one step, as
there is no await in between, but the file may keep an older gate or one saved
half way through several brokers; the startup grace of the coverage loop is a
stutter; a broker that matures between the two evaluations of `coverage` in one
tick is in neither of its sets; `cancel_all` swallows what its adapters raise; the
dashboard serves one toggle at a time. Portfolio states read from the database
carry no key of the gate (`PortfolioKeys`), so a restore from one changes
nothing (`MonitorRestores`).

Properties:

- `LatchSpec`: the gate implements `OperatorLatch`. What is blocked for a reason other than
  coverage opens only for a reset the operator asked for, no further than it
  says, at most once per request; a restart brings back what was last saved; a
  lost command opens nothing. The mapping: `closed` is what the gate blocks (what
  the file blocks while the runner is down), `kept` what the file blocks, `asked`
  the scope of each reset that waits, `spent` the resets that do not wait any more.
- `ExcludedIsBlocked`: a broker the coverage loop has found excluded stays blocked for
  coverage. The exception is `reopened`: `reset_kill` and an operator's enable drop
  every reason, and the loop does not disable again what it thinks it has already
  disabled, so the broker stays open until it recovers and drops once more.
- `CommandsInOrder`, `ParameterDurable`, `ToggleAgrees`: commands take effect in order;
  the last parameter change reported as done is in force, stored, and what the next
  start loads; switch and dashboard differ only while a toggle is on its way or was
  lost between its two writes.
- `CommandsSettle`, `CoverageReleases`: liveness, below.

With two consumers, which `run_m5` has (`run_m5.py:434`) because `claim_pending` takes no row
lock, TLC finds `CommandsInOrder` and `ParameterDurable` violated; `LatchSpec` is
proved for any number of consumers.

## 6. DeriskMonitors

Two tasks. The guard task runs the stop-loss tick, then the aggregate tick, then
sleeps; the other runs the intraday tick. The code keeps timestamps and compares
them with `now_ts`, which a tick reads once; the model keeps ages: `lastClose` and
`inflight` are ages of the entries of `_stop_loss_last_close_ts` and
`_derisk_inflight_ts`, `task[t].since` the time since the tick read `now_ts` (before it
has, since it fell due), and a mark is entered with that age. `held` is the fills ledger, `Row(p)` the position row, which lags behind it until
`Persist`; `breach` the positions whose stop is breached while the venue is open and the
horizon gate does not suppress the exit; `lock` the open lock. Two histories serve the properties: `rebuy`, what the
aggregate monitor has flattened, and `task[t].claim`, the age of the oldest `now_ts` that a
mark of the position can still be made with while an intraday order is in execution.

| code | actions |
|---|---|
| start of the stop-loss tick | `StopLossTick` (`now_ts`), after an await `StopLossRows` |
| start of the aggregate tick | `AggregateTick` (rows), after an await `AggregateClock` (`now_ts`) |
| start of the intraday tick | `IntradayTick` (rows and `now_ts`), after an await `Evaluate` |
| row loop | `Skip`, `Submit`, `TickEnds` |
| risk verdict | `Reject`, `Approve` |
| `execute` | `Miss`, `Book`, `Persist`; `Raises` is an exception at any await |
| the rest | `Elapse`, `PriceMoves`, `TradingLoopOpens`, `Restart` |

Abstractions: prices and thresholds are the choices they lead to; execution is the
simulated path; the intraday monitor's own cooldown only spaces its trims further;
a failing persist, which would leave a position row without a position, is left
out. The code bounds no tick: after `now_ts` each position awaits risk and execution
in turn, in live mode with retries and polls. No assumption bounds one either;
`MaxTick` only cuts the time TLC explores, and is unrelated to window and cooldown.

Properties:

- `AggregateSeesInFlight`: the aggregate monitor submits a position whose intraday order is
  in execution only if `claim` lies a whole window before its own `now_ts`. That takes a
  tick which outlasts the window, and then it does happen: the run reaches the case,
  against the comments of section 8. The hard part is the stale `now_ts`: a mark is as
  old as its tick, and an aggregate close that was on its way when the intraday order
  went out may put an even older mark over it. The property is about one direction. In
  the other one an intraday tick that looked before an aggregate close was marked
  executes behind it, since the aggregate monitor marks only after its own execution.
- `NoRebuy`: what the aggregate monitor flattened is not bought back under its lock, but
  for two exceptions: any intraday tick of a milder tier clears the lock, and a signal
  the allocator selected passes it. `config/risk_limits.yaml:107-109` promises more.
- `StopsReach`: a position whose execution raises at every tick does not starve the stop
  of another one, because the stop-loss monitor marks before it executes; provided the
  guard's ticks come to be short beside the cooldown (`Prompt`), or each of them finds
  the mark expired and raises at the same position again. The
  aggregate and intraday monitors mark later, and behind such a position they starve.
- `StopLossFirst`: violated, section 8.

## 7. Runs

| run | instance | checks |
|---|---|---|
| `exec_faults` | 2 callers, 2 client ids, opening and reducing signals of 2, lot 1, one retry, lost replies, lying reads, failing database; reconcile | `TypeOK`, `BookedOnlyWhatTraded`, `OnePlacementPerClientId`, `BookingSpec` |
| `exec_serial` | 1 caller, 2 client ids, flattens of 2 from lot 2; reconcile, sweep, kill, crash; every call may fail, loudly | `SingleWorkingOrderPerSide`, `LedgerNeverShort` |
| `exec_liveness` | 1 caller, 2 client ids, flattens, one retry, rows up to the stale age | `CallsRunDown`, `ExecuteReturns`, `OpenRowSettles` |
| `ledger_concurrent` | 2 writers, 1 reader, 2 strategies, buys and sells of 1 at 3, 1 at 8 and 2 at 3, 4 rows, Postgres | the seven ledger properties |
| `control_plane` | 1 broker (disabled in an older file), 1 consumer, 2 commands out of 8, claims of 2 rows, 2 failures of any kind | the eight control properties |
| `derisk_monitors` | 2 positions, one a loser, the other with executions that raise and exempt from the lock; cooldown 3, window 1, lock 2, gap 1, up to 1 before and after `now_ts`, 1 failure or restart | `TypeOK`, `AggregateSeesInFlight`, `NoRebuy`, `StopsReach` |
| `exec_oversell`, `exec_ledger`, `exec_kill`, `ledger_flip`, `ledger_text`, `derisk_race` | the smallest instance of each finding | violations |

Why the bounds are enough. Two callers give every race between two calls; a
third only repeats a role. Quantity 2 is the least with a partial fill; lot 1
under an order of 2 makes the clamp bite. One poll and one retry give each loop
both its exits. Four rows hold an opening, an addition or reduction, a
flip or close, and the fill after it (`MaxRows` counts a fill from its submission
on, so two writers are together in `record_fill` as long as the table has no more
than two rows). The three fills, each bought or sold, give averages that must be
rounded, gains, losses, closes and flips; all products of two quantities and two
prices only repeat them at three times the states. Callers and client ids are symmetric, and
so are writers and strategies; no liveness run uses symmetry. `exec_serial` has
one caller and stops at the reconcile age on purpose: with two callers the
dedup race breaks both its properties (`exec_oversell` shows it), and beyond
the stale age the tick declares an order cancelled on a request alone, listed
under the hazards. It only flattens, because a flatten is the one signal that
replaces a working order, and so takes the longest way through `execute`; the
shorter ways are part of it, and `exec_faults` has the other signals. Larger
instances than the run's were checked once and pass: three client ids with
reconcile and crash under every loud failure, with reconcile, sweep and crash
under raising reads, and with reconcile, kill and crash and no failure (up to 13
million states); the theorems of `OrderExecutionSerial` cover every number.

Two commands are the least with an order between them, in one batch or in two; two
failures let a mark fail and then its correction, or a file be lost before a crash.
One broker is enough because no operation relates two of them; the theorems cover
any number. The eight commands are kill and reset of everything and of the broker,
two admitted values of the parameter and one out of bounds, and the strategy
switched off. Two positions are
what one tick needs for a position in front of another. The durations of
`derisk_monitors` are the least in which a tick may outlast the window and may also
fit into it, and may be prompt or not; window 2, cooldown 5 and ticks up to 2 were
checked once for its action properties (3.6 million states). `derisk_race` has a
longer window and cooldown, so that its mark does not fail by age.

Deadlock is checked in every run: a caller may always be refused, a report may
always change, time may always go on.

Fairness of `OrderExecution`. A call that started goes on, because the event loop
schedules its task and every adapter or database call returns or raises. A tick
that started goes on for the same reason. Rows age with the clock. `RecPick` is
strongly fair per row: a tick goes through its whole batch, oldest first, so each
aged row is picked at some tick, though not at every moment it could be. Nothing
makes the venue fill or cancel, a caller call, or an operator act.

Fairness of `ControlPlane`. Each poller and the coverage loop go on, since both are
tasks of the event loop with a sleep in them, and a runner that is down is started
again. Under it every command settles (`CommandsSettle`: infinitely often none waits),
across failures of each statement and crashes; rows whose batch was lost in a crash
stay `processing` for ever, which the property counts as lost, not as waiting. A broker
that is included for good loses its coverage reason (`CoverageReleases`).

Fairness of `DeriskMonitors`. Time goes on and both tasks run; an execution that always
raises comes to its exception. That ticks come to be prompt is a hypothesis of
`StopsReach`, not of the specification. Prices, fills and the trading loop are free.

## 8. What the repository says and the code does not keep

- `exec_oversell`: the guard reads the ledger before an order and books after
  it. Two callers in between, say stop-loss and the trading loop, each sell
  the lot. The claim is in `execution/engine.py:619` and `docs/DECISIONS.md:3180`.
- `exec_ledger`: a fill later than the tracking timeout, or an order cancelled
  with a part filled, never becomes a row of `fills`, against
  `storage/models.py:94`.
- `exec_kill`: an order approved before the kill is placed after it, against
  `risk/engine.py:299`.
- `ledger_flip`: the fill after a flip is given the opener from before the flip,
  against the comment at `storage/fills_ledger.py:333`.
- `ledger_text`: on SQLite a close at "0.0" is not found as flat, so the next
  streak inherits an old opener, against `storage/types.py:19`.
- `derisk_race`: the stop-loss tick marks the in-flight table under
  `broker:symbol:direction`, the other monitors look under `broker:symbol`, so its mark
  holds against nobody and the intraday monitor gets a second reduce approved, against
  the comment at `system/orchestrator.py:1845`. What then keeps the ledger from going
  short is the clamp, up to the window that `exec_oversell` shows.

Disagreements without a run of their own, as exceptions that a passing property names:

- `AgeCountsPosition`, a flip: `storage/fills_ledger.py:333` lets a flip start a new
  streak, the docstring of `fills_age_seconds_by_symbol` says the streak starts after the
  last flat row, and `risk/protective_exit_gate.py:153` walks back to that row. After a
  flip the age is that of an earlier position, and a fresh one may be cut at once.
- `AgeCountsPosition`, the limit: `system/orchestrator.py:1966` calls an underestimated age
  conservative, "less suppression"; `risk/protective_exit_gate.py:233` suppresses while the
  age is below the minimum hold, so it is more.
- `AggregateSeesInFlight`: `system/orchestrator.py:3245` says the mark keeps the aggregate
  monitor from a second close in the window, `:2124` that it keeps the book from being
  oversold. The mark is as old as the tick, so an order that is executed late in its tick
  is covered for less than a window, and not at all once the tick has outlasted it. The
  other direction, `:2216`, is open for as long as the aggregate close executes.
- `NoRebuy`: `config/risk_limits.yaml:107-109`, see section 6.

## 9. Proofs

For every value of the constants under their named assumptions; where a theorem
assumes more, it says so. Every invariant, and every action property and
refinement, that a passing run checks is a theorem here.

`OrderExecutionProofs`:

- `TypeCorrect`: the type invariant.
- `NothingOverbooked`: `[]BookedOnlyWhatTraded`. The bound alone is not
  inductive: a caller books the report it holds. `IndInv` adds that a report held
  by a call is about a placement of the call's own client id and not larger than
  what that has traded (`ResultOK`), that nothing of the client id of a call in
  progress has been booked (`JobOK`), that no two calls in progress share a
  client id (`OwnIds`), that a placement which does not exist has not traded
  (`VenueOK`), and that rows in work have a broker id (`RowsOK`, `TasksOK`). Traded
  quantities only grow, so the reports survive every step of venue, tick and sweeper.
- `ExecutionImplementsBooking`: initial states map to initial states; a
  `VenueFill` maps to `Trade`, a `Book` that records maps to `FillBooking!Book`,
  everything else stutters. That an order is booked only once is `JobOK`: the client
  id of a call in progress has nothing booked yet, and an id is never drawn again.
- `RetriesAreIdempotent`: under `IdempotentVenue`, `[]OnePlacementPerClientId`.
  A second attempt finds the first and creates nothing; a client id is drawn
  only when no placement carries it.
- `CallsAreBounded`: `Spec => CallsRunDown`, the half of `ExecuteReturns` that
  needs no fairness. `CallLabels` lists where each step of `execute` leads,
  `StepsLeftAt` what the measure is there, and a crash ends every call.

`Faults` and `Tasks` are arbitrary in these proofs, so they cover the failures
the runs leave out.

`OrderExecutionSerial`, for calls of `execute` that follow one another
(`OneCaller`), which is the trading loop while no exit monitor trades. Two callers
break both theorems, as `exec_oversell` shows:

- `NeverShort`: `[]LedgerNeverShort`, for a ledger that starts with rows (`Lot > 0`)
  and a database that answers; the venue may fail and lie in any way. The clamp
  reads the holding only once per call, so `LedgerInv` follows the quantity from
  there: a call past the clamp of a reducing signal carries no more than is held
  (`ClampInv`), nothing but that call can lower what is held, and what it
  books is bounded by what it placed (`QuantityInv`). Without rows, or when the
  read fails, the clamp stands aside, hence the two assumptions.
- `OneOrderASide`: `[]SingleWorkingOrderPerSide`, where moreover reports are true
  (`TrueReports`) and rows stay below the stale age (`MaxAge <= 1`). The property
  says nothing about rows, and dedup sees nothing but rows, so `SerialInv` ties
  them together: the row of a working order is working (`RowsMatch`) and is the
  newest of its side (`LiveIsNewest`), and an order without a row belongs to the
  call in progress or to a crash (`Unlogged`). A call past dedup is then `Alone` on its side:
  no row was found there, or the one that was found has been seen to end. Most
  steps of the other tasks are `Calm` (no order starts to work, no row of a working
  order leaves the working statuses) and keep all of this at once. What tick and
  sweeper write was read earlier; `RecInv` and `SwpInv` say that a terminal status
  they carry is about an order that is over. Each assumption is needed: a lost
  reply leaves an order no row names, a failed read that passes for an answer
  ends a row whose order works, and at the stale age a request does.

`FillsLedgerProofs`:

- `LedgerTypeCorrect`: the type invariant.
- `ChainIsUnbroken`: with the lock, what a writer has read is still the end of
  the table until it commits. `LockOK` says that a writer past `Enter` holds the
  lock, `WritersOK` that its copy of the last row is current.
- `ReadersSeePositions`: rows are only appended, so a sum taken earlier is the
  sum of a prefix, and the later count is at least its length.

`FillsLedgerSums`, about tables of every length:

- The induction theorems of the library take an operator, which the provers
  cannot instantiate. `SetInduction` states the principle for a set instead,
  from the least element of a set of naturals (`LeastNatural`, from `WFMin`). `AddUp` is a
  recursive function; that it exists, starts at zero and gains one member when
  one row is appended follows by that induction, and so does that it is linear
  and bounded.
- `OnePosition`: `[]AuthoritiesAgree`, and `MoneyIsKept`: `[]MoneyAddsUp`, from `SumsOK`
  and the case analysis of one fill (opening, adding, reducing, closing, flipping; long
  and short). The rounding of one fill is at most half a decimal per unit held,
  which is what the bound of `MoneyAddsUp` adds up.
- `AgeIsOfPosition`: `[]AgeCountsPosition`, for every limit of the age query. The row
  the walk ends at and the row that started the streak are two walks over one column:
  the first stops at a zero or at the limit, the second at a zero or a flip
  (`StreakStartStarts`), so they part only at the limit or at a flip. It needs `SumsOK`
  too, since whether there is a position at all is said of the sum.
- `OpenersOwnStreaks`: `[]OpenerOwnsStreak` where a zero is found as zero (`~Sqlite`;
  with the text column `ledger_text` violates it). A writer past the second query
  holds the last flat row of the table, past the third the strategy of the row behind
  it, and no row comes in between while it has the lock.

`ControlPlaneProofs`, for any brokers, consumers, commands and faults:

- `Types`: the type invariant, with `b \in disabled` exactly when `b` has a reason. It needs
  `RowsInv`: no two batches share a row, a row in a batch is `processing` until it is
  marked, rows beyond `last` do not exist, a stored toggle has its place. `Ordered` says
  that every set of rows has an oldest one, so that `Head` is defined.
- `Excluded`: `[]ExcludedIsBlocked`, from `GateInv`: the coverage loop's own set is
  blocked for coverage or reopened in every gate that can be in force, and file and
  memory are consistent gates.

`ControlPlaneLatch`:

- `Implements`: `Spec => LatchSpec`, the refinement. Four step lemmas (`TripStep`, `AskStep`,
  `ServeStep`, `GoneStep`) say which change of the mapped state is which action of the
  latch; one lemma per action of `ControlPlane` shows that it makes such a change or
  none. The interesting ones are the coverage tick, which moves reasons the latch does
  not see, a claim whose batch is lost, and the recovery run, which serves its own
  request and gives up the kills it deletes.

`ControlPlaneOrder`, for one consumer (`SinglePoller`), any number of commands and
any size of a claim:

- `InOrder`: `[]CommandsInOrder`. A claim takes the oldest pending rows
  (`ClaimedInOrder`), and nothing newer than a row of the batch is settled
  (`BatchOldest`). A second consumer breaks the latter with its own batch, and TLC then
  finds all three properties violated.
- `SwitchAgrees`: `[]ToggleAgrees`, from `StoredNewest`: what is stored is what the newest
  toggle says, and the runner has applied the newest one it has settled.
- `ParameterLasts`: `[]ParameterDurable`, from `SetInForce`: at each label of a change
  the poller has put the value in memory and, behind the merge, in the table; a change
  that is lost half way is in neither or is not reported as done.

`DeriskMonitorsProofs`, for any positions and durations:

- `Types`, and `SeesInFlight` from `FlightMarked`: while the intraday monitor executes, the
  mark of its position is no older than `claim`. To be inductive it needs its second
  half: an aggregate close of the position that is still to be marked has a `now_ts`
  no older than `claim` either, because it was on its way at the approval, or has got
  past a mark a window older than itself. Nothing is assumed of ticks or windows. `Rebuy` from `LockCovers`: the lock holds at least as long as
  anything it covers.

Only model-checked: the liveness properties `ExecuteReturns`, `OpenRowSettles`,
`CommandsSettle`, `CoverageReleases` and `StopsReach`, since fairness and ENABLED are
outside the prover; and the violated properties of section 8.

## 10. Not modelled

- The paper simulator with its crypto venue room, arbitrage, position
  reconciliation and the reroute to another venue (parts of `execution/engine.py`). They
  touch neither the live order protocol nor the ledger lock; the first three are
  next in section 2.
- The profit-harvest monitor. It neither reads nor writes the marks of the other
  monitors; its peaks and its own cooldown, persisted at the end of each tick, make
  a model of their own.
- Loss streaks, daily loss and the other numeric checks of `RiskEngine.evaluate`, which
  enter the models as one verdict; `reset_daily` has no caller.
- The `d015_volume_refresh` consumer of the command table and the runner heartbeat.
- Broker connection attempts and backoff: network probes around one lock.
- Scoring, sizing, forecasting, allocation, universe building and AI: numeric pipelines
  inside one coroutine, without a protocol to explore; they are the larger part of the
  repository, which is why only a small part of its lines is covered.
- The API beyond the command routes, the data pipeline, dashboards, backtests and
  scripts: I/O and offline tools.
