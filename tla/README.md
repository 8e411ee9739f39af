# A TLA+ model of trade-control

trade-control arms trade plans, evaluates them against candles as they close, and places,
protects, withdraws and re-places broker orders for them. The program is a Rust workspace;
what runs live is one process (`worker`) with two threads, a Postgres database and a broker.

- The **HTTP thread** (axum) accepts signed intents and runs them one at a time
  (`worker/src/http.rs`, `Dispatcher::spawn`).
- The **scheduler thread** (`worker/src/scheduler.rs`) drives eleven interval loops with
  `tokio::join!` on one current-thread runtime. A loop never overlaps itself; different
  loops interleave at every `.await`, and with the HTTP thread.
- Both share the database and the broker. Nothing serialises them except
  `operation_lock`, which every job takes *shared* and only three administrative actions
  take exclusively.

A step of a model is therefore one store or broker call with the code that follows it up to
the next await. The models concentrate on state that several of those jobs write: the
attempt rows of a trade (`RetryGate`), its held-trade row (`HeldTrade`) and the rows of its plan
(`PlanSpine`). The evaluator the engine runs on each closed bar is pure; it is written as
operators (`PlanEval`) and run by two engines at once (`PlanCatchUp`).

## Inventory

| Component | State it keeps | Operations | Hard part | What makes it correct |
|---|---|---|---|---|
| Retry gate (`core/src/retry_gate.rs`) | `entry_attempt` rows, `retry_fire` marks | evaluate, backstop, record a placement | twelve awaits between the snapshot and the row it leads to; fills race the cancel | one live order, entries within the cap, no cancel followed by a refusal |
| Entry dispatch (`core/src/dispatch/enter.rs`, `seen.rs`) | seen index, order bodies | run an enter, record its outcome | an ambiguous placement; a fresh fire, a promotion and a replacement share the tail | poisoned ids place nothing, every live order has its row |
| Order sweep (`trade-control-cron/src/sweep.rs`) | none of its own | confirm, cancel, delete a row | acts on a snapshot; the cancel may fail | the row outlives its order |
| Pending-order lifecycle (`core/src/pending_lifecycle.rs`) | `held_trade_record` | hold, classify a failed cancel, release, narrow, restore | reasons overlap; the row has a TTL; store and cancel are two calls | a pulled order is never lost and never doubled |
| Recovery watcher (`blackout_watch.rs`) | the same row | cancel pass, recover pass, stops, delete | deletes what others wrote | restore before clear |
| Spread-hour widening (`blackout_apply.rs`) | the same row | remember and widen a stop | interleaves with the watcher | the drawn stop is remembered while the stop is widened |
| Park and promote (`core/src/order_control/`) | the same row | park, wait, drop, promote | read-modify-write of a shared row | a park is promoted at most once, through its gates |
| Spread-hour clock (`core/src/spread_blackout.rs`) | baked masks | spread hour, block length, TTL | the look-ahead starts outside the block | the row outlives the block |
| Plan evaluator (`engine/src/evaluate.rs`) | plan state: phase, watermark, milestones, latches, cross references | seed, evaluate bars, evaluate controls only | many bars in one tick; several rules on one bar | a late engine ends where a prompt one does; entries after break and retest, never past a veto |
| Engine tick (`trade-control-cron/src/engine.rs`, `engine/paper.rs`) | `plan_state`, `trade_plan`, `archived_plan`, the paper journal | list, seed, evaluate, journal, persist, archive, dispatch | persist before dispatch; three deletes at the end; rows replaced by two statements | a bar's entry goes out at most once, no bar is skipped, a finished plan stays finished |
| Control actions (`core/src/dispatch/control.rs`, `veto.rs`, `close.rs`) | plans, preps, vetoes, pauses | register, delete, arm, clear, close | they take the lock shared, beside a tick | a deleted plan leaves nothing behind |
| Plan administration (`worker/src/plan_admin/`), operation lock | plans | paper, swap, close by hand, guard | must exclude running jobs; stale alerts | nothing is dispatched for an account a plan has left |
| Break-even and stop ownership (`breakeven_watch.rs`, `order_control/restore.rs`) | the broker's stop | tighten, widen, restore | two writers of one stop | the stop owed is the stop in force |
| Re-price pass (`order_control/reprice*.rs`) | attempt rows | cancel and re-place at another price | its own cancel and re-place | one live order |
| Exit reconciliation (`reconcile.rs`) | notes | resolve, journal once | restarts, unknown answers | one note per exit |
| Entry reconciliation, cTrader evidence (`entry_reconciliation.rs`, `http/reconciliation.rs`) | audit rows | adopt a proven fill | ambiguous evidence | all or nothing |
| Position tracking, notifications, alerts | outboxes | observe, send | retries | reported once |
| Brokers, candle puller, sizing, engine v2, replay and arming tools, generators | - | - | protocol, I/O, pure arithmetic, offline | not modelled |

Interactions: the engine tick and the HTTP thread call `run_enter`, which asks the retry gate
and places; the promotion pass and the lifecycle's restore call the same `run_enter` with
another `EntryOrigin`. The sweep and the lifecycle work from lists of rows and of resting
orders. The watcher calls the lifecycle and then finishes the row itself. Widening, parking
and promotion read and write that row too. A paper, swap or manual-close request waits for
every running job and keeps new ones out until its transaction is done; a registration, a
delete and an alert run beside the jobs.

## Modules

| Module | What it is |
|---|---|
| `RetryGate` | The entry path of one trade: attempt rows, the gate, placement, sweep, replacers, crash |
| `TradeSlot` | What the entry path promises: one slot, flat, resting or open, entered at most `Slots` times |
| `HeldTrade` | The held-trade row of one trade: watcher, widening, park and promote, the clock |
| `PlanEval` | The per-bar evaluator of a plan, as operators |
| `PlanCatchUp` | Two engines over one market, one prompt and one late, both running `PlanEval` |
| `PlanSpine` | One plan between the engine tick, the operator's requests, the operation lock and the crash |
| `MCRetryGate`, `MCHeldTrade`, `MCPlanCatchUp`, `MCPlanSpine` | Constants and symmetry for TLC |
| `RetryGate_proofs` | Theorems about `RetryGate`: types, one live order and its row; numbers, bars, refunds and the cap; the cap on fills, the refinement of `TradeSlot`, single shots |
| `HeldTrade_proofs` | Theorems about `HeldTrade`: types, no double entry; the lemmas on copies and writes of the row |
| `HeldPromises_proofs` | Theorems about its widened stops (the drawn stop remembered) and its pulled orders (kept until answered) |
| `PlanSpine_proofs` | Theorems about `PlanSpine`: types, no stale dispatch, paper entries, one dispatch per bar |
| `PlanSpineTicks_proofs` | Theorems about what ticks and requests leave behind: stale alerts, skipped bars, finished plans, first ticks |
| `PlanCatchUp_proofs` | What each pass of `PlanEval` does, and the types of `PlanCatchUp` |
| `PlanCatchUpLate_proofs` | Theorems about the late engine: entries in sequence, reversals closed, the break of the contract |
| `PlanCatchUpPrompt_proofs` | Theorem about both engines: the late one ends where the prompt one is |

### RetryGate

State: `order` is the broker's book, `rows` the `entry_attempt` rows of the trade, `fired`
the `retry_fire` marks, `poisoned` the seen index for the enter's one baked id. Every caller
has a program counter `pc` and the locals of `evaluate_at`: the signal bar, the snapshot of
the rows, the rows still to walk, the attempt numbers freed by a cancel and the order placed.

Actions follow the function from await to await: `Arrive` (the seen check), `IsRetryFireSeen`,
`ListEntryAttempts`, `OpenPositionBackstop`, `Observe` (one row of the walk, newest first, with
its answers unresolved, pending, open, done), `CancelResting`, `ReObserve` (what the failed
cancel found), `MarkSuperseded`, `CapCheck`, `PlaceEntry` (placed, ambiguous, failed),
`RecordEntryAttempt`, `MarkRetryFireSeen`, `RecordDispatcherOutcome`. The sweep is
`SweepPendingOrders`, `SweepOne`, `SweepConfirm`, `SweepCancel`, `SweepDelete`. A replacer is
`PullOrder`, `ReplaceOrder`, `SetReplacement`. The environment fills, exits and withdraws
orders, and may crash the process.

Data that no property tells apart is abstracted: price, size, geometry fingerprint, account
and TTL. The gates above the retry gate only refuse before any of this state is touched, so a
refused fire is a fire that does not arrive. A fire's alert window ends as a fire that does
not come again.

### HeldTrade

State: `clock` in half hours (the look-ahead of a spread hour), `order` and `stop` at the
broker, `held` the row with the TTL of the table (`until`) and of its body (`expires`),
`pause` the pauses of the trade, and for every job its program counter and the *copy* of the
row it works on. `owed` is history: orders that a hold has pulled and no restore has answered.

Actions: `WatchStart` (the list of resting orders), `WatchHold` (derive the reasons, merge the
order onto the copy), `WatchStore`, `WatchCancel`, `WatchClassify`, `WatchDrop`; then
`WatchRecover` (protect, release, narrow, backstop), `WatchExtend`, `WatchNarrow`,
`WatchRestore`, `WatchPark`, `WatchFinish`, `WatchAmend`, `WatchClear`. Widening is
`WidenRead`, `WidenStore`, `WidenAmend`. A fresh fire is `EngineFire`, `EnginePark`; the
promotion pass `PromoteRead`, `PromoteClearRead`, `PromoteClearWrite`, `PromotePlace`,
`PromotePark`. `PauseArm`/`PauseClear` are the operator, the calendar and the engine's
alignment control. `Tick` lets half an hour pass once every loop has run `Passes` times.

What an entry does past its hold gates is one choice: refused, placed (resting or filled), or
parked. A fresh entry passes the market-hours gate and the retry gate; a replacement skips
both, as `run_enter` does. `SpreadHour` is not derived for resting orders any more
(`hold_reasons`); only widening writes it. The reasons for which a parked order waits are a
wait-or-go choice of `PromoteRead`. A spread mask flags whole hours; `Lead = FALSE` is a legacy
instrument without a baked mask. A stop is also widened at the NY-close edge of an instrument
whose own spread hour is another one (`blackout_apply.rs:271`): `WidenHour` is `InSpreadHour` or an hour of
`Edge`.

A cancel that errors may have left the order resting (fault `cancel`) or may have taken effect
(fault `answer`); the second is classified as vanished and dropped from the row. What keeps the
watcher from restoring stops (no broker, no position list, a failing amend) is one fault, `positions`,
since all of them leave the stop as it is and the pass goes on.

### PlanEval and PlanCatchUp

A rule has a kind (control, veto, close, break, retest, enter), a trigger (time, close cross,
wick cross, signal), a line that may slope, and the signed choices of its intent and its gates. A bar is
its four prices, whether it prints a signal, whether it is a spread-hour ("rubbish") bar, and the
window of candles it is read in. `EvaluateBar` is the order of
`evaluate_plan`: `Controls` by `ControlClock`, `Guards` (every one of them before a terminal one
retires the plan), then the `Spine` unless the plan is done or its entries are blocked, then the
watermark. `Recorded`, `Reseated` and `SettledAcross` are the bookkeeping of a close cross with
its origin; `Armed` says which guards watch in which phase; `EntryStep` latches a single-shot
entry and lets a multi-shot one fire on. Every loop of the code (over the rules of a pass, over the
bars of a tick) is a recursive *function* of how many it has visited, which is what the proofs need.

A tick reads its bars in one window, which depends on the batch: it ends with the newest bar and
begins with the first fresh one, or earlier by the lookback of an entry's pattern (`Lookback`) or at the bar before a
line's anchor (`DetectorWindow`, `engine.rs:816-865`). `InWindow` gives every bar of the batch
that window's start and its Wilder ATR, an exact fraction, warm once the window holds `AtrLength`
bars. Three things of a rule read it: the ATR term of the cross `Buffer` (`evaluate.rs:2695-2707`), the
`golden` gate (2724-2734) and the `Tolerance` of a retest (1816-1846), which is one
`retest_atr_step` of the slope for each bar since the one after the break, or since the window's first bar where
the plan has no break, and nothing without an ATR. So a rule can decide otherwise in a batch than bar by bar. `ReadsAlike`
describes the rules that cannot: no golden gate, no ATR term in the buffer (its default is 0), and a
tolerance only if it counts from a break, on a line whose anchor was there when the plan was armed.
`CatchUpIsPrompt` is about plans of such rules (`WindowFree`); the other properties are about all plans. `retest_atr_step` is
on by default; `tv-arm` arms necklines with a break, and it is a sloped retest without a break, or one
drawn after arming, that the restriction leaves out.

`PlanCatchUp` gives the same plan to `prompt`, which ticks at every instant, and to `late`, which
ticks whenever it likes (`LateTick`); `Elapse` closes one of six bars. Two assumptions about the plans
are named in the module. `CatchUpAssumption`: they are sequences of rules with ids of their own.
`NewsAssumption` (`NewsInOrder`): of two controls on one news event the one that stands earlier is due
first. That is how plans are built: an event arms its start and then its end
(`tv-arm/src/trade_plan_build.rs`, `push_window_rules`), their ids carry the event's, and `NewsWindow::new`
puts the edges in ascending order. Without it the two engines may differ (see "Disagreements").

`CatchUpIsPrompt` is stated from the first instant after the seed: the tick that seeds a plan evaluates
nothing, so a control that was due before the plan was armed (a blackout that had begun, which arming
keeps) fires one tick later in both engines.

The history the broker serves begins with the market's first bar, so a window reaches back to it at
most, and `ReadsAlike` asks for an `AtrLength` of three bars or fewer, so that it is warm before a touch can be
widened. In the code the lookback of a pattern entry is what warms it, whatever the batch
(`detector_lookback_bars`); a plan that enters on something else has only the line's anchors. Left out of the evaluator:
moving-average requirements, retrace and pullback milestones, and the detectors themselves. A
printed pattern is a flag of the bar, so a detector that reads the window's ATR (a pattern that must
be golden) is taken to see the same in every window. It need not; the claims are about what a
plan does with the patterns it is shown.

### PlanSpine

State: `market` (what each closed bar fires: nothing, the entry, or the veto that ends the plan),
the three tables per account, the lock as a queue of waiting processes and how each one holds it,
and the locals of the tick (`engine`) and of the request in progress (`web`). `detached` holds the
accounts an answered administrative request has taken the plan from; `reg` and `sent` are history:
the last registration and what befell it, and how often each bar's entry went out.

The tick is `EngineAsk` (its clock is read before it waits), `EngineList`, then per plan
`EngineSeed`, `EngineEvaluate`, `EnginePass` (no candles) or `EngineControls` (between bars only
the controls run, and the state goes back with its watermark); `EngineJournal` for a paper plan;
`EnginePutDelete` and `EnginePutInsert`, which are the two statements of `put_plan_state`;
`EngineArchive`, `EngineClearState`, `EngineClearPlan` for a finished plan; `EngineSend` and
`EngineNext`. Requests are `WebRegister` (live or paper), whose guard and whose write (`WebPutPlan`, which may
fail) are two steps with ticks between them; `WebDelete` with one write at a time, of which any may
fail; `WebMove` (paper, swap) and `WebClosed` as one transaction, and `WebAlert` with the guard in
front of what it does (`WebMutate`). A plan keeps one entry per bar, and evaluation is reduced to
what this interplay sees of it.

A guard's two reads, of the plans and then of the archive, are one step: a tick writes a plan's
archive row before it removes the plan's, so a plan that goes between them is still seen in the second.
`detached` forgets with the first row that a delete really removes. The refusals of a move that
depend on what the target broker can trade (`plan_admin/mapping.rs`) are left out; they only make
it rarer.

## Runs

Faults are members of the constant `Faults`; every run names the ones that may happen.
Passing runs leave out the faults, loops and bounds under which the property fails or would be
meaningless; "Disagreements" below says which.

### RetryGate

| Run | Bounds | Faults | Shows |
|---|---|---|---|
| `retry_gate_serial` | 1 caller, 3 bars, 4 orders, cap 2 | lookup, drift, cancel, supersede, identify | `NoStack`, `LiveOrderTracked`, `EntriesWithinCap`, `OnePlacementPerBar`, and that the entry path implements `TradeSlot` |
| `retry_gate_restore` | 1 caller, a replacer and the sweep, 2 bars, 2 orders, cap 1 | all but supersede | `TypeOK`, `SlotsWithinCap`, `SupersededNeverEntered`, `NeverCancelThenReject`, `FreshAttemptNumber` |
| `retry_gate_single` | single-shot enter, 3 bars, 3 orders | ambiguous, crash | `PoisonedIdPlacesNothing` |

Two bars and a cap of two are the least with a refire after a loss and one that must be
refused; a third bar and a fourth order add the re-priced order whose slot is refunded.
`retry_gate_restore` has 0.35 million states; with a third order it has 4.4 million and the same
verdict, so two are kept. `Orders` is the bound on placements: when they are used up the broker accepts no more and the
model only settles. A lost `retry_fire` mark (mark) is left out of `retry_gate_serial` because
the same bar may then place twice, which is what the code intends when it cannot write; the
proofs allow it.

### HeldTrade

| Run | Loops | Bounds | Faults | Shows |
|---|---|---|---|---|
| `held_kept` | watch | session shut in the fourth half hour, alignment pause, backstop after an hour, two passes per half hour | cancel, answer, lookup, positions, crash | `TypeOK`, `PulledOrderKept` |
| `held_stops` | watch, widen | one spread hour of three, no look-ahead | write, crash | `DrawnStopRemembered` |
| `held_single` | watch, widen | two closures, two spread hours with look-ahead, an NY close, a news pause, three orders, two passes per half hour | - | `NoDoubleEntry`, and under `FairSpec` `HeldOrderAnswered` |
| `held_promoted` | widen, control (promotion) | two fresh fires, three orders, a closure, a news pause, a spread hour and an NY close, two passes per half hour | write, crash | `PromotedOnce` |
| `held_hours` | watch | session shut for an hour and a half | - | violation of `PulledOrderKept` |

Bounds: `MaxTime` half hours, `MaxFires` fresh fires, `Orders` placements, `MaxWiden` widenings
of one stop, `Passes` passes of each loop per half hour: two, as at the default upkeep period, in every passing
run. The grace is two half hours, as in the
code; the backstop is 24 (twelve hours, out of reach) except in `held_kept` and `held_promoted`; in
the first it is 2 so that the forced restore is part of what is checked. The alignment pause lasts to the end of
the alert window unless a resume clears it, as the intent it is built from does; from then on
a restore would drop the order, so `PulledOrderKept` ends there. `MaxFires = 1` in the watcher's
runs because a second fresh fire beside a held order is a race the code lets happen (see
below); `held_promoted` has two, since `PromotedOnce` is about which park a promotion takes. The promotion pass
runs there, without the watcher: beside it, it breaks `PulledOrderKept`, `NoDoubleEntry` and
`HeldOrderAnswered` in the ways listed below. The news pause of `held_single` lasts longer than the
grace; in the run's horizon it can begin in the first half hour only. `held_kept` runs for seven half
hours, because an alignment pause that begins inside a closure needs the time for a row that is
not extended to expire; it has no failing write, because a failing extension is one of the ways
listed below (the proof allows failing writes where closures and pauses do not meet).

Fairness: `FairSpec` is weak fairness of each loop's next step, of the parking of a fire and
of `Tick`. The scheduler re-arms every loop after each pass and a panic ends one pass only
(`run_isolated`); a broker or store call returns or errors. No fairness is assumed of the
broker's fills, of pauses or of fires. Because time is bounded, `HeldOrderAnswered` says that
within the horizon every order pulled is answered; it is not a statement about all time.

### Plans

| Run | Bounds | Faults | Shows |
|---|---|---|---|
| `catch_up` | six plans, six bar shapes, five bars of two instants, every gap | a late engine | `TypeOK`, `CatchUpIsPrompt`, `BreakMeetsContract`, `EntryInSequence`, `ReversalNeverSwallowed` |
| `spine` | two accounts, three bars, two requests of every operation but delete and alert, one more job | put, clearPlan, archive, register, journal, fetch, crash | `TypeOK`, `NoDispatchAfterTransition`, `BarDispatchedOnce`, `PaperEntryJournalled`, `FirstTickFiresNothing` |
| `spine_fair` | two accounts, three bars, two requests of every operation | clearState, delete | `StaleAlertRefused`, `NoBarSkipped`, `FinishedStaysFinished`, and under `FairSpec` `RequestAnswered`, `PlanKeepsUp` |
| `spine_torn` | one account in use, three bars, no requests | crash | violation of `NoBarSkipped`: a stop between the two statements of a put |

Bounds of `catch_up`: five bars hold a seed, a dip, a break, a retest and an entry, and two
instants per bar put news edges, the expiry and the ticks of the late engine inside a bar as well
as on its boundary. The six plans are a news window with two vetoes and a multi-shot entry; two
windows with an expiry, a blackout that had begun when the plan was armed, a close that only listens in
the news and a single-shot entry; two entries of which one needs the retest; a falling neckline whose
retest widens with every bar; the same with golden bars asked for and a buffer in parts of the price and of the ATR; and
a plan that goes by such a retest alone, on a line drawn later than arming. Only the last two are not `WindowFree`.
The lines at a fixed level are the ones `BreakMeetsContract` speaks of. All of them break upwards; the
code mirrors. `AtrLength` and `Lookback` are 2, so that windows without an ATR, with one and with more than its
first mean all occur within five bars.

Bounds of `spine` (5.23 million states): two requests are the least with a move and a move back or
a registration after it; three bars are the least with a bar before, under and after a move; the
second account is the target of it. The bars of a run are every sequence over quiet, entry and
end. `spine` leaves out alerts, which write none of these rows, delete, because a delete beside a tick leaves a row behind, and clearState,
because a finished plan whose two clears both fail replays its bar (both below); `spine_fair` has
those two instead. It has no failing put and no crash, because a put torn in two is the
violation `spine_torn` shows.

Fairness of `PlanSpine`'s `FairSpec`: weak fairness of `Grant`, because tokio's lock is fair and a
waiter is woken when the lock is free for it; of `EngineTick`, because the loop re-arms after each
pass and every store call returns or errors; of `WebServe`, because the handler runs until it
answers; and of `JobDone`, because a job that got the lock ends. Nothing obliges the market to
close a bar or the operator to ask. `PlanKeepsUp` is what remains of the loop's promise when
requests move and remove the plan under it.

Deadlock is not checked in `HeldTrade`, in `retry_gate_single` and in the plan modules: the model
stops when its horizon, its one shot or its bars are used up. In the other runs of `RetryGate` it
is.

## Disagreements

`PROJECT.json` lists two places, each with the run that shows it, where the code does something
other than a comment of the repository says:

- `held_hours`: the TTL of a row that holds an order through a closed session is sized from a
  spread block, so a closure longer than an hour outlives it.
- `spine_torn`: `put_plan_state` deletes and inserts as two statements (`worker/src/pg.rs:1348`). A
  stop between them leaves a live plan without its state; the next tick seeds it past the bars it
  owed, against `scheduler.rs:55-58`. The second read of `read_plan_state_settled` does not help,
  because nobody else puts the row back.

The others met while modelling are steps of the modules as well. No passing run puts together
the loops, faults and bounds that show them:

- A replacement skips the retry gate: an order pulled by a hold leaves its row Cancelled, a new
  fire places, and the restore then places its own (`enter.rs:1032` against `retry_gate.rs:53-56`).
  `NoStack` is checked without a replacer.
- A stop widened in the look-ahead of a spread hour: the block length is counted from the
  unflagged hour and is 0, so the row expires inside the block (`spread_blackout.rs:626` against
  556-557). `held_stops` has an instrument without a look-ahead.
- Two callers inside the gate (the engine tick and the promotion pass or the HTTP thread)
  derive the same attempt number from the same snapshot, and the upsert drops one row
  (`retry_gate.rs:459` against its comment at 455). All gate runs have one caller.
- A `max_retries` script that resolves lower on a later bar lets the cap refuse a fire that
  has just cancelled the resting order (`retry_gate.rs:447` against 37-39). The runs give every
  bar the same cap.
- A multi-shot enter whose id was poisoned by an ambiguous outcome passes `is_seen` and places
  again: the gate has no row for the lost order (`http.rs:305` against `enter.rs:1334`). Only
  the single-shot enter is checked for `PoisonedIdPlacesNothing`.
- The sweep deletes the row of an order whose cancel failed (`sweep.rs:336` against 499-500),
  so the properties that relate live orders to rows are stated without the sweep.
- Clearing a parked order writes back a copy read before an await: it can lose an order the
  watcher stored in between, or bring back a row the watcher has deleted, whose order is then
  placed again (`order_control/park.rs:98-107` against 88-91). An order lost that way, or cancelled
  after its hold was overwritten, is owed for ever. `held_kept` and `held_single` run without the
  promotion pass. Within `held_promoted`, where nothing but the pass and the widening writes the row beside the
  fires, a park is still promoted at most once (`PromotedOnce`).
- `HeldOrderAnswered` also fails when a second fresh fire parks over the row of a held order, and when news
  pauses follow each other for longer than the row was given to live. `held_single` has one fire and
  one pause.
- A cancel that errors although it took effect is classified as vanished and the order is dropped
  from the row: it is pulled and never restored (`pending_lifecycle.rs:607-629`, 652). Nothing in the
  code owes it any more, and `owed` counts confirmed cancels only.
- A pulled order whose cancel failed stays on the row as cancelled, and its copy is placed when
  the hold lifts (`pending_lifecycle.rs:592`). `held_single` has no failing cancel.
- The watcher's delete of the row takes a parked entry with it (`blackout_watch.rs:298` against
  `pending_lifecycle.rs:1269`).
- A failed position list skips the restore of the stops but not the delete
  (`blackout_watch.rs:218` against 213). `held_stops` has no failing position list.
- A quote that calms between the widening's store and its amend makes the watcher forget a
  stop that is then widened (`blackout_apply.rs:399` against 238-242). `held_stops` has no calm
  quote inside a block.
- A session that closes while the order is held for a pause is never added to the row, and the
  restore after the pause skips the market-hours gate (`pending_lifecycle.rs:529`).
- The watcher writes back a copy of the row read before the widening's store and drops the stop
  it remembered (`pending_lifecycle.rs:580-589` against `blackout_apply.rs:399`).
- A widening at the NY-close edge outside the instrument's own spread hour races the watcher, for which
  the hold has lifted already: it restores and deletes the row between the widening's store and its
  amend, or between two passes, and the stop is left widened with no row. With `Edge = {0}`,
  `Spread = {1}` and no fault TLC finds `DrawnStopRemembered` violated. `held_stops` has no such edge.
- The widening amends from a position list read several awaits earlier, so a break-even amended
  in between is overwritten until the next break-even pass.
- A delete beside a tick: a state row written between the delete and the end of the tick is left
  without a plan, and the next registration of the trade resumes from its watermark and fires
  on bars from before it (`control.rs:1019` "always safe", and 1038-1039 "nothing is left
  dangling"). `spine` has no delete.
- A stop between the two clears of a finished plan, or a failing removal of the plan, leaves a
  plan without a state; it is seeded again and may enter later (`engine.rs:541` says a TTL
  still ages the row out, which plans no longer have). `FinishedStaysFinished` is checked without
  failing removals of the plan and without crashes.
- Both clears failing leaves the plan with its old state and replays the bar that finished it
  (`engine.rs:202` "can't replay a fired bar"). `spine` has no failing removal of the state.
- An alert signed before a swap passes the guard when the write of a finished plan's archive row
  has failed (`plan_admin/guard.rs:44`); `StaleAlertRefused` is checked without that fault. It also
  passes when an earlier run of the plan ended live on the alert's account: a second registration
  leaves that archive row in place, and `guard.rs:60-69` refuses only if *every* archive row is of
  another account (a plan finishes on A, is registered again on A, swapped to B, finishes on B;
  then an old alert for A is let by), against `guard.rs:1` "Refuse old signed webhook mutations
  after an operator changes plan ownership". `StaleAlertRefused` names that one case, which takes
  three requests; the proof attempt found it.
- The extension of a row for an alignment pause that begins while a closed session holds the order
  may fail at every pass, is only logged, and the row expires in an open window
  (`pending_lifecycle.rs:846` against 838-840 "Retain the recoverable order until its named pause
  lifts"). `held_kept` has no failing write; this too was met while proving.
- `evaluate.rs:3116-3118` says that entries are only ever blocked from the entry phase; a veto that
  does not retire the plan blocks them before the break too.
- The controls of a tick run in the order of the plan, not of their instants (`evaluate.rs:561`): on a
  plan that lists a news window's edges against their time, an engine that folds both into one bar
  ends with the window shut where one that ticks between them ends with it open. Plans are not built
  that way, and `NewsAssumption` says so; without it TLC finds `CatchUpIsPrompt` violated on such a plan.
- The ATR is taken over the whole window of the tick, later bars of the batch included
  (`evaluate.rs:2695-2734`, 1823-1846, `engine.rs:816-865`), where `trade_plan.rs:166-167` and 183-186
  have the buffer and the golden gate read at the bar itself, and a retest without a break counts its bars
  from a window that moves. A late engine can therefore stamp a break, a retest or an entry that a
  prompt one does not. `CatchUpIsPrompt` is stated for `WindowFree` plans; without that premise TLC finds it
  violated on the golden plan and on the one without a break. (The doc of `evaluate_plan`,
  `evaluate.rs:262-268`, says that only pattern entries read the window.)
- A registration whose guard has passed writes its plan whatever happened since: the paper plan of a trade that
  finishes between the two is registered again (`guard.rs:81` and `control.rs:695`). The plan is
  then a new registration, so the properties of `spine` hold.

## Proofs

`RetryGate_proofs` proves, for all values of the constants that satisfy the assumptions of
`RetryGate` (the cap is a number for each bar, faults are named faults, there is a bar):

- `TypeCorrect`: `Spec => []TypeOK`. `TypeOK` is not inductive alone: rows written come from
  locals, so `TypeInv` adds that a caller that is about to record holds a real order and that
  a replacer holds the orders its state implies.
- `OneEntryAtATime`: `Serial => (Spec => []NoStack)`.
- `EveryLiveOrderHasItsRow`: `Serial => (Spec => []LiveOrderTracked)`.

`Serial` is about the constants alone: at most one caller, no replacer, no sweep, a multi-shot
enter, and no fault that loses a placement (`ambiguous`, `record`, `crash`). Every other fault
is allowed: failing lookups, drifted ids, failing cancels, lost marks. No replacer is assumed
because a replacement skips the gate; two callers and the sweep break the properties in the ways
listed above.

The inductive invariant is `SerialInv`. `NoStack` says nothing of what a fire *knows*; a fire
places because it has seen that nothing is live, some awaits ago. `FireInv` records that
knowledge at each program counter: while it walks, every row in the store was in the snapshot;
the rows it has passed are not live; at the cancel only the newest row's order can be live;
from the supersede to the placement nothing is live; at the record only the order it placed
is. `LiveOrderTracked` links the book to the rows, so that "no row is live" means "nothing is
live". Row numbers are unique because the number of a placement is the successor of the
highest in use. Lemmas state once what each of the store's statements preserves
(`IdentifyRows`, `KeepsAttempts`, `ColumnWrites`, `TrackedStays`).

The second part of `RetryGate_proofs` needs one caller at a time (`OneCaller`), because two callers
share a snapshot, and little else; the sweep and the replacers run beside it:

- `AttemptNumbersFresh`: `OneCaller => (Spec => []FreshAttemptNumber)`, under every fault.
  `NumbersInv`: the numbers in use are among those the fire has read, since nobody else adds a
  row. `GreatestNumber` (a nonempty finite set of numbers has a greatest) makes the successor fresh.
- `BarsPlacedOnce`: `OneCaller /\ Marking => (Spec => []OnePlacementPerBar)`. `Marking` rules out
  a lost mark and a crash before the mark. `BarsMarked`: the bar of every row is marked or about to
  be, and the bar of a fire that may still place is not.
- `RefundsNeverEntered`: `OneCaller => (Spec => []SupersededNeverEntered)`, under every fault. A
  replacer re-points rows by order id while the gate marks them by number, so `RefundInv` has two
  halves. `BookInv`: a refunded row's order is cancelled and in no replacer's hands. `FireKnows`:
  until the cancel, a row the fire has read still names the same order, or that order is
  cancelled; so the order it cancels is the one its row names when the refund is written.
- `ConsumingWithinCap` and `CancelsOnlyToReplace`: `OneCaller /\ Refunding => (Spec => ...)` for
  `SlotsWithinCap` and `NeverCancelThenReject`. `Refunding` says that the enter is multi-shot, that
  the cap is one number for all bars and that no refund is lost; without the second the rail fails
  as listed under "Disagreements". `CapInv`: the consuming rows are covered, number by number, by
  those the fire charges (`CoverBounds` turns that into a count), and a fire that has freed a slot
  charges one row fewer than it read (`RefundFrees`).

Its last part takes `Serial` again, with `OneCap` (one cap for all bars):

- `FilledWithinCap`: `Serial /\ OneCap => (Spec => []EntriesWithinCap)`. `EntriesInv` counts every
  order that rests, is open or has closed: each is named by a row the fire charges, because a
  refunded row's order is cancelled, so before a placement they are fewer than the cap.
- `EntryPathKeepsPromise`: `Serial /\ OneCap => (Spec => ImplementsTradeSlot)`, the refinement.
  `OrderSteps` lists how an order may change and that no other is live then; `SlotChange` and
  `EntriesChange` carry one such change to the slot and to the count.
- `PoisonHolds`: `SingleShot => (Spec => PoisonedIdPlacesNothing)`, under every fault: one caller
  reads and writes the seen index, so no fire is under way once it is written.

`PlanSpine_proofs` proves, for any accounts, bars, requests, jobs and faults:

- `TypeCorrect`: `Spec => []TypeOK`. The inductive `TypeInv` adds `EngineShape`, `WebShape` and
  `RegShape`: what the tick holds is an account and its clock is not ahead of the market, so a
  watermark it writes is in range; a request that moves a plan names an account.
- `NoStaleDispatch`: `Spec => []NoDispatchAfterTransition`, under every fault, with deletes and
  registrations. `LockInv` says that whoever works holds the lock and that an exclusive holder is
  alone (`LockOrder`), and that a registration about to be written passed its guard and no transition
  has come since (`PutInv`); `DetachInv` says that in a tick no live plan of the tick's list is on a detached account.
  The first makes a transition impossible inside a tick, the second carries the list from
  `EngineList` to the dispatch.
- `PaperEntriesKept`: `Spec => []PaperEntryJournalled`. It is inductive beside `TypeInv`: the entry
  into each state of the tick after the journal is the point where it could fail.
- `OneDispatchPerBar`: `Orderly => (Spec => []BarDispatchedOnce)`. `Orderly` is about the constants
  alone: no delete among the requests and no failing removal of a finished plan's state. Crashes,
  torn puts, failing puts, failing archives and failing removals of the plan are allowed.
  `BarsInv` says of every bar that went out that each tick yet to come starts behind it: it is at or
  below the watermark of the current registration's state, or that state is missing and the next
  tick seeds; and of every bar in hand that it has not gone out. `TickInv` says that what a tick
  holds belongs to the current registration until its row is removed. `TurnInv` is the order of
  the lock: a move writes a watermark from the moment it asked, and every tick served before it
  has an earlier clock. `LeastBar` (a nonempty set of bars has a least one) rests on the well-foundedness of the
  naturals.

`PlanSpineTicks_proofs` proves, from `SpineInv` (the types, the lock, and `CopyInv`: what a tick
has in hand is the registration it listed, or that registration is over), with `WebEffects` (all
that a request can do to the rows) and `AroundTick` (what every other step leaves alone):

- `StaleAlertsRefused`: `"archive" \notin Faults => (Spec => []StaleAlertRefused)`. `AlertInv`: while
  a plan is detached from an account some row says so. The plan is elsewhere, or an archive row is
  left, because a finish writes the archive row first and only a delete, which forgets the
  detachment with the first row it removes, removes one.
- `NoBarEverSkipped`: `Whole => (Spec => []NoBarSkipped)`. `Whole` rules out a stop, a failing put and
  a failing removal of a finished plan: the faults that leave a plan without its row. `DueInv`: a
  plan that owes a bar has its row, except between the two statements of a put and just before the
  plan is removed.
- `FinishedPlansStayFinished`: `Removed => (Spec => []FinishedStaysFinished)`; puts may fail here.
  `OverInv`: once a registration has ended its plan row is gone or in the hands of the tick that
  finished it, and what that tick has left to dispatch is from bars up to the finish.
- `FirstTicksFireNothing`: `Orderly => (Spec => []FirstTickFiresNothing)`. `SeedInv`: a row exists only
  beside its plan, and a watermark only where the registration has been seeded.

`HeldTrade_proofs` proves, for any loops, hours, pauses, clock and faults:

- `TypeCorrect`: `Spec => []TypeOK`. `TypeInv` replaces the counts of `TypeOK` by `OneRow` (any two
  rows of a set are equal), which each write preserves without counting. The lemmas on `Merged`,
  `Protected`, `ParkedOnto`, `OrBlank` and `Saved` state what each way to change a copy returns.
- `OneEntryAtATime`: `Steady => (Spec => []NoDoubleEntry)`. `Steady`: one fresh fire, no promotion, and
  only pauses and positions may fail to be read. `SingleInv` counts an order wherever it can come
  from: resting or open at the broker, on the row, on the copy the watcher will write, or on the list
  of its restore; in every state of the watcher these together hold one order, except where the
  copy names the very order it is about to cancel (`Apart`).

`HeldPromises_proofs` proves `PulledOrdersKept`: `OneHold => (Spec => []PulledOrderKept)`. `OneHold`: the
watcher alone, one fresh fire, no news pause, reads that succeed, writes that succeed if both
closures and alignment pauses occur, and closures shorter than the grace. The inductive `KeptInv`
is about *time*, which `PulledOrderKept` is not. `Safe`: the row that carries what is owed `Lives`: it
outlives the window, or it is still there in a half hour in which the session is open, or it is
there now, the session is open and a pass of the watcher is still to come. The last case is the
watcher's duty: `RowsInv` and `OnlyHoursSurvive` say that a pass which finds the session open and no
pause releases the row, and that one which finds a pause extends it past the window. `CopyInv`
says of each copy the watcher may write that it carries every order owed, and for which of those
reasons it will live.

It also proves `DrawnStopsRemembered`: `SpreadOnly => (Spec => []DrawnStopRemembered)`, for any
pattern of spread hours, any number of fires and with failing writes and crashes. `SpreadOnly`: an
instrument without a look-ahead, no NY-close edge outside its spread hours, nothing but spread hours to hold a trade, no calm quote inside
them, a backstop that is not immediate, no promotion, reads that succeed, and a watcher that runs.
`Remembered` makes the row of a widened stop *cover* the block it stands in
(`CoversOn`: a TTL counted in one flagged hour reaches as far as one counted in the next);
`WideningInv` carries the absence of a row from the widening's read to its amend, `ParkingInv` keeps
a parked entry's copy from writing over it, and `RestoringInv` says that the watcher forgets a
stop only after it has put it back.

Each hypothesis about `HeldTrade` is needed: on small instances TLC finds the property violated when
any one of them is dropped (for `OneHold` with the widening beside it, when a cancel fails as well),
through one of the disagreements listed above or through a read that fails until the row has expired.
The faults and loops they leave open are the theorems' reach beyond the runs: any orders, horizon,
spread mask, number of passes and, for the stops, of fires.

The three `PlanCatchUp` modules prove everything the run `catch_up` checks, without a hypothesis
beyond the two assumptions on plans and the premise `WindowFree` that `CatchUpIsPrompt` states itself: for any plans,
prices, bar lengths, windows, delays and horizons. What a
tick computes is a loop over bars of loops over rules, and the induction theorems of the library,
which take an operator, are of no use to the provers. So each loop is a function of the number of
steps made, and a claim about it is proved over a *set* of indexes: if 0 is in the set and each
index brings in the next, no index is outside, or the least of those would have no predecessor there
(`AlongLoop` from `LeastOf`, from the well-foundedness of the naturals).

`PlanCatchUp_proofs` says of each pass what it may change and report (`Controlled`, `Guarded`,
`Vetted`, `Broken`, `Retested`, `Entered`), composes them into the bar and the tick, and proves
`CatchUpTypeCorrect`: `Spec => []TypeOK`. `TypeInv` adds that the bars are numbered in order and that a
watermark names one that has closed.

`PlanCatchUpLate_proofs` proves the three properties of the late engine from one invariant,
`Reports(st, E, n, m)`, which relates the plan's state to the set `E` of *all* its reports. It has two
bar numbers because within a bar the controls and guards are ahead of the spine: `n` is the bar the
first have read, `m` the one the spine has.

- `EntriesComeInSequence`: `Spec => []EntryInSequence`. `VetoesHold`: a veto in the reports ended the
  plan or blocks it, so no entry can follow. `MilestonesReported`: a milestone is the bar of a report.
- `ReversalsAreClosed`: `Spec => []ReversalNeverSwallowed`. `ReversalsClosed`: up to bar `n` no reversal
  printed without its latch. `BreakAwaited` is why a guard that only listens after the break hears it.
- `BreakIsTheContracts`: `Spec => []BreakMeetsContract`. `OriginAt`: the origin of the cross, moved and
  reseated bar after bar, is on the near side exactly if an earlier bar opened or closed
  there (`DippedBefore`); so the first bar to cross from it is the contract's.

`PlanCatchUpPrompt_proofs` proves `LateEngineCatchesUp`: `Spec => []CatchUpIsPrompt`.

- `Alike`: two engines are in one state and their counts of reports (`Tally`) differ by a constant
  margin. Every pass respects it, hence a tick does (`TickRespects`): what was reported before does
  not matter.
- `Ran` and `FiredBy` give the controls in closed form: which rules are due by a clock, and which
  news windows are open after. `ControlsCompose`: the controls of two clocks in turn do what those
  of the later clock do at once. It is here that `NewsInOrder` is needed: a window ends in the state
  that its last due edge gives it.
- `TwoTicks`: two ticks fold the fresh bars and then run the controls of the instant.
  `ThirdTick`: a third tick changes nothing. `TwiceLater`: two ticks now and one at the next instant
  do what two at the next instant do, whether or not a bar has closed between.
- `TapeIs`, `TickOnTape`: in a `WindowFree` plan every pass reads a bar the same in any window that can hold it
  (`RuleReads`, `TouchReads`; for the tolerance, because every such window begins with bar 1 and has its ATR
  before a touch can be widened). So a tick over a batch in its window is a tick over a *tape*, on which each bar stands with
  one fixed reading; the lemmas above are about the tape.
- The invariant is `Together`: two ticks of the late engine are `Alike` two of the prompt one, which
  has read the newest bar, and, after the first instant, has nothing left to do (`Fulfilled`). A late
  tick keeps it by `ThirdTick`, an instant by `TwiceLater`.

What proving showed about this model: the contract of the break is only that of a cross read from the close
in one direction through a flat line with no buffer or gate, and the reversal promise only that of a close that listens for a signal, so
`InContract` and the guard `on = "signal"` say so; two controls on the same event need an order
(`NewsAssumption`); and the claim of `CatchUpIsPrompt` begins after the seed (`now > Span`).

Every invariant, action property and refinement of the passing runs is now stated by a theorem.
Only model-checked: the three properties under fairness (`HeldOrderAnswered`, `RequestAnswered`,
`PlanKeepsUp`), because liveness and `ENABLED` are out of the prover's reach, and what each
theorem's hypotheses leave out.

## Not modelled, and why

- **Brokers, candle puller, notifications, replay and arming tools, generators, engine v2**:
  protocol, input and output, pure arithmetic or offline. Most of the repository's lines are in
  the last three.
- **Break-even and stop ownership**: the stop owed is decided anew on every tick from the whole
  path of prices since the fill, in floats. A model without that path would assume the answer it
  should check. Widening and the return of the drawn stop are in `HeldTrade`.
- **Re-price pass**: its cancel, re-entry and re-point are the replacer of `RetryGate`; its own part
  is the choice of a price.
- **Exit reconciliation, position tracking**: one pass that ends in an insert with a unique key;
  the key absorbs repeats, and a model could only state it.
- **cTrader adoption**: one database transaction over evidence a person reads.
- **Preps, vetoes, invalidate, close**: single writes or single broker calls on keys of their own;
  the gates that read them are one refusal of an entry in `RetryGate` and `HeldTrade`.
- **In the evaluator**: moving averages, retrace and pullback, pattern detectors: conditions over
  floats and windows of candles.
- **In the tick**: recordings, the settlement lookup before an archive, the catch-up note, the
  paging of candles.

## Order of work

The modules were written from the inside out: the entry path and its promise, the held-trade row
and its loops, then the evaluator, the spine around it and the lock. What would come next, in
this order: the detached obligations that a transition moves with the plan; the composition of
`PlanSpine`'s dispatch with `RetryGate`'s callers, so that a bar dispatched once is also placed
once; an abstract specification of the held-trade row (an order is at the broker, held or
answered) that `HeldTrade` implements under `OneHold`.
