# Quorrin / EigenCapital paper trading: a TLA+ model

Paths below are relative to the repository; `engine.py` without a directory is
`paper_trading/orchestrator/engine.py`.

## 1. The system

The repository is a research code base around one long-running program: a
monitor loop (`paper_trading/ops/monitor.py`) that, once per cycle, lets every
asset refresh its price, manage its position and decide on an entry, judges the
portfolio as a whole, reconciles its book with a MetaTrader 5 account and saves
a snapshot. The process has one main thread, a pool of threads that run the
assets of a cycle, and a second process (the bridge, under Wine) behind sockets.
Nothing but files survives it.

| component | state | operations | interacts with | module |
|---|---|---|---|---|
| monitor loop, `ops/monitor.py` | none of its own | save, run one cycle, save, sleep; an exception of either is logged and the loop goes on | engine, snapshot | `Orchestrator` |
| orchestrator, `orchestrator/engine.py` | emergency halt, reason, recovery counter, peak, previous value, marked equity | `run_once` and its phases, `_check_auto_unhalt_eligibility`, `reset_emergency_halt`, `flatten_positions`, `_reconcile_mt5_orphans` | actors (calls on a pool), breaker, broker | `Orchestrator`, `BrokerSync` |
| actor, `orchestrator/actor.py` | health, consecutive failures | `run_cycle`, `reset` | its asset engine | `Orchestrator` |
| portfolio breaker, `orchestrator/health.py` | own peak, history of losing days | `check`, `record_daily_pnl`, `restore_from_state` | orchestrator | `Orchestrator` |
| admission, `orchestrator/admission/` | none | `run_admission` | orchestrator | `Orchestrator`, `BrokerSync` (what it raises) |
| snapshot, `services/engine_state_service.py`, `services/engine_recovery_service.py`, `state/` | file on disk | `save_state`, `restore_positions` | engine, book | `Orchestrator`, `Stops`, `Decision` |
| write-ahead log, `replay/wal.py` | sequence number, buffer, file | `write`, `flush`, reader | all pool threads | `WalWriter` |
| entry and position services, `services/entry_service.py`, `services/position_service.py` | the paper position with its `mt5_ticket`; deferred entries | `_submit_mt5_order`, `open_position`, `close_position`, `can_enter`, `poll_pending_entries` | broker, pipeline | `BrokerSync`, `Decision` |
| MT5 broker, `execution/mt5_broker.py` | position cache | `get_positions`, `place_order`, `close_position` | client | `BrokerSync` |
| MT5 client and bridge, `ops/mt5_client.py`, `ops/mt5_bridge.py` | connection pool, lock, heartbeat, circuit breaker; terminal | `ensure_connected`, `send_request`, handlers | terminal, broker, data fetcher | `Mt5Link` |
| decision pipeline, `execution/decision_pipeline.py` | context of a cycle, signal chain, cooldowns | `DEFAULT_STAGES` in order | asset engine, entry service | `Decision` |
| position lifecycle, `position/`, `asset_pnl_controller.py` | levels, floor, best price, scale-out plan | `update_pnl` and the engines it calls, protection | broker, snapshot | `Stops` |
| governance, `services/governance_service.py`, `monitoring/validity_state_machine.py` | halt conditions, smoothed score, GREEN / YELLOW / RED | `check_halt_conditions`, `update_validity`, `transition` | asset engine, inference, metrics | `Halts` |
| background writer, `writer.py` | queue | flush | state store | - |
| inference, features, labels, backtests, rebalancing, dashboard, alerting, shadow learning, replay | caches, files | numerical or read-only | - | - |

`PROJECT.json` lists every component with its sources, whether it is modelled,
and every hazard with the properties that are about it.

### What is hard here

* **A halt has to survive.** It is decided in memory deep in a cycle and is worth
  something only when it is on disk with its reason, the peak it is measured
  from, the loss history and the flattened book. Cycles can raise before their
  save, the disk can refuse, the process can die in between.
* **A halt has to happen.** The breakers are asked in the third phase. An
  exception in an earlier one skips them, and one is raised by every signal that
  admission lets through.
* **A halt has to be earned back.** The counter that lifts it outlives single
  calls, is only meaningful for some reasons, and is fed by an equity that no
  halted cycle refreshes.
* **Three breakers watch two peaks.** Which one trips first decides the recorded
  reason, and the reason decides whether the halt may ever be lifted.
* **Actors run concurrently and fail on their own.** The barrier must wait for
  all of them and for none that is halted.
* **The log is shared.** Batches are appended outside the lock, a failed append
  puts its batch back behind other threads' backs, a crash leaves a torn line.
* **Two books, one truth.** The paper book and the account drift apart through
  lost replies, cached positions, failing closes, restarts from an older
  snapshot, and stops that the account executes itself.
* **One line, many callers.** Pool threads share connections, reconnect them under
  each other, and send a request again whose answer has only been lost.
* **Five parts of the code move one stop,** each from a memory of its own that a
  restart loses.
* **A pipeline of twenty-two stages shares one context.** Each stage trusts what
  the earlier ones have left in it, and what it remembers from earlier cycles.
* **What lifts a halt lies behind it.** Most data a governance halt is read from
  are renewed by the inference that the halt prevents.

## 2. The modules

| module | what it is |
|---|---|
| `EmergencyHalt` | abstract: what an emergency halt promises, whatever trips or lifts it |
| `Orchestrator` | the cycle, the actors, the breaker, the monitor loop and the snapshot; implements `EmergencyHalt` |
| `EventLog` | abstract: what a log promises of the events it accepts, stores and acknowledges |
| `WalWriter` | the write-ahead log, its threads and its crashes; implements `EventLog` |
| `BrokerSync` | the paper book against the account: entries, exits, cache, sweep |
| `OrderFate` | abstract: what may become of an order, whatever it is sent over |
| `Mt5Link` | the line to the broker: pool, retry, heartbeat, breaker, bridge; implements `OrderFate` |
| `Decision` | one asset's cycle: exits, gates, flips, entries, deferred entries |
| `Stops` | the levels of one position from its entry to its exit |
| `Halts` | what keeps an asset from getting signals, and its validity state |
| `OrchestratorProofs`, `BrokerSyncProofs`, `Mt5LinkProofs`, `DecisionProofs`, `StopsProofs`, `HaltsProofs`, `WalWriterProofs` | theorems about the module in the name |
| `MC*` | constants and symmetry for TLC |

The modules overlap where components meet, each seeing the neighbour as a
relation: `Orchestrator!Worked` stands for `Decision` and `Stops`,
`BrokerSync!Order` for the fates of an order in `OrderFate`, which `Mt5Link`
implements, `Decision!Hit` for `Stops!Exit`; `Stops!Adopt`, `Stops!Enter` and
`Stops!Restart` are what `BrokerSync` does with tickets, seen by the levels.

### Orchestrator

`phase` follows the monitor loop: `boot -> save -> ready -> (pre) -> signal ->
portfolio -> save`. The actions are the parts of `run_once` between points where
another thread, a crash or an exception can be seen:

* `SaveState`, `SaveFails`: `save_state`, which writes a temporary file and
  renames it; a refused snapshot is logged by the loop. A refused *first*
  snapshot ends the process, which is `Restart`.
* `HaltedCycle`, `AutoUnhalt`, `ManualReset`: a halted engine's `run_once`,
  `_check_auto_unhalt_eligibility` with its early returns, and
  `reset_emergency_halt` (called from outside, between cycles).
* `PrePhase`: the marked equity and the exposure multiplier.
* `ActorCycle(a)`, `SkipHalted(a)`: one asset on a pool thread. What it may do
  with price, value and position is the relation `Worked`; it may do it and then
  raise. The interleavings of the pool are the orders in which the actors act.
* `AdmissionReview`, `AdmissionRaises`: phase 1b after the barrier. Without a
  signal that passes the filter it reports and changes nothing; with one it raises
  (section 5), and validity, breakers, reconciliation and save are skipped. No
  signal passes in the first cycle of a process, when every asset's last
  confidence is still zero.
* `TripDrawdown`, `TripHaltRatio`, `TripBreaker`: phases 3a, 3b and 3c, each of
  which returns early; `FlattenPositions` closes any priced subset, as the code
  skips unpriced positions and goes on after a close that raises one of the four
  exceptions it expects. Any other exception of a close leaves `run_once`:
  `TripDrawdownRaises` before the halt of 3a is set, so that the next cycle tries
  again, and `TripBreakerRaises` after that of 3c, which then stands unsaved for
  a cycle. Phase 3b does not flatten.
* `CompleteCycle`: phases 3g to 4. The sweep of the broker may close any priced
  position; an exception skips the save.
* `Restart`: the process dies anywhere, also while saving, and restores. Peak and
  loss history come back only with a halt.

Money is in whole units; percentages are compared by cross-multiplication, so no
rounding enters. A value or peak of `None` is 0, and no asset is ever worth 0.
The loss history is capped where it trips.

### WalWriter

Threads take numbers and buffer events under the lock (`Write`), leave it with a
full batch (`Take`), append it in pieces that may end in mid-line
(`AppendPieces`), and `fsync` (`Sync`) or put the batch back (`FailAppend`). An
`OSError` of the `mkdir`, which stands before the `try`, reaches the caller of
`write` or `flush` instead, and the batch belongs to nobody any more (`DropBatch`).
A line is two pieces, the second with the newline. `Flush` is the main thread's
flush, which runs when no actor does. `CrashAndReopen` keeps any prefix not
shorter than what was synced, drops the buffer (shutdown does not flush the log)
and reads the last number the way `_read_last_sequence` does: backwards, to a
line that parses, or, when an `OSError` keeps it from reading, starts from 0. Each
of these errors costs one of `MaxFaults`.

`EventLog` is this module without buffers, batches, pieces and retries: `held` is
what waits in the buffer or in a thread's hands, `stored` the lines of which the
file has both pieces, `durable` what was acknowledged, `lost` what an exception
has reported as given up (`Lose`). Its `Crash` may forget what was held and stored,
never what is durable. Stored does not mean readable: section 5 has the line that is
glued to a torn one. `AckedIsOnDisk` says the last in terms
of the file and is a theorem only, since the refinement is what its run checks.

### BrokerSync

A ticket is the number of an order that filled, `owner` its asset, `live` the
tickets the account holds; `position` and `ticket` are the paper book. In one
turn an actor may `Close` its position and `Enter` the opposite one, which is a
flip, or `Enter` over a position that is still held, which is a refused flip of
`Decision`. A new position without an order of its own inherits the ticket of the one
it replaces (`Inherit`), or adopts an orphan of its symbol where that one had none
(`Adoptable`); no order is sent when the account cannot be priced, which costs a
fault. `Positions` is `MT5Broker.get_positions` with its cache, which may be used or
found older than its five seconds at any call, its exception path (return what is
cached) and its failing terminal (an empty account). `ReviewPasses`
and `ReviewRaises` are phase 1b seen from here. `Order` has the ways a submission
ends according to `OrderFate`: filled, rejected, filled and taken for a rejection
(`place_order` knows the return code 10009 only, and a partial fill has another),
and after the loss of a reply
filled once or twice without the caller's knowing, or filled a second time because
the client sends it again. `Fetch`, `Sweep*` and `Adopt` are phase 3g: misses are
counted per ticket, the deal history is asked after `DealCheck` misses, the
position is given up after `MaxStale`, and orphans are adopted. A deal that is
found is read through a key it does not have, and the exception ends the cycle
without a save (`SweepDeal`, `Abort`). `BrokerCloses` is the account's own stop,
target or operator; like `Filled` it is external.

Left out: stacked layers (their orders bypass the guard), stop modifications,
sizing beyond a volume that rounds to nothing (`TooSmall`). Assets map one to
one to symbols, as the configured portfolio's do. An execution that comes late is
taken to come at once: the account has its ticket from the end of the call on, and
not from some later cycle. `_mt5_cleanup_queue` is read by
phase A but never filled, so phase A does nothing. A cycle that a trip ends
before phase 3g looks here like one in which the broker was not reachable.

### Mt5Link

`proc[t]` is where a pool thread is in its call: in `ensure_connected`
(`BreakerOpen`, `Look`, `Connect`), sending (`Send`), waiting, or at the one retry
on a new pool (`Resend`). A pool that another thread's refused reconnection has
emptied raises at `Send` before the retry is set up, and is filled again by a later
`ensure_connected` only. The lock is held through a whole request with its retry,
so one request is on the line at a time, although the docstring of the pool
speaks of parallelism; what `ensure_connected` does between its look, the
reconnection and the configure request is not protected, and that is what the
threads interleave on. `Answer`, `TimeOut`, `HangUp` and `LateExecution` are what
the bridge and the network make of a request; `BridgeHangs`, `BridgeDies` and
`TerminalGoes` are faults, bounded together. `Return` says what each kind of
request does with its result: an exception of the heartbeat makes
`ensure_connected` call itself, one of configure uses up an attempt.

`OrderFate` is this module without threads, connections, preparations and retries:
`open` are the orders whose call has not ended, `doubtful` those of which a reply
was lost. An order that is not doubtful is executed in the step that ends its call
or never. `OnlyLossDoubles`, which also counts the executions that may still come,
and `FailuresLeaveNothing` are theorems only, since the refinement is what the
module's run checks.

Left out: what a read returns, and batches, which have no caller. (`batch_request`
hands four requests to an executor of four workers and would wait for itself.)

### Decision

`pc` follows `update_pnl`, `generate_signal` and the stages of the pipeline in
their order, grouped where only one of them can change what is kept here:
`Exits`, `Decide` (first-cycle suppression), `Gates` (up to the confidence gate),
`FlipGates` (hysteresis, conviction, Kelly), `Manage`, `Route`, `Poll`, `Save`.
Gates that look at the market refuse or pass. `Raises` is an exception in any
stage, which only the actor catches; `NoDecision` is a halted asset or an
inference without a result. `Save` may be skipped, as phase 1b does. `lostSide`
and `lostAge` are history variables: the stop-out as a reader of the trades would
remember it, next to the `stopSide` that `can_enter` may forget.

Bars are counted up to the bound at which the code stops telling them apart
(`Later`). Stacking inside `manage_position` is disabled in the shipped
configuration and left out.

### Stops

Levels are gains in halves of the volatility at entry, whatever the side; the
configuration switches (adaptive exit, dynamic levels, scale-out) are chosen at
the start, all eight combinations. `Tick`, `FillTier`, `ScaledOut`, `Exit` or `Stay`,
`Adjust` and `Trail` are `update_pnl`; `Hold`, `MarketClose` and `Enter` the
pipeline's part, `Adopt` that of the sweep; `Save`, `Unsaved` and `Restart` the
snapshot, which keeps the levels and not the memory of the engines. Every update of a
level goes through `Adjusts`, which sends it to the broker or fails to. Prices jump
freely between `Gains`, so that several levels are passed at once.

Fractions are tenths. A plan is one of the two profiles that
`_generate_scale_out_profile` gives for the shipped convexities (3 to 6) and for the
archetypes it names: .5/.3/.2 at 0.5, 0.8 and 1.0 of the target, or .2/.3/.5 at 0.5,
1.0 and 1.5. In floating point, too, both leave exactly 0.0. Thirds, which need a
configured convexity from 1.1 to 1.5, are left out. Plan (`filled`) and manager (`left`)
keep their own accounts, as in the code: `PartialClose` refuses a share larger than
`left` and the tier stays marked as filled. `ScaledOut` moves the rest to breakeven
unless nothing is left, and `Even` looks at the breakeven stop only as long as
something is: a position that is scaled out completely stays open, without it, until
another level is hit.

A ticket need not have been ordered for the position it belongs to: a refused flip
inherits or adopts one, and the sweep adopts one (`Foreign`). Its levels are then
not compared with anything until the next update is sent (`unsynced`).

### Halts

One asset's halt conditions with what renews each: money (`UpdatePnl`), the
inference (`Infer`, in the order in which it trains a missing model and renews
liquidity, drift, date and trades, with an exception between any two), the calendar
(`NewDay`). `Restart` forgets everything of an asset without a position; with one, the
snapshot brings back trades, values and probabilities (`Restored`), of which the
profit factor, the drawdown and the mean confidence are made.

The validity score is in hundredths and has all its penalties: those of the six
conditions, the drift of the features that halts nothing (0.08, 0.20 or both,
`DriftPenalty`) and the instability of the model since its training (up to 0.25,
`Instability`), which nothing renews without a new training. The smoothed score is in
twenty-fifths, rounded. `UpdateValidity` is inertia, hysteresis and lock, called
by the cycle (`Validity`) and by every reader of the state (`GetState`). `Raised`
is the cycle whose phase 2 is skipped.

## 3. The runs

| run | bounds | what it asks |
|---|---|---|
| `orchestrator_money` | 2 assets worth 10 or 12, gains and losses of 2, 1 losing day trips, 2 recovered cycles lift, 1 restart | `TypeOK`, `RecoveryIsEarned`, `BreakerIsShadowed`, `HaltFreezesTheBook` |
| `orchestrator_liveness` | 1 asset that falls from 28 to 22 in steps of 2, 2 failures, 2 losing days, 1 restart, 2 cycles in a row without a save, fair | `HaltIsDurable`, `Orchestrator` implements `EmergencyHalt`, `WarmHaltIsLifted`, `DrawdownHalts`, `HaltIsSaved` |
| `wal` | 2 pool threads and the loop, batches of 2, 4 events, 1 `OSError`, 1 crash | `TypeOK`, `NothingDropped`, `SoloNumbersNameOneEvent`, and `WalWriter` implements `EventLog` |
| `broker_sync` | 2 assets, 2 tickets, 2 faults, 1 restart, deal check after 2 misses, end after 3, fair | `TypeOK`, `TicketsAreOwn`, `LoneTicket`, `LiveTicketsAreKept`, `LostTicketsAreRetired`, `OrphansAreAdopted`, `CyclesAreSaved` |
| `mt5_link` | 2 threads, pool of 2, 2 attempts, 1 nested call, 1 order, 1 fault, fair | `TypeOK`, `Mt5Link` implements `OrderFate`, `SocketsAreNotTornAway`, `TheLineIsFreed`, `LinkRecovers` |
| `decision` | 1 bar of deferral, flips every 2, cooldown of 2, spread observed for 2 cycles, any number of restarts, fair | `TypeOK`, `OnlyRefusedFlipsReplace`, `SameSideWaits`, `SellOnlyNeverBuys`, `DeferralsEnd` |
| `stops` | 6 gains from the stop to far beyond the target, 2 targets, 2 profiles, risk of 2, any number of restarts | `TypeOK`, `FractionsAddUp`, `BrokerIsNotLooser`, `StopNeverLoosens`, `LockedWinnersKeep` |
| `halts` | drought after 1 day, lock of 2 updates, no drift, a moderate one or the worst, a stable model or the least stable one, any number of restarts, fair | `TypeOK`, `HaltsLatch`, `CleanAssetsGoGreen` |
| `unchecked_cycle`, `mt5_once`, `refused_flip` | 1 asset worth 8 or 10; 1 thread; as `decision` | counterexamples, section 5 |
| `halted_probe` | 3 assets, 1 failure halts one, money stands still, no restart, fair | counterexample, section 5 |

Why the bounds are enough to be interesting.

* In `orchestrator_money` each of two assets goes up and down between 10 and 12,
  so the portfolio reaches a peak of 24 and falls from it past the 15% line, in
  one cycle or over two with a gain between them, and marked equity and realised
  value differ by up to that much. The breaker's own drawdown limit is set to 16%
  instead of 25%, where such a fall reaches it, too. All three trips, both kinds
  of lifting and a restart in each phase happen. Two losing days are left to
  `orchestrator_liveness`.
* In `orchestrator_liveness` one asset already gives every path past the breakers:
  the actor fails, its signal makes phase 1b raise, the sweep raises, the snapshot
  is refused, the process dies, a close raises while a trip flattens the book. Two
  losing days from 28 are a loss of 14.3%, which trips the breaker and not the 15%
  line, a third step is past that. Gains are left to `orchestrator_money`. Two cycles in a row without a save are one more
  than is needed to have an old halt on disk under a newer one in memory.
* In `halted_probe` three assets are the fewest of which one may be halted without
  reaching the ratio that halts the engine.
* In `wal` four events in batches of two give two batches that overlap and a third
  thread's flush. The one `OSError` is a failed append, a dropped batch or an unread
  last number.
* In `broker_sync` two tickets are an order and its duplicate or successor. The
  second asset is too small to order: it holds paper positions next to the first
  one's orphans, and inherits nothing it could lose. Three faults are a pricing that
  fails, a reply that is lost and a fetch that is, or the two failed fetches and the
  failed lookup after which `LiveTicketsAreKept` lets a living ticket go. With both
  assets ordering, the safety properties pass with two faults and the liveness
  properties with one (`TooSmall = {}`), but no single run with both is short enough
  to be kept; the safety properties are proved for any number. The code has 3 and 10
  where the run has 2 and 3; `DealCheck < MaxStale` is all the module asks of them.
* In `mt5_link` one fault is what the properties are about: a loss, a hang, a death
  or a terminal that goes, at every moment of two threads' calls.
* In `decision` two cycles are the smallest cooldown that distinguishes before,
  during and after; the window of three signals is the code's.
* In `stops` the gains are one for each comparison in the code: at the stop,
  between stop and entry, at the lock, at the trail, at one and a half times the
  risk, and beyond every target, where all tiers fill at once.
* In `halts` a lock of two updates is left and waited for (the code has five), and the
  scores go from 0 to 0.80, over the sums of every set of penalties: a moderate drift
  alone costs less than GREEN asks for, the instability alone more.

Assets of the same kind are symmetric in the safety runs of `Orchestrator`, pool
threads in the one of `WalWriter`; symmetry is never used with liveness, nor in
`BrokerSync`, where a sweep goes in order. In `Mt5Link` the heartbeat falls due when a thread is about to look.

`CHECK_DEADLOCK FALSE` only in the run of `WalWriter`, where all `MaxEvents` may
have been written; the others never stop.

### Fairness

* `Orchestrator`: weak fairness of `CycleStep`, since the monitor loop is an
  unconditional `while` that catches what a cycle raises, and the pool runs every
  future it was given; strong fairness of `AdmissionReview`. The latter stands for
  the nights: outside of the windows in `SESSION_TIER_WINDOWS`, which for every
  configured tier leave the night out, and once the 720 cycles have passed in
  which it only observes, the session gate lets no signal of any asset through, so
  that cycles whose review raises cannot go on for ever. Without this no breaker
  need ever be asked. Strong fairness of `TripDrawdown`: not every attempt to flatten
  the book raises an exception that `flatten_positions` does not expect. Midnight, manual resets, refused snapshots and crashes are
  not fair.
* `BrokerSync`: weak fairness of `Cycle` (the loop goes on, actors end their turn,
  the sweep moves) and strong fairness of `ReviewPasses`, for the same reason.
  Entries, exits and what the account does are not fair, and
  a fault is never required to stop beyond being bounded.
* `Mt5Link`: threads run, every thread goes on asking for prices, a request ends by
  an answer or by the socket's timeout, and the breaker's back-off passes. The
  bridge, the terminal and late handlers owe nothing.
* `Decision`: the cycle runs, and strong fairness of each part of the pipeline: an
  asset neither stays halted nor raises in every cycle. `Halts` shows that an asset
  can stay halted, and then a deferred entry does stay for as long; `DeferralsEnd`
  is about the others.
* `Halts`: the parts of a cycle follow each other; strong fairness of `Validity`,
  for the nights again. `CleanAssetsGoGreen` also assumes that restarts end.

There is no time in a cycle: a hung actor is outside the model, as `as_completed`
waits without a timeout.

## 4. What is proved

`OrchestratorProofs`, checked by TLAPS, for any finite nonempty set of actors,
any limits that satisfy `CountsAssumption` and `LimitsAssumption`, any set of
values and marks that satisfies `MoneyAssumption`:

| theorem | statement |
|---|---|
| `TypeCorrect` | `Spec => []TypeOK` |
| `HealthTracks` | `Spec => []HealthTracksFailures` |
| `HaltStops` | `Spec => []HaltStopsTheCycle` |
| `HaltSurvives` | `Spec => []HaltIsDurable` |
| `RecoveryEarned` | `Spec => []RecoveryIsEarned` |
| `ShadowedBreaker` | `Spec => []BreakerIsShadowed` |
| `HaltFreezes` | `Spec => HaltFreezesTheBook` |
| `HaltedActorsIsolated` | `Spec => HaltedActorsAreIsolated` |
| `KeptPeak` | `Spec => PeakIsKept` |
| `Refinement` | `Spec => ImplementsEmergencyHalt` |

Four of them (`HealthTracksFailures`, `HaltStopsTheCycle`, `PeakIsKept` and
`HaltedActorsAreIsolated`) are the property of no run. The last says what the code does
with a halted actor; what the documents say it does is the run `halted_probe`.

The inductive invariant is `CycleInv == TypeInv /\ HaltInv`.

* `TypeInv` is `TypeOK` with `HealthTracksFailures`: an actor that still runs has
  a failure to spend, or the failure counter could leave its range.
* `HaltInv` joins what the halt properties need of each other. That a halt stops
  the cycle is what keeps the counter, the equity and the peak from moving under
  it; that a halt at the top of the loop is on disk needs that every path to the
  top with a halt goes through `save` or leaves the disk as it was. A review that
  raises goes to the top without a save, and does so without a halt only because
  of `HaltStopsTheCycle`.
* `ShadowInv`, on top of it, is `BreakerIsShadowed` and its counterpart for the
  snapshot, since a restart may resume a halt that a loss streak has caused. Its
  lemma `BreachesSpread` is the argument: what breaches the higher limit from the
  lower peak breaches the lower limit from the higher one.

Money is opaque to the proofs: a portfolio total is a member of `Totals`, the
totals of well-typed valuations. That these are natural numbers is the lemma
`TotalsAreNat`. `SumFunction` of the community modules recurs over sets, through
`CHOOSE` of a function and of an element, and an induction over data is out of
reach of the provers; so the proof takes a counterexample with the fewest elements
(`LeastNatural`, from the well-foundedness of `<`, which needs no operator
parameter) and shows that it is none. First that the recursion has a value on every
finite set (`SumsExist`: a smaller set has a function, and one more element extends
it), then that the value is a natural number (`SumIsNat`).

`HaltsProofs`, for every length of a drought and of the lock:

| theorem | statement |
|---|---|
| `TypeCorrect` | `Spec => []TypeOK` |
| `Latch` | `Spec => HaltsLatch` |
| `CleanAssetsStayGreen` | `Spec => CleanAssetsKeepGreen` |

* `TypeOK` is inductive as it stands, by way of bounds on what a penalty costs and
  on what inertia makes of a score. `Latch` needs nothing else: a latched asset is a
  halted one, without a position no money moves its profit factor, and only `Infer`,
  which a halt disables, renews the liquidity, the drift and the date. A restart is
  where all of them end, as the snapshot has nothing of an asset without a position.
* `CleanAssetsStayGreen` is the safety step behind `CleanAssetsGoGreen`: with a score
  above 0.70, which leaves room for a moderate drift and nothing more, and a smoothed
  score of 0.32 or more, the next update puts the smoothed score at 0.60 or above and
  keeps GREEN (`Weighed`). From a lower one an update can still miss what GREEN takes,
  for what inertia keeps of the past, and needs more of them. No run has
  `CleanAssetsKeepGreen` as a property of its own.

`BrokerSyncProofs`, for any number of assets, tickets, faults and restarts and any
limits that satisfy `SyncAssumption` (the sweep asks for deals before it gives up):

| theorem | statement |
|---|---|
| `MirrorInvariant` | `Spec => []IInv` |
| `TypeCorrect` | `Spec => []TypeOK` |
| `TicketsStayOwn` | `Spec => []TicketsAreOwn` |
| `NoSymbolTwice` | `Spec => []LoneTicket` |
| `LivingTicketsStay` | `Spec => LiveTicketsAreKept` |

* `TicketsAreOwn` alone breaks at a restart: `SnapshotOwn` says of the saved book
  what it says of the one in memory.
* `NoTwin`, which is `LoneTicket` without cardinalities, depends on what an actor
  sees before it sends an order. That is `CacheCovers`: a cache of this cycle
  lacks no living ticket but those of actors whose turn is over, and they
  send nothing more in this cycle.
* `LiveTicketsAreKept` needs `MissesAreFaults`: a miss of a living ticket has cost
  a fault of its own. It also says that nothing is counted against a ticket not yet
  given out, or a new order would inherit misses.

`Mt5LinkProofs`, for any finite set of threads, pool size, number of attempts,
depth of nested calls, orders and faults (`LinkAssumption`):

| theorem | statement |
|---|---|
| `LinkInvariant` | `Spec => []IInv` |
| `TypeCorrect` | `Spec => []TypeOK` |
| `NoThirdExecution` | `Spec => []OnlyLossDoubles` |
| `WaitersKeepTheirSockets` | `Spec => SocketsAreNotTornAway` |
| `FailuresAreClean` | `Spec => FailuresLeaveNothing` |
| `Refinement` | `Spec => ImplementsOrderFate` |

* `LineIsHeld`: a thread that waits, or is about to send again, holds the lock. So
  no two are on the line, and nobody but the holder replaces the pool.
* `OrdersAreHeld`: an order that is not finished belongs to one thread.
* `OrdersAreBudgeted` is the account of what may have become of an order, the
  executions still possible after its thread has stopped waiting (`late`)
  included: nothing before its first request is answered or lost, at most one
  execution (and only after a loss) before the second, two at the end.
* `FailuresAreClean` reads that account at the moment a failure is reported. It is
  what `BrokerSync!Order` takes for granted in its rejected case, where no ticket
  comes into being.
* `Refinement` maps a new order to `Place`, the end of its call to `End`, a lost
  reply to `Lose` and a late execution to `ExecuteLate`; everything else on the
  line is nothing (`StepFate`, `CallFate`, `FateStep`). `RoomForOneMore` takes from
  the account that what is on the line may still be executed, and `LateIsLost`,
  which is proved along with it, that a handler nobody waits for has an order whose
  reply was lost. A call that ends leaves no other thread with its order
  (`CallsClose`, by `OrdersAreHeld`).

`DecisionProofs`, for all bounds and cooldowns that satisfy `DecisionAssumption`:

| theorem | statement |
|---|---|
| `StagesAgree` | `Spec => []IInv` |
| `TypeCorrect` | `Spec => []TypeOK` |
| `RefusedFlipsAlone` | `Spec => OnlyRefusedFlipsReplace` |
| `DeferredEntriesDoNotOpen` | `Spec => DeferralsNeverOpen` |
| `StoppedSidesWait` | `Spec => SameSideWaits` |
| `SellOnlyAssetsSell` | `Spec => SellOnlyNeverBuys` |

The four parts of `IInv` next to `TypeOK` are what `Route` takes for granted.
`WayIsFree`: a side that gets there has no position in its way or is a refused
flip. `StopOutKept`: as long as the cooldown runs, the code's memory of a stop-out equals
the history variables, both of which asking for the other side ends.
`MayRoute`: the side at the router does not have to wait, since `manage_position`
has asked `can_enter` for it in the same cycle. `NoBuying`: the sell-only filter
has acted on the side, and no later stage sets another. `DeferralsNeverOpen` needs
no invariant: the poll's own precondition refuses what it triggers. It is what the code
does, against a document (section 5), and no run has it as a property.

`StopsProofs`, for every finite set of price gains and of targets, and every
distance of the stop (`StopsAssumption`):

| theorem | statement |
|---|---|
| `LevelsAgree` | `Spec => []IInv` |
| `TypeCorrect` | `Spec => []TypeOK` |
| `EveryPartIsBookedOnce` | `Spec => []FractionsAddUp` |
| `BrokerKeepsUp` | `Spec => []BrokerIsNotLooser` |
| `NothingLoosens` | `Spec => StopNeverLoosens` |
| `WinnersKeep` | `Spec => LockedWinnersKeep` |

* `BrokerIsNotLooser` survives a restart because of `SnapshotIsLooser`: the stop
  that comes back from the disk is an earlier one of the same position, and by
  `StopNeverLoosens` an earlier stop is a looser one. It says nothing of a ticket that
  was inherited or adopted before the first request that moves it: such a stop may be
  looser in the code, and is in the model.
* `LockedWinnersKeep` needs the lock to be in the levels and not only in the
  engine: `LockIsSet` (a best gain at the lock has raised the stop to the entry) and
  `LockedIsEven` (so has what was saved as locked).
* `StopNeverLoosens` goes by `NextImproves`: each of the engines, for all that it
  may do to a position, leaves one whose stop, floor and memory only went up. Its
  parts are lemmas about `Tighter`, `AdaptiveStops`, `TrailingStops`, `PartialClose`,
  `FillTier`, `Evens` and `Protected`, one for each place in the code that moves a level.
  The breakeven stop counts as long as something is left of the position.
* `FractionsAddUp` rests on `NextTierFits`: by `PlanShares` and the agreement of plan
  and manager, the share of the next tier is at most what the manager believes to be
  left, so that no tier is marked as filled and then refused.

`WalWriterProofs`, for any finite set of threads, batch size, number of events,
faults and crashes (`WalAssumption`):

| theorem | statement |
|---|---|
| `LogInvariant` | `Spec => []IInv` |
| `TypeCorrect` | `Spec => []TypeOK` |
| `EveryEventHasOnePlace` | `Spec => []NothingDropped` |
| `AckedSurvives` | `Spec => []AckedIsOnDisk` |
| `NumbersNameOneEvent` | `Spec => []SoloNumbersNameOneEvent` |
| `Refinement` | `Spec => ImplementsEventLog` |

* `LinesArePlaced` is `NothingDropped` in terms of sets: every line numbered by this
  process is in the buffer, in one thread's batch, acknowledged or in a batch whose
  `mkdir` has raised, in one place of it, and nothing else is. The theorem turns that into the count of one.
* `AckedIsOnDisk` looks at the part of the file a crash cannot take. It takes
  `WrittenIsInFile` to know that at the moment of the `fsync` the batch is in the
  file, between other threads' pieces as it may be; `AckedIsSynced` keeps it.
* `SoloNumbersNameOneEvent` needs an order: while no two batches have overlapped
  and none has failed, at most one is on its way and the buffer continues it
  (`InSequence`), whole lines rise in the file (`FileIsAscending`), and whatever is
  still to be written is above them (`RestIsAbove`). So the last number that can be
  read, from which a new process goes on, is the highest one, and a torn line costs
  its number only.
* `Refinement` maps each action to one of `EventLog` or to none (`LogStep`): `Write`
  accepts, `AppendPieces` stores, `Sync` acknowledges, `DropBatch` loses, `CrashAndReopen` crashes,
  `Flush` and `FailAppend` change nothing that a caller could see. What makes this
  work is `HeldIs`: by `LinesArePlaced`, what waits in buffer and batches together is
  what has been numbered and neither acknowledged nor dropped, wherever it is. `FileIsPast` is the
  part of `IInv` that the refinement adds: no piece of the file is of a line with a
  number still to come, so that an accepted event is new to the file as well.
* A file is a sequence of pieces, and the number that is read back is that of its
  last whole line. That a nonempty finite set of positions has a last one
  (`HasMaximum`) comes from the well-foundedness of the strict subset order, as the
  library's inductions take an operator.

Every `IInv` above was also checked by TLC as an invariant on its module's run
before it was proved.

### What is only model-checked

Every invariant and every safety action property of the passing runs is a theorem.
Left to TLC are:

* liveness, since TLAPS has neither `ENABLED` nor fairness: `WarmHaltIsLifted`,
  `DrawdownHalts`, `HaltIsSaved`, `LostTicketsAreRetired`, `OrphansAreAdopted`,
  `CyclesAreSaved`, `TheLineIsFreed`, `LinkRecovers`, `DeferralsEnd` and
  `CleanAssetsGoGreen`;
* the four runs of section 5, which exhibit behaviours.

No theorem assumes anything but the named assumptions on constants.

## 5. What the code does otherwise

Four runs look for what the repository promises or excludes, and find it violated.

* `unchecked_cycle`: `engine.py:191` lists the circuit breakers among the phases
  of a cycle. `rank_and_allocate` (`orchestrator/admission/controller.py:140`)
  unpacks its pairs of score and signal the wrong way round and asks a float for
  its asset. Every signal that passes the filter so raises out of phase 1b, after
  the actors have traded and before anything has looked at the portfolio. Phases 2
  to 4 and the save are skipped, and the loop logs the exception.
* `mt5_once`: `ops/mt5_bridge.py:217` knows orders it has already placed. Nothing
  fills that table, and the client sends a request again whose reply was lost.
* `refused_flip`: `governance/conviction_gate.py:29` blocks flips of an uncertain
  model. `manage_position` only skips the close; the new side stays set, and the
  opposite position is opened over the one that is held.
* `halted_probe`: `README.md:461` and `orchestrator/actor.py:11` have halted actors
  probed with back-off. `_run_actor` (`engine.py:318`) skips a halted actor, so its probe
  never runs, and the scheduler of phase 3h reads two flags that nothing sets. Until
  a restart, or until the whole engine is halted and unhalted, the actor stays halted
  and its position unattended but for phase 3 (theorem `HaltedActorsIsolated`).

Met while reading or checking, and not run:

*Cycle.*
* Because of the exception above, the closes of a budget overrun (`engine.py:340`)
  are unreachable; `engine.py:443` would raise next, on an attribute that signals
  do not have. "No trade enters without PEK approval" in the controller's docstring
  is not so either: entries are made in phase 1a.
* The unhalt is decided on the marked equity taken before the cycle that tripped
  flattened the book (`engine.py:914`), the trip on realised value: the engine can
  be unhalted below its trip line and trip again, which the comment at
  `engine.py:54` wants to avoid.
* A loss streak is never ended by a gain: `record_daily_pnl` is called with
  losses only, so "consecutive losses" (`README.md:454`, `health.py:152`) are
  losing days within the look-back, whatever happened in between.

*Log.*
* `replay/wal.py:29` orders the events of a source by sequence; full batches are
  appended outside the lock (`:194`), in any order.
* `replay/wal.py:165` calls a flushed event durable. After a torn line the next
  event is appended to the torn bytes (`:206`) and is unreadable.

*Broker.*
* `LIVE_CONTRACT.md:570` has an order for every paper position. A flip looks at
  cached positions (`services/entry_service.py:692`), finds the ticket it has just
  closed, and opens without an order.
* `MT5Client.send_request` already unwraps `result`; `MT5Broker.close_position`
  and `modify_position` unwrap it again and so report every success as a failure,
  and `engine.py:1151` raises on it. Since nothing reads what a close reports,
  `BrokerSync` needs only the exception.
* A broker close that fails leaves a ticket that nothing in the program ever
  closes: the queue that would is not filled.
* A refused connection is an `OSError`, which the loop over the attempts does not
  catch, so the breaker never counts it. The recursion of a failing heartbeat is
  bounded by Python only. The bridge supervisor logs that it launches a bridge and
  launches none.

*Decisions.*
* Bar-jump suppression clears a side that `resolve_signal` sets two stages later
  and so has no effect (`README.md:472`, `LIVE_CONTRACT.md:529` say it has).
* A refused flip that opens does not set the cycle of the last flip, and the new
  position can inherit the old one's ticket (`services/entry_service.py:782`).
* Deferred entries never open: the entry that is triggered is still in the table
  by which `can_enter` refuses it. `LIVE_CONTRACT.md:290` has the poll "execute
  previously deferred pending orders". `DeferredEntriesDoNotOpen` proves that it never
  does; the run `decision` shows only that each of them is resolved.
* Asking `can_enter` for one side forgets the other side's stop-out. The cross-side
  cooldown of one cycle and the lock of the same cycle never block, as the counter
  is advanced first. `cooldown_half_life_hours` is never read.
* Target hits are recorded as stop-outs; the churn filter drops stop hits of
  adjusted entries and keeps their target hits.
* The poll passes a missing spread that the gate refuses.

*Levels.*
* A restart loses volatility at entry, floor, best price and the scale-out plan:
  trailing is off until the position closes, the effective stop may be looser than
  before (`eigencapital/domain/entities/position.py:80` says
  "Never moves backward"), and fractions can be
  realised twice. The properties of `Stops` except exactly that.
* Only the first position of a process has its target reconciled. The floor of the
  protection and partial closes are not sent to the broker. The breakeven floor of a
  short is never set. Exits are booked at the level even when the price has gapped
  through it, breakeven exits at zero even when the stop was higher.
* The profiles of the shipped convexities sum to exactly one, but nothing closes a
  position of which nothing is left: it stays in the book, without its breakeven stop
  (`position/manager.py:135`), until another level is hit. (Thirds would leave
  1.1e-16.) Partial closes never reach the broker.
* A ticket that is inherited or adopted (`services/entry_service.py:672`, `:787`,
  `engine.py:1270`) keeps the levels of the order it was sent with, possibly of the
  other side, until an engine moves a level of the new position.

*Halts.*
* A month of losses only has profit factor zero, which becomes none and halts
  nothing (`LIVE_CONTRACT.md:211`). Without a position, drought, liquidity, drift and
  profit-factor halts last until the process ends, and no longer, since the snapshot
  has nothing of the asset. `LIVE_CONTRACT.md:212` and
  `docs/PAPER_TRADING_RUNBOOK.md:431` have a drought cost 0.15 of the score only;
  `services/governance_service.py:108` halts the asset for it, and so that the signal
  that would end the drought is never asked for. `HaltsLatch` says what the code
  does.
* A model that was unstable at its training costs up to 0.25 of the score until it is
  trained again, so that an asset with nothing else against it can stay out of GREEN
  for ever (`CleanAssetsGoGreen` asks for a score above 0.70).
* The exposure that belongs to a validity state is never applied: the multiplier
  comes from the drawdown curve (`engine.py:306`), where
  `docs/GOVERNANCE_LAYER.md:87` takes it from the state.
* The lock counts updates, of which a cycle has two or more, and every reader of
  the state adds one. One failing condition alone can halt an asset and leave it
  GREEN.
* The daily settlement adds the signal's return to the position's, settles a frozen
  signal every day of a halt, and again on a day with a restart.

## 6. Not modelled, and why

* Inference, features, labels, training, backtests, research scripts: numerical
  and sequential. They are most of the repository's lines; a signal is a
  nondeterministic choice in every module.
* What admission would rank and allocate: unreachable, see above.
* The background writer: nothing enqueues to it. Its only call is a flush at the
  end of a cycle that waits for its timeout.
* The paper broker and order manager: no order is placed with them.
* Log replay: a fold over the log, run by hand. The SQLite tables and analytics
  files: records that nothing is restored from.
* The bridge supervisor (it watches and logs), alerting, shadow learning, dashboard
  and API: no state of the trading system depends on them. Readers of the state do
  advance the validity machine, which is `Halts!GetState`.
* Rebalancing: every Monday's first complete cycle asks for it, and it has no
  effect. `services/engine_rebalance_service.py` passes `fetch_history` a period and
  an interval that it does not take (`ops/data_fetcher.py:283`), takes the
  `TypeError` of each asset for missing data, and skips. (If it did not,
  `set_capital_base` would add the gain or loss since the first base to the values
  once more every week, without their peaks.)
* Stacking: disabled in the shipped configuration.

## 7. The plan

Every component with interleavings, crashes or a memory of its own has a module, and
every safety property of the runs a theorem. What is left, in this order:

1. Tickets that come into being in a cycle after the one of their order (the
   `ExecuteLate` of `OrderFate`) in `BrokerSync`, with the orders a restart forgets.
2. The safety steps behind the liveness properties, which can be proved without
   fairness, as `CleanAssetsStayGreen` is: next, that a sweep's count of misses of a lost
   ticket and the life of a pending deferral only go one way.
