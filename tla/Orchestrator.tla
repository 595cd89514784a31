---------------------------- MODULE Orchestrator ----------------------------
(***************************************************************************)
(* The trading cycle of paper_trading/orchestrator/engine.py together with *)
(* the actors it supervises (orchestrator/actor.py), the portfolio breaker *)
(* (orchestrator/health.py) and the monitor loop that runs it and saves    *)
(* its snapshot (ops/monitor.py, services/engine_state_service.py).        *)
(*                                                                         *)
(* One cycle of the monitor loop walks through the values of phase:        *)
(*                                                                         *)
(*   boot -> save -> ready -> (pre) -> signal -> portfolio -> save -> ...  *)
(*                                                                         *)
(* Money is counted in whole units, a drawdown is compared in percent, and *)
(* 0 stands for a peak or a previous value that is still None.             *)
(***************************************************************************)
EXTENDS Integers, FiniteSets, Functions

CONSTANTS Actors,        \* the assets, one actor each
          MaxFailures,   \* consecutive failures that halt an actor (3)
          MaxLosses,     \* losing days that trip the breaker (7)
          UnhaltCycles,  \* recovered cycles before a halt is lifted (10)
          DrawdownLimit, \* percent, trips and flattens (15)
          BreakerLimit,  \* percent, the breaker's own drawdown trip (25)
          UnhaltLimit,   \* percent, recovered above this (5)
          InitialValue,  \* capital of an asset
          Values,        \* bound: what an asset can be worth
          Marks,         \* bound: profit or loss of one position in a cycle
          MaxRestarts,   \* bound: crashes in a behaviour
          MaxRefusals    \* bound: cycles in a row that leave no snapshot of a halt

ASSUME ActorsAssumption == IsFiniteSet(Actors) /\ Actors # {}
ASSUME CountsAssumption ==
  /\ MaxFailures \in Nat \ {0} /\ MaxLosses \in Nat \ {0}
  /\ UnhaltCycles \in Nat \ {0} /\ MaxRestarts \in Nat
  /\ MaxRefusals \in Nat
ASSUME LimitsAssumption ==
  /\ DrawdownLimit \in 1..100 /\ BreakerLimit \in DrawdownLimit..100
  /\ UnhaltLimit \in 0..DrawdownLimit
ASSUME MoneyAssumption ==
  /\ Values \subseteq Nat \ {0} /\ InitialValue \in Values
  /\ Marks \subseteq Int /\ 0 \in Marks

VARIABLES
  phase,       \* where the monitor loop is
  health,      \* AssetActor.health
  failures,    \* metrics.consecutive_failures
  value,       \* current_value: realised money of each asset
  open,        \* the assets whose pos_mgr has a position
  mark,        \* profit or loss of each position at the current price
  priced,      \* the assets whose current_price is usable
  exposed,     \* exposure_multiplier is above zero
  result,      \* what each actor has returned in this cycle
  cycleEquity, \* _cycle_total_equity, marked to market in the pre-phase
  elapsed,     \* _cycles_elapsed, up to 2
  peak,        \* _peak_portfolio_value
  prev,        \* _prev_portfolio_value
  breakerPeak, \* CircuitBreaker._peak_value
  losses,      \* length of CircuitBreaker._daily_pnl_history
  lossToday,   \* _last_pnl_date is today
  halt,        \* _emergency_halt
  reason,      \* _halt_reason
  recovery,    \* _unhalt_recovery_cycles
  disk,        \* the last snapshot written
  refused,     \* history: saves in a row the disk refused or a raise skipped
  restarts     \* crashes so far, to bound them

actorVars == <<health, failures, result>>
bookVars == <<value, open, mark, priced>>
breakerVars == <<peak, prev, breakerPeak, losses, lossToday>>
haltVars == <<halt, reason, recovery>>
cycleVars == <<cycleEquity, elapsed, exposed>>
diskVars == <<disk, refused>>
vars == <<phase, actorVars, bookVars, breakerVars, haltVars, cycleVars, diskVars,
          restarts>>

-----------------------------------------------------------------------------
Phases == {"boot", "save", "ready", "pre", "signal", "portfolio"}
Healths == {"GREEN", "DEGRADED", "HALTED"}
Results == {"pending", "ok", "failed"}
HaltReasons == {"drawdown", "halt_ratio", "vol_spike", "consecutive_losses"}
Reasons == HaltReasons \union {"none"}

\* HALT_REASON_AUTO_UNHALT_ALLOWED
AutoUnhaltAllowed == {"drawdown", "consecutive_losses"}

\* What a portfolio can be worth; 0 is "not known yet".
Totals == {0} \union {SumFunction(f) : f \in [Actors -> Values]}

Larger(a, b) == IF a >= b THEN a ELSE b

\* drawdown of v from p is limit percent or worse; never with an unknown peak.
Breached(v, p, limit) == p > 0 /\ 100 * v <= (100 - limit) * p

Total == SumFunction(value)

\* AssetPnlController.mtm_value
MtmOf(a) == IF a \in open /\ a \in priced /\ exposed THEN value[a] + mark[a]
                                                     ELSE value[a]
MtmTotal == SumFunction([a \in Actors |-> MtmOf(a)])

\* What closing a's position at the current price leaves in current_value; the
\* mutant books the profit or loss twice.
SettledTwice(a) == IF exposed THEN value[a] + 2 * mark[a] ELSE value[a]
Settled(a) == IF exposed THEN value[a] + mark[a] ELSE value[a]

HaltedActors == {a \in Actors : health[a] = "HALTED"}
HaltRatioBreached == 2 * Cardinality(HaltedActors) >= Cardinality(Actors)

\* current_dd >= DRAWDOWN_AUTO_UNHALT_THRESHOLD
Recovered == 100 * cycleEquity >= (100 - UnhaltLimit) * peak

TypeOK ==
  /\ phase \in Phases
  /\ health \in [Actors -> Healths] /\ failures \in [Actors -> 0..MaxFailures]
  /\ value \in [Actors -> Values] /\ open \subseteq Actors
  /\ mark \in [Actors -> Marks] /\ priced \subseteq Actors
  /\ \A a \in Actors : value[a] + mark[a] \in Values
  /\ exposed \in BOOLEAN /\ result \in [Actors -> Results]
  /\ {cycleEquity, peak, prev, breakerPeak} \subseteq Totals
  /\ elapsed \in 0..2 /\ lossToday \in BOOLEAN /\ losses \in 0..MaxLosses
  /\ halt \in BOOLEAN /\ reason \in Reasons /\ recovery \in 0..UnhaltCycles
  /\ disk \in [halt : BOOLEAN, reason : Reasons, peak : Totals,
               losses : 0..MaxLosses, open : SUBSET Actors,
               value : [Actors -> Values]]
  /\ refused \in 0..MaxRefusals /\ restarts \in 0..MaxRestarts

-----------------------------------------------------------------------------
(* Start and restart: PaperTradingEngine.__init__, restore_positions and     *)
(* EngineOrchestrator.__init__.  The peak and the loss history come back     *)
(* only together with a halt, and only the assets with an open position      *)
(* bring back what they were worth.                                          *)

NoSnapshot == [halt |-> FALSE, reason |-> "none", peak |-> 0, losses |-> 0,
               open |-> {}, value |-> [a \in Actors |-> InitialValue]]

Boot(snapshot) ==
  /\ phase' = "boot"
  /\ health' = [a \in Actors |-> "GREEN"] /\ failures' = [a \in Actors |-> 0]
  /\ result' = [a \in Actors |-> "pending"]
  /\ open' = snapshot.open /\ value' = snapshot.value
  /\ mark' = [a \in Actors |-> 0] /\ priced' = {} /\ exposed' = TRUE
  /\ cycleEquity' = 0 /\ elapsed' = 0 /\ recovery' = 0
  /\ prev' = 0 /\ lossToday' = FALSE
  /\ halt' = snapshot.halt /\ disk' = snapshot /\ refused' = 0
  /\ IF snapshot.halt
     THEN /\ reason' = snapshot.reason /\ losses' = snapshot.losses
          /\ peak' = snapshot.peak /\ breakerPeak' = snapshot.peak
     ELSE reason' = "none" /\ losses' = 0 /\ peak' = 0 /\ breakerPeak' = 0

Init ==
  /\ phase = "boot"
  /\ health = [a \in Actors |-> "GREEN"] /\ failures = [a \in Actors |-> 0]
  /\ result = [a \in Actors |-> "pending"]
  /\ open = {} /\ value = [a \in Actors |-> InitialValue]
  /\ mark = [a \in Actors |-> 0] /\ priced = {} /\ exposed = TRUE
  /\ cycleEquity = 0 /\ elapsed = 0 /\ recovery = 0
  /\ prev = 0 /\ lossToday = FALSE /\ losses = 0 /\ peak = 0 /\ breakerPeak = 0
  /\ halt = FALSE /\ reason = "none" /\ disk = NoSnapshot /\ refused = 0
  /\ restarts = 0

\* The process dies anywhere and is started again from the last snapshot.
Restart ==
  /\ restarts < MaxRestarts
  /\ restarts' = restarts + 1
  /\ Boot(disk)

\* What the snapshot keeps; the mutant leaves the halt out of it.
SnapshotOfTheBook ==
  [disk EXCEPT !.open = open,
               !.value = [a \in Actors |-> IF a \in open THEN value[a] ELSE InitialValue]]
Snapshot ==
  [halt |-> halt, reason |-> reason, peak |-> peak, losses |-> losses, open |-> open,
   value |-> [a \in Actors |-> IF a \in open THEN value[a] ELSE InitialValue]]

\* monitor.main saves before the first cycle and after every cycle that
\* returned; EngineStateService.save_state writes the file atomically.
SaveState ==
  /\ phase \in {"boot", "save"}
  /\ phase' = "ready"
  /\ disk' = Snapshot /\ refused' = 0
  /\ UNCHANGED <<actorVars, bookVars, breakerVars, haltVars, cycleVars,
                 restarts>>

\* The disk refuses the snapshot, and the loop logs it and goes on.  Before the
\* first cycle that ends the process: Restart.
SaveFails ==
  /\ phase = "save" /\ refused < MaxRefusals
  /\ phase' = "ready" /\ refused' = refused + 1
  /\ UNCHANGED <<actorVars, bookVars, breakerVars, haltVars, cycleVars, disk,
                 restarts>>

\* Midnight passes between two cycles; only phase 3c looks at the date, so a
\* midnight inside a cycle is the same as one before it.
NextDay ==
  /\ phase = "ready" /\ lossToday
  /\ lossToday' = FALSE
  /\ UNCHANGED <<phase, actorVars, bookVars, peak, prev, breakerPeak, losses,
                 haltVars, cycleVars, diskVars, restarts>>

-----------------------------------------------------------------------------
(* run_once on a halted engine: _check_auto_unhalt_eligibility.              *)

\* AssetActor.reset on every actor.
ResetActors ==
  /\ health' = [a \in Actors |-> "GREEN"]
  /\ failures' = [a \in Actors |-> 0]

CanCount == reason \in AutoUnhaltAllowed /\ elapsed >= 1 /\ peak > 0

\* _unhalt_recovery_cycles after this cycle's look; the mutant assigns where
\* the code adds.
RecoverySetToOne == IF ~CanCount THEN recovery ELSE IF Recovered THEN 1 ELSE 0
NextRecovery == IF ~CanCount THEN recovery ELSE IF Recovered THEN recovery + 1 ELSE 0

Lifts == CanCount /\ Recovered /\ NextRecovery >= UnhaltCycles

\* The halt persists for another cycle.
HaltedCycle ==
  /\ phase = "ready" /\ halt /\ ~Lifts
  /\ recovery' = NextRecovery
  /\ phase' = "save"
  /\ UNCHANGED <<actorVars, bookVars, breakerVars, halt, reason, cycleVars, diskVars,
                 restarts>>

\* What lifting a halt clears; the mutant forgets the counter.
ClearHaltOnly == halt' = FALSE /\ reason' = "none" /\ recovery' = NextRecovery
ClearHalt == halt' = FALSE /\ reason' = "none" /\ recovery' = 0

\* The halt is lifted and the same call goes on with a full cycle.
AutoUnhalt ==
  /\ phase = "ready" /\ halt /\ Lifts
  /\ ClearHalt /\ ResetActors /\ exposed' = TRUE
  /\ phase' = "pre"
  /\ UNCHANGED <<result, bookVars, breakerVars, cycleEquity, elapsed, diskVars, restarts>>

\* reset_emergency_halt, called between two cycles after a manual review.
ManualReset ==
  /\ phase = "ready" /\ halt
  /\ ClearHalt /\ ResetActors
  /\ UNCHANGED <<phase, result, bookVars, breakerVars, cycleVars, diskVars, restarts>>

-----------------------------------------------------------------------------
(* A full cycle: _pre_phase_pek, phases 1a, 1b and 3.                        *)

\* run_once asks for the halt first; the mutant does not.
MayStartUnasked == phase \in {"pre", "ready"}
MayStart == phase = "pre" \/ (phase = "ready" /\ ~halt)

PrePhase ==
  /\ MayStart
  /\ cycleEquity' = MtmTotal
  /\ elapsed' = IF elapsed < 2 THEN elapsed + 1 ELSE 2
  /\ exposed' = ~Breached(MtmTotal, peak, DrawdownLimit)
  /\ result' = [a \in Actors |-> "pending"]
  /\ phase' = "signal"
  /\ UNCHANGED <<health, failures, bookVars, breakerVars, haltVars, diskVars, restarts>>

\* What refresh_price, update_pnl and generate_signal may leave behind for a:
\* a usable price or none (p), a realised value v, a position or none (o) and
\* its profit or loss at the new price (m).  Nothing is realised while the
\* exposure multiplier is zero, and an asset without a price cannot trade.
Worked(a, p, v, o, m) ==
  /\ v # value[a] => exposed /\ v - value[a] \in Marks
  /\ ~p => o = (a \in open)
  /\ IF o /\ p THEN v + m \in Values ELSE m = 0
  /\ priced' = IF p THEN priced \union {a} ELSE priced \ {a}
  /\ open' = IF o THEN open \union {a} ELSE open \ {a}
  /\ value' = [value EXCEPT ![a] = v] /\ mark' = [mark EXCEPT ![a] = m]

\* _run_actor calls the actors that are not halted.
Called(a) == health[a] # "HALTED"

\* AssetActor.run_cycle on a pool thread; an exception keeps the work done
\* before it.
ActorCycle(a) ==
  /\ phase = "signal" /\ result[a] = "pending" /\ Called(a)
  /\ \E p \in BOOLEAN, v \in Values, o \in BOOLEAN, m \in Marks : Worked(a, p, v, o, m)
  /\ \/ /\ result' = [result EXCEPT ![a] = "ok"]
        /\ health' = [health EXCEPT ![a] = "GREEN"]
        /\ failures' = [failures EXCEPT ![a] = 0]
     \/ /\ result' = [result EXCEPT ![a] = "failed"]
        /\ failures' = [failures EXCEPT ![a] = @ + 1]
        /\ health' = [health EXCEPT ![a] = IF failures'[a] >= MaxFailures
                                           THEN "HALTED" ELSE "DEGRADED"]
  /\ UNCHANGED <<phase, breakerVars, haltVars, cycleVars, diskVars, restarts>>

SkipHalted(a) ==
  /\ phase = "signal" /\ result[a] = "pending" /\ ~Called(a)
  /\ result' = [result EXCEPT ![a] = "failed"]
  /\ UNCHANGED <<phase, health, failures, bookVars, breakerVars, haltVars,
                 cycleVars, diskVars, restarts>>

\* The positions in S are closed at the current price.
ClosePositions(S) ==
  /\ open' = open \ S
  /\ value' = [a \in Actors |-> IF a \in S THEN Settled(a) ELSE value[a]]
  /\ mark' = [a \in Actors |-> IF a \in S THEN 0 ELSE mark[a]]
  /\ priced' = priced

\* as_completed over the futures; the mutant waits for a success from each.
AllSucceeded == \A a \in Actors : result[a] = "ok"
AllReturned == \A a \in Actors : result[a] # "pending"

\* Phase 1b, once every future is done.  When its filter lets no signal pass it
\* only reports.  Phase 2 changes nothing kept here.
AdmissionReview ==
  /\ phase = "signal" /\ AllReturned
  /\ result' = [a \in Actors |-> "pending"]
  /\ phase' = "portfolio"
  /\ UNCHANGED <<health, failures, bookVars, breakerVars, haltVars, cycleVars, diskVars,
                 restarts>>

\* A signal that passes makes rank_and_allocate read the name of an asset off a
\* score, which raises: phases 2 to 4 and the save are skipped.  None passes in
\* the first cycle of a process, when no asset has had a confidence yet.
AdmissionRaises ==
  /\ phase = "signal" /\ AllReturned
  /\ elapsed >= 2 /\ \E a \in Actors : result[a] = "ok"
  /\ result' = [a \in Actors |-> "pending"]
  /\ phase' = "ready"
  /\ UNCHANGED <<health, failures, bookVars, breakerVars, haltVars, cycleVars, diskVars,
                 restarts>>

-----------------------------------------------------------------------------
(* Phase 3, on realised values: 3a drawdown, 3b halt ratio, 3c the breaker,  *)
(* each returning early.  Then 3g, the reconciliation with the broker, may   *)
(* close positions, of halted actors too, and may raise, and then the        *)
(* monitor loop skips its save; the rest of phases 3 and 4 touches nothing   *)
(* kept here.                                                                *)

NewPeak == Larger(peak, Total)
NewBreakerPeak == Larger(breakerPeak, Total)
LossRecorded == prev > 0 /\ Total < prev /\ ~lossToday

\* The daily history holds losses only, so its length is the streak.  It is
\* capped where it trips, which the code's look-back of 30 days allows.
NewLosses == IF LossRecorded /\ losses < MaxLosses THEN losses + 1 ELSE losses

\* CircuitBreaker.check, in its order; nobody passes it a volatility.  The
\* mutant trips one loss early.
EarlyVerdict ==
  CASE Breached(Total, NewBreakerPeak, BreakerLimit) -> "drawdown"
    [] HaltRatioBreached -> "halt_ratio"
    [] NewLosses + 1 >= MaxLosses -> "losses"
    [] OTHER -> "ok"
BreakerVerdict ==
  CASE Breached(Total, NewBreakerPeak, BreakerLimit) -> "drawdown"
    [] HaltRatioBreached -> "halt_ratio"
    [] NewLosses >= MaxLosses -> "losses"
    [] OTHER -> "ok"

\* Every trip returns to the loop, which saves; the mutant skips the save.
TripUnsaved(r) == halt' = TRUE /\ reason' = r /\ phase' = "ready"
Trip(r) == halt' = TRUE /\ reason' = r /\ phase' = "save"

\* flatten_positions skips a position without a price and goes on after a
\* close that raises one of the four exceptions it expects; any other one of
\* a close leaves run_once: TripDrawdownRaises, TripBreakerRaises.
FlattenPositions == \E S \in SUBSET (open \intersect priced) : ClosePositions(S)

TripDrawdown ==
  /\ phase = "portfolio" /\ Breached(Total, NewPeak, DrawdownLimit)
  /\ FlattenPositions
  /\ exposed' = FALSE
  /\ Trip("drawdown") /\ peak' = NewPeak
  /\ UNCHANGED <<actorVars, prev, breakerPeak, losses, lossToday, recovery,
                 cycleEquity, elapsed, diskVars, restarts>>

\* The exception comes before the halt of 3a is set: the next cycle tries again.
TripDrawdownRaises ==
  /\ phase = "portfolio" /\ Breached(Total, NewPeak, DrawdownLimit)
  /\ open \intersect priced # {} /\ FlattenPositions
  /\ peak' = NewPeak /\ phase' = "ready"
  /\ UNCHANGED <<actorVars, prev, breakerPeak, losses, lossToday, haltVars,
                 cycleVars, diskVars, restarts>>

TripHaltRatio ==
  /\ phase = "portfolio" /\ ~Breached(Total, NewPeak, DrawdownLimit)
  /\ HaltRatioBreached
  /\ Trip("halt_ratio") /\ peak' = NewPeak
  /\ UNCHANGED <<actorVars, bookVars, prev, breakerPeak, losses, lossToday,
                 recovery, cycleVars, diskVars, restarts>>

BreakerChecked ==
  /\ phase = "portfolio" /\ ~Breached(Total, NewPeak, DrawdownLimit)
  /\ ~HaltRatioBreached
  /\ peak' = NewPeak /\ breakerPeak' = NewBreakerPeak
  /\ prev' = Total /\ losses' = NewLosses
  /\ lossToday' = (lossToday \/ LossRecorded)

TripBreaker ==
  /\ BreakerChecked /\ BreakerVerdict # "ok"
  /\ Trip("consecutive_losses")
  /\ FlattenPositions
  /\ UNCHANGED <<actorVars, recovery, cycleVars, diskVars, restarts>>

\* The exception comes after the halt of 3c is set: it stands, and the loop does
\* not save it in this cycle.
TripBreakerRaises ==
  /\ BreakerChecked /\ BreakerVerdict # "ok" /\ refused < MaxRefusals
  /\ halt' = TRUE /\ reason' = "consecutive_losses" /\ phase' = "ready"
  /\ open \intersect priced # {} /\ FlattenPositions
  /\ refused' = refused + 1
  /\ UNCHANGED <<actorVars, recovery, cycleVars, disk, restarts>>

\* _reconcile_mt5_orphans closes the positions whose ticket the broker has
\* lost: any of them here, the choice is the broker's.
CompleteCycle ==
  /\ BreakerChecked /\ BreakerVerdict = "ok"
  /\ \E S \in SUBSET (open \intersect priced) : ClosePositions(S)
  /\ phase' \in {"save", "ready"}
  /\ UNCHANGED <<actorVars, haltVars, cycleVars, diskVars, restarts>>

-----------------------------------------------------------------------------
CycleStep ==
  \/ SaveState \/ HaltedCycle \/ AutoUnhalt \/ PrePhase
  \/ \E a \in Actors : ActorCycle(a) \/ SkipHalted(a)
  \/ AdmissionReview \/ AdmissionRaises \/ CompleteCycle
  \/ TripDrawdown \/ TripDrawdownRaises \/ TripHaltRatio
  \/ TripBreaker \/ TripBreakerRaises

Next == CycleStep \/ SaveFails \/ NextDay \/ ManualReset \/ Restart

Spec == Init /\ [][Next]_vars

\* The monitor loop never stops, the pool runs every actor it was given, at
\* night the session gate lets no signal of any asset pass the review, and not
\* every attempt to flatten the book raises what it does not expect.
FairSpec == /\ Spec /\ WF_vars(CycleStep)
            /\ SF_vars(AdmissionReview) /\ SF_vars(TripDrawdown)

-----------------------------------------------------------------------------
(* What the orchestrator promises.                                           *)

Switch == INSTANCE EmergencyHalt
            WITH mode <- IF halt THEN "halted" ELSE "running",
                 saved <- IF disk.halt THEN "halted" ELSE "running",
                 trading <- phase \in {"signal", "portfolio"}

\* The cycle implements the emergency halt of EmergencyHalt: a halted engine
\* does not trade, no step trips it outside a cycle or lifts the halt inside
\* one, and a restart resumes what was last saved, not what is being saved.
ImplementsEmergencyHalt == Switch!Spec

\* No part of a cycle that can open, move or review a position runs while the
\* emergency halt is set: run_once returns at its top.
HaltStopsTheCycle == halt => phase \in {"boot", "save", "ready"}

\* At the top of the monitor loop a halt is on disk with everything a restart
\* needs to resume it: its reason, the peak it is measured from, the loss
\* history, and the book as flattened; unless the disk has just refused the
\* snapshot or the trip has raised, and then the next cycle that returns saves it.
HaltIsDurable ==
  phase = "ready" /\ halt /\ refused = 0 =>
    /\ disk.halt /\ disk.reason = reason
    /\ disk.peak = peak /\ disk.losses = losses /\ disk.open = open

\* The recovery counter counts only while an eligible halt is standing, and
\* only above the threshold: a count never outlives its halt, and a restart
\* or a halt-ratio trip never inherits one.
RecoveryIsEarned == recovery > 0 => halt /\ CanCount /\ Recovered

\* The breaker's own peak never runs ahead of the orchestrator's, so its 25%
\* drawdown and halt-ratio trips are always pre-empted by phases 3a and 3b,
\* and a halt it causes is a loss streak, as the recorded reason says.
BreakerIsShadowed ==
  /\ breakerPeak <= peak
  /\ halt /\ reason = "consecutive_losses" => losses >= MaxLosses

\* While a halt stands, and no crash intervenes, nothing that decides whether
\* it may be lifted changes: the verdict was fixed by the marked equity of the
\* cycle that tripped.
HaltFreezesTheBook ==
  [][halt /\ halt' /\ restarts' = restarts
       => UNCHANGED <<value, open, cycleEquity, peak, losses>>]_vars

\* Health and the failure counter never disagree: an actor is halted exactly
\* when it has used up its consecutive failures, through resets and restarts.
HealthTracksFailures ==
  \A a \in Actors : health[a] = "HALTED" <=> failures[a] >= MaxFailures

\* A halted actor comes back only with a restart or a lifted emergency halt,
\* and its position, now without stops, is touched only by phase 3, a trip that
\* flattens the book or the reconciliation with the broker.  The README (line
\* 461) has halted actors probed and recovered: HaltedActorsAreProbed.
HaltedActorsAreIsolated ==
  [][\A a \in HaltedActors : restarts' = restarts =>
       /\ health'[a] # "HALTED" => halt /\ ~halt'
       /\ value'[a] # value[a] \/ (a \in open' <=> a \notin open)
            => phase = "portfolio"]_vars

\* The high-water mark a drawdown is measured from is given up only by a
\* restart, and not by one that finds the engine halted at the top of the
\* monitor loop with its snapshot on the disk: an outage cannot turn a halt
\* into a smaller drawdown.
PeakIsKept ==
  [][peak' < peak => /\ restarts' # restarts
                     /\ ~(halt /\ phase = "ready" /\ refused = 0)]_vars

\* A drawdown past the limit does not go on unnoticed, however many cycles are
\* cut short before the circuit breakers are asked.
DrawdownHalts ==
  Breached(Total, peak, DrawdownLimit) ~> halt \/ ~Breached(Total, peak, DrawdownLimit)

\* A standing halt gets to the disk: each of its idle cycles tries again what
\* the disk has refused.
HaltIsSaved == halt ~> ~halt \/ disk.halt

\* Once a standing halt has been counted as recovered for one cycle it is
\* lifted without anyone's help, unless a restart has made it cold.
WarmHaltIsLifted == recovery > 0 ~> ~halt \/ elapsed = 0

-----------------------------------------------------------------------------
(* What a document says of it, and it does not do.                           *)

\* README.md:461 and actor.py:11 have halted actors probed with a growing delay
\* and taken back.  _run_actor never calls a halted actor, so _maybe_probe_recovery
\* of run_cycle is not reached, and phase 3h asks for two flags nothing sets.
HaltedActorsAreProbed ==
  \A a \in Actors : health[a] = "HALTED" ~> health[a] # "HALTED" \/ halt

\* engine.py:191 names the portfolio's health and circuit breakers as the phase
\* of every cycle that follows its signals.
EveryCycleIsChecked ==
  [][phase = "signal" /\ phase' # "signal" /\ restarts' = restarts
       => phase' = "portfolio"]_vars

=============================================================================
