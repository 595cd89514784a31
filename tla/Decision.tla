------------------------------ MODULE Decision ------------------------------
(***************************************************************************)
(* One asset's cycle from the exits to the entries: update_pnl, then       *)
(* generate_signal with the stages of execution/decision_pipeline.py, then  *)
(* the entries deferred by entry_service.py, and the engine's save.  A     *)
(* position is its side here; its levels are the subject of Stops.         *)
(*                                                                         *)
(* Gates that only look at the market (risk-off, VIX, session, ADX,        *)
(* confidence, Kelly) may refuse or pass.  Suppression after a bar jump is *)
(* one of them in the documents and none in the code: it clears a side     *)
(* that resolve_signal sets two stages later, so it has no effect and no   *)
(* part here.                                                              *)
(***************************************************************************)
EXTENDS Integers, Sequences, FiniteSets

CONSTANTS MaxBars,       \* entry_defer_max_bars (5)
          MinFlip,       \* min_flip_interval_bars (3)
          CrossCooldown, \* stopout_cross_side_cooldown_cycles (1)
          Cooldown,      \* cycles until the score of a stop-out is below 0.05 (208)
          Observe        \* SPREAD_GATE_MIN_OBSERVE_CYCLES (720)

ASSUME DecisionAssumption ==
  /\ MaxBars \in Nat /\ MinFlip \in Nat
  /\ CrossCooldown \in Nat /\ Cooldown \in Nat \ {0} /\ CrossCooldown <= Cooldown
  /\ Observe \in Nat /\ Observe >= 2

VARIABLES
  pc,          \* the stage the cycle is at
  pos,         \* pos_mgr.current_side()
  saved,       \* the side in the last snapshot
  adjusted,    \* _regime_adjusted_entry
  sellOnly,    \* the asset is in SELL_ONLY_ASSETS
  cycle,       \* _cycle_counter, up to Observe
  spread,      \* what this cycle's refresh_spread has left
  newSide, seenSide, flipAllowed, \* DecisionContext
  chain,       \* _signal_chain
  pending,     \* bars_elapsed of each side's entry in _pending_entries
  stopSide,    \* _last_stop_out_side
  stopAge,     \* cycles since _last_stop_out_cycle, up to Cooldown
  flipAge,     \* cycles since _last_signal_flip_cycle, up to MinFlip
  lostSide,    \* history: the side that hit its stop, while no other position has
               \* hit a level since and the other side has not been asked for
  lostAge      \* history: cycles since, up to Cooldown

ctxVars == <<newSide, seenSide, flipAllowed, spread>>
coolVars == <<stopSide, stopAge, flipAge>>
lostVars == <<lostSide, lostAge>>
vars == <<pc, pos, saved, adjusted, cycle, ctxVars, chain, pending, coolVars, lostVars,
          sellOnly>>

-----------------------------------------------------------------------------
Sides == {"long", "short"}
None == "none"
Gone == -1
Spreads == {"ok", "wide", "missing"} \* a stale spread counts as a wide one

\* HYSTERESIS_WINDOW and HYSTERESIS_MIN_AGREE.
Window == 3
MinAgree == 2

Later(n, cap) == IF n < cap THEN n + 1 ELSE cap

TypeOK ==
  /\ pc \in {"pnl", "signal", "gates", "flip", "manage", "route", "poll", "save"}
  /\ pos \in Sides \union {None} /\ saved \in Sides \union {None}
  /\ newSide \in Sides \union {None} /\ seenSide \in Sides \union {None}
  /\ stopSide \in Sides \union {None} /\ lostSide \in Sides \union {None}
  /\ adjusted \in BOOLEAN /\ sellOnly \in BOOLEAN /\ flipAllowed \in BOOLEAN
  /\ cycle \in 0..Observe /\ spread \in Spreads
  /\ chain \in Seq(Sides) /\ Len(chain) <= Window
  /\ pending \in [Sides -> Gone..MaxBars]
  /\ stopAge \in 0..Cooldown /\ flipAge \in 0..MinFlip /\ lostAge \in 0..Cooldown
  /\ newSide # None => pc \in {"flip", "manage", "route"}

NoContext == /\ newSide' = None /\ seenSide' = None /\ flipAllowed' = TRUE
             /\ spread' = "missing"

Init ==
  /\ pc = "pnl" /\ pos = None /\ saved = None /\ adjusted = FALSE /\ sellOnly \in BOOLEAN
  /\ cycle = 0 /\ newSide = None /\ seenSide = None /\ flipAllowed = TRUE
  /\ spread = "missing" /\ chain = <<>> /\ pending = [s \in Sides |-> Gone]
  /\ stopSide = None /\ stopAge = Cooldown /\ flipAge = MinFlip
  /\ lostSide = None /\ lostAge = Cooldown

-----------------------------------------------------------------------------
\* The checks of can_enter.

\* cross_side_stopout_cooldown and same_cycle_stopout_lock.
Locked(s) == stopAge < CrossCooldown \/ (stopSide = s /\ stopAge < 1)

\* cooldown_penalty: positive for the side that was stopped out, whatever the
\* position's price has done since.
Cools(s) == stopSide = s

\* _cooldown_penalty for each of the sides asked: a score below 0.05 forgets the
\* stop-out, and so does the score of zero of the side that was not stopped out.
Ask(asked) ==
  /\ stopSide' = IF \E s \in asked : stopSide # s \/ stopAge >= Cooldown
                 THEN None ELSE stopSide
  /\ lostSide' = IF \E s \in asked : s # lostSide THEN None ELSE lostSide

Deferred(s) == pending[s] # Gone

MayEnter(s) == ~Locked(s) /\ ~Cools(s) /\ ~Deferred(s) /\ flipAge >= MinFlip

-----------------------------------------------------------------------------
\* update_pnl.  Whatever level ends a position counts as a stop-out, unless the
\* churn filter of a regime-adjusted entry finds the exit close to the stop.

\* Mutant: the position is closed before its stop-out is recorded.
RecordsNothing(hit) == FALSE

Records(hit) == ~(adjusted /\ hit = "sl")

Hit(hit) ==
  /\ pos # None /\ pos' = None
  /\ IF Records(hit) THEN stopSide' = pos /\ stopAge' = 0
                     ELSE UNCHANGED <<stopSide, stopAge>>
  /\ lostSide' = IF hit = "sl" /\ ~adjusted THEN pos ELSE None
  /\ lostAge' = 0

Exits ==
  /\ pc = "pnl" /\ pc' = "signal"
  /\ \/ (\E hit \in {"sl", "tp"} : Hit(hit)) /\ UNCHANGED flipAge
     \/ UNCHANGED <<pos, coolVars, lostVars>>
  /\ UNCHANGED <<saved, adjusted, cycle, ctxVars, chain, pending, sellOnly>>

\* generate_signal returns early for a halted asset; data or model may fail it.
NoDecision ==
  /\ pc = "signal" /\ pc' = "save"
  /\ UNCHANGED <<pos, saved, adjusted, cycle, ctxVars, chain, pending, coolVars,
                 lostVars, sellOnly>>

\* An exception in a later stage is caught by the actor only.
Raises ==
  /\ pc \in {"gates", "flip", "manage", "route", "poll"} /\ pc' = "save" /\ NoContext
  /\ UNCHANGED <<pos, saved, adjusted, cycle, chain, pending, coolVars, lostVars,
                 sellOnly>>

\* _apply_decision counts the cycle and builds the context; the first cycle after
\* a start decides nothing.
Decide ==
  /\ pc = "signal" /\ cycle' = Later(cycle, Observe)
  /\ stopAge' = Later(stopAge, Cooldown) /\ flipAge' = Later(flipAge, MinFlip)
  /\ lostAge' = Later(lostAge, Cooldown)
  /\ IF cycle' <= 1
     THEN pc' = "save" /\ UNCHANGED <<seenSide, spread>>
     ELSE pc' = "gates" /\ seenSide' = pos /\ spread' \in Spreads
  /\ UNCHANGED <<pos, saved, adjusted, newSide, flipAllowed, chain, pending, stopSide,
                 lostSide, sellOnly>>

\* apply_spread_gate: only observes at first, then fails closed.
SpreadBlocks == cycle >= Observe /\ spread # "ok"

\* Mutant: the sell-only filter acts on open positions only.
PassesBuys(s) == ~SpreadBlocks

Passes(s) == ~(sellOnly /\ s = "long") /\ ~SpreadBlocks

\* A position on a sell-only asset from before it was one is closed, if it can be.
Flattens == sellOnly /\ pos = "long"

\* resolve_signal and the gates up to the confidence gate.  Without a price to
\* close at, the sell-only filter goes on to the side.
Gates ==
  /\ pc = "gates" /\ pc' = "flip"
  /\ \/ Flattens /\ newSide' = None /\ pos' \in {None, pos}
     \/ newSide' \in {None} \union {s \in Sides : Passes(s)} /\ UNCHANGED pos
  /\ UNCHANGED <<saved, adjusted, cycle, seenSide, flipAllowed, spread, chain, pending,
                 coolVars, lostVars, sellOnly>>

\* Mutant: the chain is never cut to the window.
ChainedForEver(s) == Append(chain, s)

\* The chain after a signal, and whether enough of a full one agrees with it.
Chained(s) == IF Len(chain) = Window THEN Append(Tail(chain), s) ELSE Append(chain, s)
Agrees(s) == LET c == Chained(s) IN
  \/ Len(c) < Window
  \/ Cardinality({i \in DOMAIN c : c[i] = s}) >= MinAgree

\* apply_signal_hysteresis, evaluate_conviction_gate and apply_kelly_sizing.
FlipGates ==
  /\ pc = "flip" /\ pc' = "manage"
  /\ chain' = IF newSide = None THEN chain ELSE Chained(newSide)
  /\ LET flips == newSide # None /\ pos # None /\ newSide # seenSide
         passes == flips => Agrees(newSide)
     IN  /\ newSide' \in {None} \union (IF passes THEN {newSide} ELSE {})
         /\ flipAllowed' \in (IF flips /\ passes THEN BOOLEAN ELSE {TRUE})
  /\ UNCHANGED <<pos, saved, adjusted, cycle, seenSide, spread, pending, coolVars,
                 lostVars, sellOnly>>

\* manage_position.  A refused flip closes nothing, and leaves the new side set.
Closes == pos # None /\ flipAllowed

Hold == newSide' = None /\ UNCHANGED <<pos, flipAge>>

\* Mutant: the new side outlives a close that failed.
FlipFails == UNCHANGED <<pos, flipAge, newSide>>

FlipClose ==
  /\ pos' = None /\ flipAge' = 0 /\ UNCHANGED newSide

Manage ==
  /\ pc = "manage" /\ pc' = "route"
  /\ IF newSide = None \/ (pos # None /\ newSide = seenSide)
     THEN Hold /\ UNCHANGED <<stopSide, lostSide>>
     ELSE /\ IF Locked(newSide) THEN UNCHANGED <<stopSide, lostSide>> ELSE Ask({newSide})
          /\ \/ ~MayEnter(newSide) /\ Hold
             \/ MayEnter(newSide) /\ Closes /\ (Hold \/ FlipClose)
             \/ MayEnter(newSide) /\ ~Closes /\ UNCHANGED <<pos, flipAge, newSide>>
  /\ UNCHANGED <<saved, adjusted, cycle, seenSide, flipAllowed, spread, chain, pending,
                 stopAge, lostAge, sellOnly>>

\* open_position may stop at its price, reward or size checks, or at the broker.
Opens(s) == pos' = s /\ adjusted' \in BOOLEAN
Declines == UNCHANGED <<pos, adjusted>>

\* build_entry_artifacts and route_execution_policy.  Neither looks at the
\* position or at flip_allowed.
Route ==
  /\ pc = "route" /\ pc' = "poll"
  /\ \/ newSide # None /\ Opens(newSide) /\ UNCHANGED pending
     \/ newSide # None /\ pending' = [pending EXCEPT ![newSide] = 0] /\ Declines
     \/ Declines /\ UNCHANGED pending
  /\ newSide' = None
  /\ UNCHANGED <<saved, cycle, seenSide, flipAllowed, spread, chain, coolVars, lostVars,
                 sellOnly>>

\* poll_pending_entries: everything is cancelled by a wide or stale spread (a
\* missing one passes) or by the profit lock; otherwise each entry ages, and the
\* policy says what becomes of it.
PollCancels == spread = "wide"

\* Mutant: update is only called when the entry is created.
NeverAged(s) == pending[s]

Aged(s) == pending[s] + 1
Live == {s \in Sides : Deferred(s) /\ Aged(s) <= MaxBars /\ ~(sellOnly /\ s = "long")}

\* An entry that is triggered is asked about while it is still pending.
MayTrigger(s) == MayEnter(s)

PollEach ==
  \E asked \in SUBSET Live, waiting \in SUBSET Live :
    /\ asked \intersect waiting = {}
    /\ pending' = [s \in Sides |-> IF s \in waiting THEN Aged(s) ELSE Gone]
    /\ Ask({s \in asked : ~Locked(s)})
    /\ \/ Declines
       \/ \E s \in asked : MayTrigger(s) /\ Opens(s)

PollCancel ==
  /\ PollCancels \/ pos # None
  /\ pending' = [s \in Sides |-> Gone] /\ Declines /\ UNCHANGED <<stopSide, lostSide>>

Poll ==
  /\ pc = "poll" /\ pc' = "save" /\ NoContext
  /\ \/ PollCancel
     \/ ~PollCancels /\ PollEach
  /\ UNCHANGED <<saved, cycle, chain, stopAge, flipAge, lostAge, sellOnly>>

\* The engine's save at the end of its cycle, unless its phase 1b has raised, as it
\* does after a signal that passes its filter.
Save ==
  /\ pc = "save" /\ pc' = "pnl" /\ saved' \in {pos, saved}
  /\ UNCHANGED <<pos, adjusted, cycle, ctxVars, chain, pending, coolVars, lostVars,
                 sellOnly>>

\* A new process has the position of the snapshot and nothing else; its list of
\* sell-only assets may be another one.
Restart ==
  /\ pc' = "pnl" /\ pos' = saved /\ adjusted' = FALSE /\ sellOnly' \in BOOLEAN
  /\ cycle' = 0 /\ NoContext /\ chain' = <<>> /\ pending' = [s \in Sides |-> Gone]
  /\ stopSide' = None /\ stopAge' = Cooldown /\ flipAge' = MinFlip
  /\ lostSide' = None /\ lostAge' = Cooldown
  /\ UNCHANGED saved

Next == \/ Exits \/ NoDecision \/ Raises \/ Decide \/ Gates \/ FlipGates \/ Manage
        \/ Route \/ Poll \/ Save \/ Restart

Spec == Init /\ [][Next]_vars

\* The monitor loop runs the cycles, and an asset neither stays halted nor raises
\* in every one of them.
Fairness ==
  /\ WF_vars(Exits \/ Save)
  /\ SF_vars(Decide) /\ SF_vars(Gates) /\ SF_vars(FlipGates) /\ SF_vars(Manage)
  /\ SF_vars(Route) /\ SF_vars(Poll)

FairSpec == Spec /\ Fairness

-----------------------------------------------------------------------------
\* A step within a cycle: a restart and the save lead to its beginning.
InCycle == pc' # "pnl"

Opened(s) == pos' = s /\ pos # s /\ InCycle

\* A position makes way for its opposite only by being closed first, which books
\* its result, unless the conviction gate has refused the flip: manage_position
\* then skips the close and route_execution_policy opens all the same.
OnlyRefusedFlipsReplace ==
  [][\A s \in Sides : Opened(s) /\ pos # None => pc = "route" /\ ~flipAllowed]_vars

\* poll_pending_entries never opens anything: the entry it triggers is still in
\* _pending_entries when can_enter looks there.  LIVE_CONTRACT.md:290 has it
\* execute the entries that were deferred: this is what the code does, not what
\* it should do, so no run asks for it.
DeferralsNeverOpen == [][pc = "poll" /\ InCycle => pos' = pos]_vars

\* After a stop-out its side is not entered again until the score has decayed,
\* unless the other side is asked for in the meantime: can_enter then stores the
\* other side's score of zero and forgets the stop-out.
SameSideWaits ==
  [][\A s \in Sides : Opened(s) /\ s = lostSide => lostAge >= Cooldown]_vars

\* A sell-only asset opens no long position, by signal or by deferral, whatever it
\* held when it became one.
SellOnlyNeverBuys == [][Opened("long") => ~sellOnly]_vars

\* A deferred entry is resolved: triggered, cancelled or expired.
DeferralsEnd == \A s \in Sides : Deferred(s) ~> ~Deferred(s)

\* Flips are blocked when the model is uncertain: what a refused flip leaves alone.
RefusedFlipsHold == [][pc = "route" /\ ~flipAllowed /\ InCycle => pos' = pos]_vars

=============================================================================
