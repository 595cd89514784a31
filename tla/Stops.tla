------------------------------- MODULE Stops -------------------------------
(***************************************************************************)
(* The levels of one asset's position from its entry to its exit:          *)
(* AssetPnlController with the adaptive exit, the trailing stop, the       *)
(* post-entry adjustment and the scale-out plan, PositionProtection, the   *)
(* copy at the broker and the snapshot.                                    *)
(*                                                                         *)
(* Levels are gains: distances from the entry in the position's favour, in *)
(* halves of the volatility at entry, whatever its side.  Only where the   *)
(* code treats shorts otherwise does the side matter.                      *)
(*                                                                         *)
(* Fractions of the position and multiples of the target are in tenths.    *)
(* The tier specs are those of the shipped convexities, all of which are   *)
(* sums that are exact in floating point: 1 - .5 - .3 - .2 is zero.        *)
(***************************************************************************)
EXTENDS Integers, Sequences, FiniteSetsExt

CONSTANTS Gains,   \* gains a price can bring
          Targets, \* take profits compute_take_profit can find
          Risk,    \* distance of the first stop
          None     \* no position, no levels

ASSUME StopsAssumption ==
  /\ Gains \subseteq Int /\ Targets \subseteq Nat \ {0} /\ Targets # {}
  /\ IsFiniteSet(Gains) /\ IsFiniteSet(Targets) /\ Risk \in Nat \ {0}

VARIABLES
  config,     \* which of adaptive_exit, dynamic_sltp and scale_out are enabled
  pc,         \* the part of update_pnl or of the pipeline the cycle is at
  open,       \* pos_mgr.has_position()
  p,          \* the position and what its engines remember of it
  gain,       \* current_price
  reconciled, \* _tp_reconciled, which no entry resets
  broker,     \* the levels of the ticket at the broker: stop and take profit, or none
  unsynced,   \* history: they were not the last ones sent for this position
  disk,       \* the position of the last snapshot, or none
  fresh,      \* history: the position, or its ticket, is newer than that
  booked,     \* history: the fraction of the position that has been realised
  restarted   \* history: the position has been restored from a snapshot

marketVars == <<config, gain>>
brokerVars == <<broker, unsynced>>
diskVars == <<disk, fresh, restarted>>
vars == <<pc, open, p, marketVars, reconciled, brokerVars, diskVars, booked>>

-----------------------------------------------------------------------------
Whole == 10

\* _generate_scale_out_profile: a fraction at each multiple of the target.
NoPlan == << >>
FrontLoaded == <<[share |-> 5, at |-> 5], [share |-> 3, at |-> 8], [share |-> 2, at |-> 10]>>
BackLoaded == <<[share |-> 2, at |-> 5], [share |-> 3, at |-> 10], [share |-> 5, at |-> 15]>>
Plans == {FrontLoaded, BackLoaded}

\* Below every stop: a floor, or a peak, that has not been set.
Unset == -Risk - 1

\* be_lock_r and breakeven_threshold_r are 0.5, trail_activation_r is 0.8,
\* trail_activate_r is 1, trail_distance_r is 0.5.
LockAt == 1
TrailAt == 2
FloorDistance == 1

Sides == {"long", "short"}
Configs == [adaptive : BOOLEAN, dynamic : BOOLEAN, scaled : BOOLEAN]
Positions ==
  [side : Sides, stop : Int, tp : Nat \ {0}, armed : BOOLEAN, best : Nat, peak : Int,
   floor : Int, floored : BOOLEAN, plan : Plans \union {NoPlan}, filled : 0..3,
   target : Nat \ {0}, left : 0..Whole, evened : BOOLEAN, locked : BOOLEAN]
Snapshots == [side : Sides, stop : Int, tp : Nat \ {0}, locked : BOOLEAN]

\* A stop lies between the first one and a gain that the price has had, a take
\* profit between the entry and what was found for it.
Between(q) ==
  /\ -Risk <= q.stop /\ \E g \in Gains \union {0} : q.stop <= g
  /\ \E tp \in Targets : q.tp <= tp

\* No engine puts the stop beyond the best gain it has seen, where the next price of the
\* same size would be an exit.
Behind(q) == q.armed => q.stop <= q.best

TypeOK ==
  /\ config \in Configs /\ gain \in Gains \union {0}
  /\ pc \in {"tick", "tiers", "check", "adjust", "trail", "manage", "save"}
  /\ p \in Positions /\ p.best \in Gains \union {0} /\ Between(p) /\ Behind(p)
  /\ disk \in Snapshots \union {None} /\ (disk # None => Between(disk))
  /\ broker \in [stop : Int, tp : Int] \union {None}
  /\ open \in BOOLEAN /\ reconciled \in BOOLEAN /\ unsynced \in BOOLEAN
  /\ fresh \in BOOLEAN /\ restarted \in BOOLEAN /\ booked \in Nat

\* The position of an entry: _record_position_state.
Entered(side, tp, plan) ==
  [side |-> side, stop |-> -Risk, tp |-> tp,
   armed |-> TRUE,               \* _entry_vol is known
   best |-> 0,                   \* the best price of the engine that trails
   peak |-> Unset, floor |-> Unset, floored |-> FALSE, \* PositionProtection
   plan |-> plan, filled |-> 0, target |-> tp, left |-> Whole, evened |-> FALSE,
   locked |-> FALSE]             \* history: saved with a gain that locks it

\* What p is when nothing is open.
NoPosition == [Entered("long", CHOOSE tp \in Targets : TRUE, NoPlan) EXCEPT !.left = 0]

\* The position of a snapshot, as a new process restores it.
RestoredInitial(d) == [Entered(d.side, d.tp, NoPlan) EXCEPT !.armed = FALSE, !.locked = d.locked]

Restored(d) ==
  [Entered(d.side, d.tp, NoPlan) EXCEPT !.stop = d.stop, !.armed = FALSE, !.locked = d.locked]

Init ==
  /\ config \in Configs
  /\ pc = "tick" /\ open = FALSE /\ gain = 0 /\ p = NoPosition
  /\ reconciled = FALSE /\ broker = None /\ unsynced = FALSE /\ disk = None
  /\ fresh = FALSE /\ booked = Whole /\ restarted = FALSE

-----------------------------------------------------------------------------
Levels(q) == [stop |-> q.stop, tp |-> q.tp]

\* _sync_broker_sltp: a failure is logged and left.
SyncTarget(q) == IF broker # None THEN broker' = [broker EXCEPT !.tp = q.tp] /\ UNCHANGED unsynced
                 ELSE UNCHANGED brokerVars

Sync(q) ==
  \/ broker # None /\ broker' = Levels(q) /\ unsynced' = FALSE
  \/ broker # None /\ UNCHANGED broker /\ unsynced' = TRUE
  \/ broker = None /\ UNCHANGED brokerVars

\* An update of the position's levels and of the broker's, where there is one.
Adjusts(q) ==
  /\ p' = q
  /\ IF Levels(q) # Levels(p) THEN Sync(q) ELSE UNCHANGED brokerVars

\* A price comes in; _reconcile_position_tp recomputes the take profit of the
\* first position of the process.
Reconciles == config.dynamic /\ ~reconciled

Tick ==
  /\ pc = "tick" /\ open /\ pc' = "tiers"
  /\ gain' \in Gains
  /\ IF Reconciles
     THEN reconciled' = TRUE /\ \E tp \in Targets : Adjusts([p EXCEPT !.tp = tp])
     ELSE UNCHANGED <<reconciled, p, brokerVars>>
  /\ UNCHANGED <<config, open, diskVars, booked>>

\* check_tiers goes through the tiers in their order, and the price that hits one has
\* hit those before it.
Due(q) == q.filled < Len(q.plan) /\ 10 * gain >= q.plan[q.filled + 1].at * q.target

PartialCloseUnmarked(share) ==
  LET closed == IF share <= p.left THEN share ELSE 0
  IN  p' = [p EXCEPT !.left = @ - closed] /\ booked' = booked + closed

\* partial_close: a tier that is marked as filled is closed unless it is more than what
\* the manager believes to be left.
PartialClose(share) ==
  LET closed == IF share <= p.left THEN share ELSE 0
  IN  p' = [p EXCEPT !.filled = @ + 1, !.left = @ - closed] /\ booked' = booked + closed

FillTier ==
  /\ pc = "tiers" /\ Due(p)
  /\ PartialClose(p.plan[p.filled + 1].share)
  /\ UNCHANGED <<pc, open, marketVars, reconciled, brokerVars, diskVars>>

\* The first call that fills a tier moves the rest to breakeven, unless there is none.
Evens(q) == q.evened \/ (q.filled > 0 /\ q.left > 0)

ScaledOut ==
  /\ pc = "tiers" /\ ~Due(p) /\ pc' = "check"
  /\ p' = [p EXCEPT !.evened = Evens(p)]
  /\ UNCHANGED <<open, marketVars, reconciled, brokerVars, diskVars, booked>>

\* check_sl_tp: the breakeven stop of the scale-out, while anything is left, the
\* effective stop, the take profit.  A level that is hit is the price of the exit.
EffectiveStop(q) == Max({q.stop, q.floor})
Even(q) == q.evened /\ q.left > 0

Hit(level) ==
  LET evens == Even(p) /\ gain <= 0
      stops == gain <= EffectiveStop(p)
  IN  \/ evens /\ level = 0
      \/ ~evens /\ stops /\ level = EffectiveStop(p)
      \/ ~evens /\ ~stops /\ gain >= p.tp /\ level = p.tp

Close == /\ open' = FALSE /\ booked' = booked + p.left /\ p' = NoPosition
         /\ broker' = None /\ unsynced' = FALSE

Exits == {EffectiveStop(p), p.tp, 0}

Exit ==
  /\ pc = "check" /\ pc' = "manage"
  /\ \E level \in Exits : Hit(level)
  /\ Close
  /\ UNCHANGED <<marketVars, reconciled, diskVars>>

\* One trailing system a cycle, and the post-entry adjustment before the adaptive
\* exit or after the trailing stop.
Stay ==
  /\ pc = "check" /\ \A level \in Exits : ~Hit(level)
  /\ pc' = IF config.adaptive THEN "adjust" ELSE "trail"
  /\ UNCHANGED <<open, p, marketVars, reconciled, brokerVars, diskVars, booked>>

\* _propose_tighter_sl takes a part of the distance to the entry away, and leaves a
\* stop beyond the entry, where that would widen it.
SpikeStop == IF p.stop < -1 THEN p.stop + 1 ELSE p.stop

\* post_entry_adjust: a volatility spike tightens the stop; otherwise a last close
\* (of the bars: not current_price) that has gone most of the way brings the take
\* profit nearer, if the reward stays worth the risk.
MayNudge == p.tp > 1 /\ 2 * (p.tp - 1) >= 3 * (IF p.stop < 0 THEN -p.stop ELSE p.stop)

Adjust ==
  /\ pc = "adjust" /\ pc' = IF config.adaptive THEN "trail" ELSE "manage"
  /\ \/ config.dynamic /\ p.armed /\ Adjusts([p EXCEPT !.stop = SpikeStop])
     \/ config.dynamic /\ p.armed /\ MayNudge /\ Adjusts([p EXCEPT !.tp = @ - 1])
     \/ UNCHANGED <<p, brokerVars>>
  /\ UNCHANGED <<open, marketVars, reconciled, diskVars, booked>>

Best == Max({p.best, gain})
Latest(level) == level

Tighter(level) == IF level > p.stop THEN level ELSE p.stop

\* AdaptiveExitEngine.compute: the lock at breakeven; else half of the best gain,
\* or more of it towards the maximal holding time, which only counts when the
\* post-entry adjustment runs.
Retrace(best) == best \div 2
DecayBeyond(best) == (4 * best) \div 3
Decay(best) == (2 * best) \div 3
AdaptiveStops ==
  IF Best >= LockAt /\ p.stop < 0 THEN {0}
  ELSE IF Best < TrailAt THEN {p.stop}
  ELSE {Tighter(Retrace(Best))}
       \union (IF config.dynamic /\ Retrace(Best) <= p.stop THEN {Tighter(Decay(Best))} ELSE {})

\* compute_trailing_stop: some distance behind the best price, once that is one and
\* a half times the initial risk away.
TrailingStops ==
  IF 2 * Best >= 3 * Risk THEN {Tighter(Best - distance) : distance \in 0..Risk} ELSE {p.stop}

Trail ==
  /\ pc = "trail" /\ pc' = IF config.adaptive THEN "manage" ELSE "adjust"
  /\ IF p.armed /\ (config.adaptive \/ config.dynamic)
     THEN \E stop \in (IF config.adaptive THEN AdaptiveStops ELSE TrailingStops) :
            Adjusts([p EXCEPT !.stop = stop, !.best = Best])
     ELSE UNCHANGED <<p, brokerVars>>
  /\ UNCHANGED <<open, marketVars, reconciled, diskVars, booked>>

-----------------------------------------------------------------------------
\* PositionProtection.update, at the beginning of manage_position: a floor at the
\* entry, which for a short is the floor of zero that means none, and one behind
\* the price at its peak.
Breakeven(q) == IF gain >= LockAt /\ ~q.floored
                THEN [q EXCEPT !.floored = TRUE,
                               !.floor = IF q.side = "long" THEN Max({@, 0}) ELSE @]
                ELSE q
Protected(q) ==
  LET b == Breakeven([q EXCEPT !.peak = Max({@, gain})])
  IN  IF gain >= TrailAt /\ gain = b.peak
      THEN [b EXCEPT !.floor = Max({@, gain - FloorDistance})] ELSE b

\* The rest of the cycle holds the position or closes it at the market, for a flip
\* or another of the pipeline's reasons.
Hold ==
  /\ pc = "manage" /\ pc' = "save" /\ p' = IF open THEN Protected(p) ELSE p
  /\ UNCHANGED <<open, marketVars, reconciled, brokerVars, diskVars, booked>>

MarketClose ==
  /\ pc = "manage" /\ open /\ pc' = "save" /\ Close
  /\ UNCHANGED <<marketVars, reconciled, diskVars>>

\* Levels of another order, however they compare with the position's.
ForeignLevels == [stop : {Unset}, tp : {1}]

\* A ticket whose order was sent for another position or another entry.
Foreign == broker' \in ForeignLevels /\ unsynced' = TRUE

\* _record_position_state.  An entry has an order of its own with its levels, or none.
\* A refused flip opens over a position that is held, whose rest is never realised: it
\* inherits that one's ticket, or, without one, adopts an orphan on the symbol.
Enter ==
  /\ \/ ~open /\ pc \in {"tick", "save"}
     \/ open /\ pc = "manage"
  /\ pc' = "save"
  /\ open' = TRUE /\ gain' = 0 /\ booked' = 0 /\ fresh' = TRUE /\ restarted' = FALSE
  /\ \E side \in Sides, tp \in Targets, plan \in IF config.scaled THEN Plans ELSE {NoPlan} :
       /\ open => side # p.side
       /\ p' = Entered(side, tp, plan)
  /\ \/ broker' = Levels(p') /\ unsynced' = FALSE
     \/ broker = None /\ broker' = None /\ unsynced' = FALSE
     \/ open /\ Foreign
  /\ UNCHANGED <<config, reconciled, disk>>

\* _reconcile_mt5_orphans: a position without a ticket is given that of an orphan on its
\* symbol, whose levels are logged and left as they are.
Adopt ==
  /\ pc = "save" /\ open /\ broker = None /\ Foreign /\ fresh' = TRUE
  /\ UNCHANGED <<pc, open, p, marketVars, reconciled, disk, restarted, booked>>

\* The snapshot keeps the levels, and neither the floor nor the engines' memory.
Locks(q) == q.locked \/ (q.armed /\ config.adaptive /\ q.best >= LockAt)

Save ==
  /\ pc = "save" /\ pc' = "tick" /\ fresh' = FALSE
  /\ p' = [p EXCEPT !.locked = Locks(p)]
  /\ disk' = IF open THEN [side |-> p.side, stop |-> p.stop, tp |-> p.tp, locked |-> Locks(p)]
             ELSE None
  /\ UNCHANGED <<open, marketVars, reconciled, brokerVars, restarted, booked>>

\* A phase of the engine's cycle has raised after the actors' part, or the snapshot
\* could not be written.
Unsaved ==
  /\ pc = "save" /\ pc' = "tick"
  /\ UNCHANGED <<open, p, marketVars, reconciled, brokerVars, diskVars, booked>>

\* The process ends anywhere; the next one finds the snapshot, whose ticket may be gone
\* or be that of an order with levels of another time.
Restart ==
  /\ pc' = "tick" /\ reconciled' = FALSE /\ fresh' = FALSE /\ gain' = 0
  /\ open' = (disk # None)
  /\ IF disk = None
     THEN p' = NoPosition /\ booked' = Whole
     ELSE p' = Restored(disk) /\ booked' = IF booked > Whole THEN Whole ELSE booked
  /\ restarted' = TRUE
  /\ IF disk # None /\ open /\ ~fresh THEN UNCHANGED brokerVars
     ELSE \/ broker' = None /\ unsynced' = FALSE
          \/ disk # None /\ Foreign
  /\ UNCHANGED <<config, disk>>

Next == \/ Tick \/ FillTier \/ ScaledOut \/ Exit \/ Stay \/ Adjust \/ Trail \/ Hold \/ MarketClose
        \/ Enter \/ Adopt \/ Save \/ Unsaved \/ Restart

Spec == Init /\ [][Next]_vars

-----------------------------------------------------------------------------
\* The loss or gain at which check_sl_tp lets the position go, whichever of the
\* stops is hit first.
Guarded(q) == Max({EffectiveStop(q)} \union (IF Even(q) THEN {0} ELSE {}))

\* Four parts of the code move stops of one position in one cycle: the adaptive
\* exit or the trailing stop, the adjustment after the entry, the scale-out plan and
\* the protection.  None takes back what another has secured, in the stop the broker
\* is sent or, as long as anything is left to secure, in all of them: with the last
\* tier the breakeven stop is no longer looked at (check_sl_tp).  Only a restart, which
\* forgets the floor and the plan, and the entry over a held position loosen them.
StopNeverLoosens ==
  [][open /\ open' => \/ /\ p'.stop >= p.stop
                         /\ p'.left > 0 => Guarded(p') >= Guarded(p)
                      \/ disk # None /\ p' = Restored(disk)
                      \/ \E side \in Sides, tp \in Targets, plan \in Plans \union {NoPlan} :
                           p' = Entered(side, tp, plan)]_vars

\* A position whose best gain has reached the lock under the adaptive exit is never
\* let go at a level below its entry, in this process or in one that has restored it
\* without the engine's memory (AdaptiveExitEngine.compute, _restore_saved_position).
LockedWinnersKeep ==
  [][pc = "check" /\ open /\ p.locked => \A level \in Exits : Hit(level) => level >= 0]_vars

\* Every part of a position is realised once: the tiers filled so far and what the exit
\* closes add up to the position, and the plan and the manager, which keep their own
\* accounts, agree about what is left, so that no tier is marked as filled and then
\* refused (check_tiers, partial_close).  A restart restores the whole of a position that
\* has been closed in part.
Unfilled(q) ==
  LET share(k) == IF k > q.filled THEN q.plan[k].share ELSE 0
  IN  share(1) + share(2) + share(3)

FractionsAddUp ==
  /\ ~restarted => booked + (IF open THEN p.left ELSE 0) = Whole
  /\ open /\ p.plan # NoPlan => p.left = Unfilled(p)

\* The stop at the broker protects as much as the one in memory, unless a request to
\* move it has failed since, or the ticket was adopted or inherited and nothing has been
\* sent to it since: a restored stop may be older than the broker's, and is never the
\* tighter one (_sync_broker_sltp after every update of the levels).
BrokerIsNotLooser == open /\ broker # None /\ ~unsynced => broker.stop >= p.stop

=============================================================================
