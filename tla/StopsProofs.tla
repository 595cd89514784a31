---------------------------- MODULE StopsProofs ----------------------------
(***************************************************************************)
(* Theorems about Stops, for every set of gains, every set of targets and  *)
(* every distance of the first stop.                                       *)
(***************************************************************************)
EXTENDS Stops, FiniteSetTheorems, TLAPS

-----------------------------------------------------------------------------
(* The invariants.                                                           *)

\* Between the price and the end of its cycle, nothing but an exit closes.
InMarket == pc \in {"tiers", "check", "adjust", "trail"} => open

\* The snapshot's stop is an earlier one of the same position.
SnapshotIsLooser == disk # None /\ open /\ ~fresh => disk.stop <= p.stop

\* A best gain at the lock has taken the stop to the entry.
LockIsSet == p.armed /\ config.adaptive /\ p.best >= LockAt => p.stop >= 0

\* What was saved as locked is locked, in memory and in the snapshot.
LockedIsEven ==
  /\ p.locked => p.stop >= 0
  /\ disk # None /\ disk.locked => disk.stop >= 0

IInv == /\ TypeOK /\ InMarket /\ SnapshotIsLooser /\ LockIsSet /\ LockedIsEven
        /\ FractionsAddUp /\ BrokerIsNotLooser

-----------------------------------------------------------------------------
(* The operators.                                                            *)

\* The higher of two levels is one of them and below none.
LEMMA MaxOfTwo ==
  ASSUME NEW a \in Int, NEW b \in Int
  PROVE  Max({a, b}) \in {a, b} /\ Max({a, b}) >= a /\ Max({a, b}) >= b
<1>1. \E x \in {a, b} : \A y \in {a, b} : x >= y
  <2>1. CASE a >= b
    BY <2>1
  <2>2. CASE b >= a
    BY <2>2
  <2> QED BY <2>1, <2>2
<1>2. Max({a, b}) \in {a, b} /\ \A y \in {a, b} : Max({a, b}) >= y
  BY <1>1 DEF Max
<1> QED BY <1>2

\* A position as it leaves an entry, or a snapshot.
LEMMA EnteredTypes ==
  ASSUME NEW side \in Sides, NEW tp \in Targets, NEW plan \in Plans \union {NoPlan}
  PROVE  /\ Entered(side, tp, plan) \in Positions /\ Between(Entered(side, tp, plan))
         /\ Behind(Entered(side, tp, plan)) /\ Entered(side, tp, plan).best = 0
         /\ ~Entered(side, tp, plan).locked /\ Entered(side, tp, plan).left = Whole
         /\ Entered(side, tp, plan).plan = plan /\ Entered(side, tp, plan).filled = 0
<1> DEFINE P == Plans \union {NoPlan}
<1>0. plan \in P
  OBVIOUS
<1>1. Positions =
        [side : Sides, stop : Int, tp : Nat \ {0}, armed : BOOLEAN, best : Nat, peak : Int,
         floor : Int, floored : BOOLEAN, plan : P, filled : 0..3,
         target : Nat \ {0}, left : 0..Whole, evened : BOOLEAN, locked : BOOLEAN]
  BY DEF Positions
<1> HIDE DEF P
<1>2. Entered(side, tp, plan) \in Positions
  BY <1>0, <1>1, StopsAssumption DEF Entered, Unset, Whole
<1> QED BY <1>2, StopsAssumption DEF Entered, Between, Behind

LEMMA RestoredTypes ==
  ASSUME NEW d \in Snapshots, Between(d)
  PROVE  /\ Restored(d) \in Positions /\ Between(Restored(d)) /\ Behind(Restored(d))
         /\ Restored(d).best = 0 /\ Restored(d).left = Whole /\ ~Restored(d).armed
         /\ Restored(d).stop = d.stop /\ Restored(d).locked = d.locked
         /\ Restored(d).plan = NoPlan
<1> DEFINE e == Entered(d.side, d.tp, NoPlan)
<1>1. d.side \in Sides /\ d.stop \in Int /\ d.tp \in Nat \ {0} /\ d.locked \in BOOLEAN
  BY DEF Snapshots
<1> DEFINE P == Plans \union {NoPlan}
<1>a. Positions =
        [side : Sides, stop : Int, tp : Nat \ {0}, armed : BOOLEAN, best : Nat, peak : Int,
         floor : Int, floored : BOOLEAN, plan : P, filled : 0..3,
         target : Nat \ {0}, left : 0..Whole, evened : BOOLEAN, locked : BOOLEAN]
  BY DEF Positions
<1>b. NoPlan \in P
  OBVIOUS
<1> HIDE DEF P
<1>2. e \in Positions
  BY <1>1, <1>a, <1>b, StopsAssumption DEF Entered, Unset, Whole
<1>3. e.best = 0 /\ e.left = Whole /\ e.tp = d.tp /\ e.plan = NoPlan
  BY DEF Entered
<1>4. Restored(d) = [e EXCEPT !.stop = d.stop, !.armed = FALSE, !.locked = d.locked]
  BY DEF Restored
<1> HIDE DEF e
<1>5. Restored(d) \in Positions /\ Restored(d).stop = d.stop /\ Restored(d).tp = e.tp
      /\ Restored(d).armed = FALSE /\ Restored(d).locked = d.locked
      /\ Restored(d).best = e.best /\ Restored(d).left = e.left /\ Restored(d).plan = e.plan
  BY <1>1, <1>2, <1>4 DEF Positions
<1> QED BY <1>1, <1>3, <1>5 DEF Between, Behind

LEMMA NoPositionTypes ==
  /\ NoPosition \in Positions /\ Between(NoPosition) /\ Behind(NoPosition)
  /\ NoPosition.best = 0 /\ NoPosition.left = 0 /\ ~NoPosition.locked
<1> DEFINE e == Entered("long", CHOOSE tp \in Targets : TRUE, NoPlan)
<1>1. (CHOOSE tp \in Targets : TRUE) \in Targets
  BY StopsAssumption
<1>2. e \in Positions /\ Between(e) /\ Behind(e) /\ e.best = 0 /\ ~e.locked
  BY <1>1, EnteredTypes DEF Sides
<1>3. NoPosition = [e EXCEPT !.left = 0]
  BY DEF NoPosition
<1> HIDE DEF e
<1> QED BY <1>2, <1>3 DEF Positions, Between, Behind, Whole

\* The tiers of a plan close the whole position.
LEMMA PlanShares ==
  ASSUME NEW plan \in Plans
  PROVE  /\ Len(plan) = 3 /\ plan # NoPlan
         /\ plan[1].share \in 1..Whole /\ plan[2].share \in 1..Whole /\ plan[3].share \in 1..Whole
         /\ plan[1].share + plan[2].share + plan[3].share = Whole
BY DEF Plans, FrontLoaded, BackLoaded, NoPlan, Whole

\* The next tier of a plan is one that is not filled.
LEMMA DueTier ==
  ASSUME p \in Positions, Due(p)
  PROVE  /\ p.plan \in Plans /\ p.filled \in 0..2 /\ p.plan[p.filled + 1].share \in 1..Whole
<1>1. p.plan \in Plans \union {NoPlan} /\ p.filled \in 0..3
  BY DEF Positions
<1>2. p.plan # NoPlan
  <2>1. Len(NoPlan) = 0
    BY DEF NoPlan
  <2> QED BY <1>1, <2>1 DEF Due
<1>3. p.plan \in Plans /\ Len(p.plan) = 3
  BY <1>1, <1>2, PlanShares
<1>4. p.filled = 0 \/ p.filled = 1 \/ p.filled = 2
  BY <1>1, <1>3 DEF Due
<1> QED BY <1>3, <1>4, PlanShares

\* The best gain is one that the price has had, and never a worse one.
LEMMA BestTypes ==
  ASSUME TypeOK
  PROVE  Best \in Gains \union {0} /\ Best \in Nat /\ Best >= p.best
<1>1. p.best \in Nat /\ gain \in Int /\ p.best \in Int
  BY StopsAssumption DEF TypeOK, Positions
<1>2. Best \in {p.best, gain} /\ Best >= p.best
  BY <1>1, MaxOfTwo DEF Best
<1> QED BY <1>1, <1>2 DEF TypeOK

\* What each of the engines that move the stop may find: nothing below the stop it
\* has, and nothing above a gain that the price has had.
Raises(stop) == stop \in Int /\ stop >= p.stop /\ \E g \in Gains \union {0} : stop <= g

LEMMA SpikeRaises ==
  ASSUME TypeOK
  PROVE  Raises(SpikeStop) /\ (p.armed => SpikeStop <= p.best)
<1>1. p.stop \in Int /\ p.best \in Nat /\ Between(p) /\ Behind(p)
  BY DEF TypeOK, Positions
<1> QED BY <1>1 DEF Between, Behind, Raises, SpikeStop

LEMMA TighterRaises ==
  ASSUME TypeOK, NEW level \in Int, level <= Best
  PROVE  Raises(Tighter(level)) /\ (p.armed => Tighter(level) <= Best)
<1>1. p.stop \in Int /\ p.best \in Nat /\ Between(p) /\ Behind(p)
  BY DEF TypeOK, Positions
<1>2. Best \in Gains \union {0} /\ Best \in Int /\ Best >= p.best
  BY BestTypes
<1> QED BY <1>1, <1>2 DEF Raises, Tighter, Between, Behind

LEMMA AdaptiveRaises ==
  ASSUME TypeOK, NEW stop \in AdaptiveStops
  PROVE  Raises(stop) /\ (Best >= LockAt => stop >= 0) /\ (p.armed => stop <= Best)
<1>1. p.stop \in Int /\ Best \in Nat /\ Raises(p.stop) /\ (p.armed => p.stop <= Best)
  <2>1. p.stop \in Int /\ p.best \in Nat /\ Between(p) /\ Behind(p)
    BY DEF TypeOK, Positions
  <2> QED BY <2>1, BestTypes DEF Between, Behind, Raises
<1>2. CASE Best >= LockAt /\ p.stop < 0
  <2>1. stop = 0
    BY <1>2 DEF AdaptiveStops
  <2> QED BY <1>1, <1>2, <2>1 DEF Raises
<1>3. CASE ~(Best >= LockAt /\ p.stop < 0) /\ Best < TrailAt
  <2>1. stop = p.stop
    BY <1>3 DEF AdaptiveStops
  <2> QED BY <1>1, <1>3, <2>1
<1>4. CASE ~(Best >= LockAt /\ p.stop < 0) /\ ~(Best < TrailAt)
  <2>1. \A b \in Nat : b \div 2 \in Int /\ b \div 2 <= b
    OBVIOUS
  <2>2. \A b \in Nat : (2 * b) \div 3 \in Int /\ (2 * b) \div 3 <= b
    OBVIOUS
  <2>3. /\ Retrace(Best) \in Int /\ Retrace(Best) <= Best
        /\ Decay(Best) \in Int /\ Decay(Best) <= Best
    BY <1>1, <2>1, <2>2 DEF Retrace, Decay
  <2>4. stop \in {Tighter(Retrace(Best)), Tighter(Decay(Best))}
    BY <1>4 DEF AdaptiveStops
  <2>5. Raises(stop) /\ (p.armed => stop <= Best)
    BY <2>3, <2>4, TighterRaises
  <2> QED BY <1>1, <1>4, <2>5 DEF Raises
<1> QED BY <1>2, <1>3, <1>4

LEMMA TrailingRaises ==
  ASSUME TypeOK, NEW stop \in TrailingStops
  PROVE  Raises(stop) /\ (p.armed => stop <= Best)
<1>1. CASE 2 * Best >= 3 * Risk
  <2>1. PICK distance \in 0..Risk : stop = Tighter(Best - distance)
    BY <1>1 DEF TrailingStops
  <2>2. Best - distance \in Int /\ Best - distance <= Best
    BY BestTypes, StopsAssumption
  <2> QED BY <2>1, <2>2, TighterRaises
<1>2. CASE ~(2 * Best >= 3 * Risk)
  <2>1. p.stop \in Int /\ p.best \in Nat /\ Between(p) /\ Behind(p)
    BY DEF TypeOK, Positions
  <2>2. stop = p.stop
    BY <1>2 DEF TrailingStops
  <2> QED BY <2>1, <2>2, BestTypes DEF Between, Behind, Raises
<1> QED BY <1>1, <1>2

-----------------------------------------------------------------------------
(* What becomes of a position: no part of its protection is taken back.      *)

Improves(q) ==
  /\ q \in Positions /\ Between(q) /\ Behind(q) /\ q.best \in Gains \union {0}
  /\ q.stop >= p.stop /\ q.floor >= p.floor /\ (p.evened => q.evened)
  /\ q.armed = p.armed

LEMMA UnchangedImproves == TypeOK => Improves(p)
BY DEF TypeOK, Positions, Improves

LEMMA StopImproves ==
  ASSUME TypeOK, NEW stop, Raises(stop), NEW best \in {p.best, Best}, p.armed => stop <= best
  PROVE  Improves([p EXCEPT !.stop = stop, !.best = best])
<1> DEFINE q == [p EXCEPT !.stop = stop, !.best = best]
<1>1. /\ p \in Positions /\ Between(p) /\ p.stop \in Int /\ p.floor \in Int /\ stop \in Int
      /\ best \in Gains \union {0} /\ best \in Nat
  BY BestTypes DEF TypeOK, Raises, Positions
<1>2. -Risk <= stop
  BY <1>1, StopsAssumption DEF Between, Raises
<1>3. q \in Positions /\ q.stop = stop /\ q.best = best /\ q.tp = p.tp /\ q.floor = p.floor
      /\ q.evened = p.evened /\ q.armed = p.armed
  BY <1>1 DEF Positions
<1> HIDE DEF q
<1>4. Between(q) /\ Behind(q)
  BY <1>1, <1>2, <1>3 DEF Between, Behind, Raises
<1>5. Improves(q)
  BY <1>1, <1>3, <1>4 DEF Improves, Raises
<1> QED BY <1>5 DEF q

LEMMA TargetImproves ==
  ASSUME TypeOK, NEW tp \in Nat \ {0}, \E t \in Targets : tp <= t
  PROVE  Improves([p EXCEPT !.tp = tp])
BY DEF TypeOK, Positions, Between, Behind, Improves

\* A tier that is filled takes from what is left, and from nothing else.
LEMMA PartialCloseImproves ==
  ASSUME TypeOK, NEW share \in Nat, PartialClose(share), p.filled \in 0..2
  PROVE  /\ Improves(p') /\ p'.locked = p.locked /\ p'.best = p.best /\ p'.stop = p.stop
         /\ p'.plan = p.plan /\ p'.filled = p.filled + 1
         /\ p'.left = p.left - (IF share <= p.left THEN share ELSE 0)
         /\ booked' = booked + (IF share <= p.left THEN share ELSE 0)
<1> DEFINE l == p.left - (IF share <= p.left THEN share ELSE 0)  f == p.filled + 1
<1>0. p \in Positions /\ p.left \in 0..Whole /\ Between(p) /\ Behind(p)
      /\ p.best \in Gains \union {0}
  BY DEF TypeOK, Positions
<1>1. l \in 0..Whole /\ f \in 0..3
  BY <1>0 DEF Whole
<1>2. p' = [p EXCEPT !.left = l, !.filled = f]
  BY DEF PartialClose
<1>3. booked' = booked + (IF share <= p.left THEN share ELSE 0)
  BY DEF PartialClose
<1> HIDE DEF l, f
<1>4. p.stop \in Int /\ p.floor \in Int
  BY <1>0 DEF Positions
<1>5. /\ p'.left = l /\ p'.filled = f /\ p'.stop = p.stop /\ p'.best = p.best /\ p'.tp = p.tp
      /\ p'.floor = p.floor /\ p'.armed = p.armed /\ p'.locked = p.locked
      /\ p'.evened = p.evened /\ p'.plan = p.plan
  BY <1>0, <1>2 DEF Positions
<1>6. p' \in Positions
  BY <1>0, <1>1, <1>2 DEF Positions
<1>7. Improves(p')
  BY <1>0, <1>4, <1>5, <1>6 DEF Between, Behind, Improves
<1> QED BY <1>3, <1>5, <1>7 DEF l, f

LEMMA FillTierImproves ==
  ASSUME TypeOK, FillTier
  PROVE  /\ Improves(p') /\ p'.locked = p.locked /\ p'.best = p.best /\ p'.stop = p.stop
         /\ booked' \in Nat
<1>1. p \in Positions /\ Due(p) /\ p.left \in Nat /\ booked \in Nat
  BY DEF TypeOK, FillTier, Positions, Whole
<1>2. p.filled \in 0..2 /\ p.plan[p.filled + 1].share \in Nat
  BY <1>1, DueTier
<1>3. PartialClose(p.plan[p.filled + 1].share)
  BY DEF FillTier
<1> QED BY <1>1, <1>2, <1>3, PartialCloseImproves

LEMMA EvensImproves ==
  ASSUME TypeOK, ScaledOut
  PROVE  /\ Improves(p') /\ p'.locked = p.locked /\ p'.best = p.best /\ p'.stop = p.stop
         /\ p'.left = p.left /\ p'.plan = p.plan /\ p'.filled = p.filled
<1>1. Evens(p) \in BOOLEAN /\ (p.evened => Evens(p))
  BY DEF Evens, TypeOK, Positions
<1>2. p' = [p EXCEPT !.evened = Evens(p)]
  BY DEF ScaledOut
<1> QED BY <1>1, <1>2 DEF TypeOK, Positions, Between, Behind, Improves

LEMMA ProtectedImproves ==
  ASSUME TypeOK
  PROVE  /\ Improves(Protected(p)) /\ Protected(p).left = p.left /\ Protected(p).best = p.best
         /\ Protected(p).locked = p.locked /\ Protected(p).stop = p.stop
         /\ Protected(p).plan = p.plan /\ Protected(p).filled = p.filled
<1> DEFINE r == [p EXCEPT !.peak = Max({p.peak, gain})]  b == Breakeven(r)
           Same(q) == /\ q \in Positions /\ q.floor >= p.floor /\ q.stop = p.stop /\ q.tp = p.tp
                      /\ q.left = p.left /\ q.best = p.best /\ q.locked = p.locked
                      /\ q.armed = p.armed /\ q.evened = p.evened
                      /\ q.plan = p.plan /\ q.filled = p.filled
<1>1. p \in Positions /\ p.peak \in Int /\ p.floor \in Int /\ gain \in Int
  BY StopsAssumption DEF TypeOK, Positions
<1>2. Same(r)
  <2>1. Max({p.peak, gain}) \in Int
    BY <1>1, MaxOfTwo
  <2> QED BY <1>1, <2>1 DEF Positions
<1>3. Same(b)
  <2> HIDE DEF r
  <2>1. r.floor \in Int /\ r \in Positions
    BY <1>2 DEF Positions
  <2>2. Max({r.floor, 0}) \in Int /\ Max({r.floor, 0}) >= r.floor
    <3> DEFINE f == r.floor
    <3>1. f \in Int /\ 0 \in Int
      BY <2>1
    <3> HIDE DEF f
    <3>2. Max({f, 0}) \in {f, 0} /\ Max({f, 0}) >= f
      BY <3>1, MaxOfTwo
    <3>3. Max({f, 0}) \in Int
      BY <3>1, <3>2
    <3> QED BY <3>2, <3>3 DEF f
  <2>3. PICK f \in Int : f >= r.floor /\ b \in {r, [r EXCEPT !.floored = TRUE, !.floor = f]}
    <3>1. b = IF gain >= LockAt /\ ~r.floored
              THEN [r EXCEPT !.floored = TRUE,
                             !.floor = IF r.side = "long" THEN Max({r.floor, 0}) ELSE r.floor]
              ELSE r
      BY DEF Breakeven
    <3> HIDE DEF b
    <3>2. CASE gain >= LockAt /\ ~r.floored
      <4> DEFINE f == IF r.side = "long" THEN Max({r.floor, 0}) ELSE r.floor
      <4>1. f \in Int /\ f >= r.floor
        BY <2>1, <2>2
      <4>2. b = [r EXCEPT !.floored = TRUE, !.floor = f]
        BY <3>1, <3>2
      <4> HIDE DEF f
      <4> QED BY <4>1, <4>2
    <3>3. CASE ~(gain >= LockAt /\ ~r.floored)
      <4>1. b = r /\ r.floor \in Int /\ r.floor >= r.floor
        BY <2>1, <3>1, <3>3
      <4> QED BY <4>1
    <3> QED BY <3>2, <3>3
  <2> HIDE DEF b
  <2>4. r.floor \in Int /\ p.floor \in Int /\ r.floor >= p.floor
    BY <1>1, <1>2, <2>1
  <2>5. CASE b = r
    BY <1>2, <2>5
  <2>6. CASE b = [r EXCEPT !.floored = TRUE, !.floor = f]
    <3>1. b \in Positions /\ b.floor = f
      BY <2>1, <2>3, <2>6 DEF Positions
    <3>2. /\ b.stop = r.stop /\ b.tp = r.tp /\ b.left = r.left /\ b.best = r.best
          /\ b.locked = r.locked /\ b.armed = r.armed /\ b.evened = r.evened
          /\ b.plan = r.plan /\ b.filled = r.filled
      BY <2>1, <2>6 DEF Positions
    <3>3. b.floor >= p.floor
      BY <2>3, <2>4, <3>1
    <3> QED BY <1>2, <3>1, <3>2, <3>3
  <2> QED BY <2>3, <2>5, <2>6
<1>4. Same(Protected(p))
  <2> HIDE DEF r
  <2>1. Protected(p) = IF gain >= TrailAt /\ gain = b.peak
                       THEN [b EXCEPT !.floor = Max({b.floor, gain - FloorDistance})] ELSE b
    BY DEF Protected, r
  <2> HIDE DEF b
  <2>2. b.floor \in Int /\ b \in Positions /\ gain - FloorDistance \in Int
    BY <1>1, <1>3 DEF Positions, FloorDistance
  <2>3. /\ Max({b.floor, gain - FloorDistance}) \in Int
        /\ Max({b.floor, gain - FloorDistance}) >= b.floor
    BY <2>2, MaxOfTwo
  <2> QED BY <1>1, <1>3, <2>1, <2>2, <2>3 DEF Positions
<1> QED BY <1>1, <1>4 DEF TypeOK, Positions, Between, Behind, Improves

LEMMA LockingImproves ==
  ASSUME TypeOK
  PROVE  Improves([p EXCEPT !.locked = Locks(p)])
<1>1. Locks(p) \in BOOLEAN
  BY DEF Locks, TypeOK, Positions, Configs
<1> QED BY <1>1 DEF TypeOK, Positions, Between, Behind, Improves

\* A new set of levels, whatever the broker makes of it.
LEMMA AdjustsTypes ==
  ASSUME TypeOK, NEW q \in Positions, Adjusts(q)
  PROVE  p' = q /\ broker' \in [stop : Int, tp : Int] \union {None} /\ unsynced' \in BOOLEAN
<1>1. Levels(q) \in [stop : Int, tp : Int]
  BY DEF Positions, Levels
<1> QED BY <1>1 DEF TypeOK, Adjusts, Sync, brokerVars

LEMMA AdjustsBroker ==
  ASSUME TypeOK, BrokerIsNotLooser, open, NEW q \in Positions, Adjusts(q), q.stop >= p.stop
  PROVE  BrokerIsNotLooser'
<1>0. p' = q /\ p.stop \in Int /\ q.stop \in Int
  BY DEF Adjusts, TypeOK, Positions
<1>1. CASE Levels(q) # Levels(p) /\ broker' = Levels(q)
  <2>1. broker'.stop = q.stop
    BY <1>1 DEF Levels
  <2> QED BY <1>0, <2>1 DEF BrokerIsNotLooser
<1>2. CASE Levels(q) # Levels(p) /\ unsynced'
  BY <1>2 DEF BrokerIsNotLooser
<1>3. CASE Levels(q) # Levels(p) /\ UNCHANGED brokerVars /\ broker = None
  BY <1>3 DEF BrokerIsNotLooser, brokerVars
<1>4. CASE Levels(q) = Levels(p) /\ UNCHANGED brokerVars
  <2>1. q.stop = p.stop
    BY <1>4 DEF Levels
  <2> QED BY <1>0, <1>4, <2>1 DEF BrokerIsNotLooser, brokerVars
<1> QED BY <1>1, <1>2, <1>3, <1>4 DEF Adjusts, Sync

SameFills(q) == q.left = p.left /\ q.plan = p.plan /\ q.filled = p.filled

\* The three parts that send levels to the broker, and what they send.
LEMMA TickAdjusts ==
  ASSUME TypeOK, Tick
  PROVE  UNCHANGED <<p, brokerVars>> \/ \E tp \in Targets : Adjusts([p EXCEPT !.tp = tp])
BY DEF Tick

LEMMA AdjustAdjusts ==
  ASSUME TypeOK, Adjust
  PROVE  \/ UNCHANGED <<p, brokerVars>>
         \/ \E q : Improves(q) /\ SameFills(q) /\ q.locked = p.locked /\ q.best = p.best
                   /\ Adjusts(q)
<1>1. CASE Adjusts([p EXCEPT !.stop = SpikeStop])
  <2> DEFINE q == [p EXCEPT !.stop = SpikeStop]
  <2>1. p \in Positions
    BY DEF TypeOK
  <2>2. q = [p EXCEPT !.stop = SpikeStop, !.best = p.best]
    BY <2>1 DEF Positions
  <2>3. Improves([p EXCEPT !.stop = SpikeStop, !.best = p.best])
    BY SpikeRaises, StopImproves
  <2>4. SameFills(q) /\ q.locked = p.locked /\ q.best = p.best
    BY <2>1 DEF Positions, SameFills
  <2> QED BY <1>1, <2>2, <2>3, <2>4
<1>2. CASE MayNudge /\ Adjusts([p EXCEPT !.tp = @ - 1])
  <2>1. p.tp - 1 \in Nat \ {0} /\ \E t \in Targets : p.tp - 1 <= t
    BY <1>2, StopsAssumption DEF MayNudge, TypeOK, Positions, Between
  <2>2. Improves([p EXCEPT !.tp = p.tp - 1])
    BY <2>1, TargetImproves
  <2> QED BY <1>2, <2>2 DEF TypeOK, Positions, SameFills
<1> QED BY <1>1, <1>2 DEF Adjust

LEMMA TrailAdjusts ==
  ASSUME TypeOK, Trail
  PROVE  \/ UNCHANGED <<p, brokerVars>>
         \/ \E q : /\ Improves(q) /\ SameFills(q) /\ q.locked = p.locked /\ q.best = Best
                   /\ (config.adaptive /\ Best >= LockAt => q.stop >= 0)
                   /\ Adjusts(q)
<1> SUFFICES ASSUME ~UNCHANGED <<p, brokerVars>>
             PROVE  \E q : /\ Improves(q) /\ SameFills(q) /\ q.locked = p.locked /\ q.best = Best
                           /\ (config.adaptive /\ Best >= LockAt => q.stop >= 0)
                           /\ Adjusts(q)
  OBVIOUS
<1>1. PICK stop \in (IF config.adaptive THEN AdaptiveStops ELSE TrailingStops) :
        Adjusts([p EXCEPT !.stop = stop, !.best = Best])
  BY DEF Trail
<1> DEFINE q == [p EXCEPT !.stop = stop, !.best = Best]
<1>2. Raises(stop) /\ (config.adaptive /\ Best >= LockAt => stop >= 0)
      /\ (p.armed => stop <= Best)
  BY <1>1, AdaptiveRaises, TrailingRaises
<1>3. Improves(q)
  BY <1>2, StopImproves
<1>4. SameFills(q) /\ q.locked = p.locked /\ q.best = Best /\ q.stop = stop
  BY DEF TypeOK, Positions, SameFills
<1> QED BY <1>1, <1>2, <1>3, <1>4

\* Nothing but an entry and a restart makes a position worse that is kept.
LEMMA NextImproves ==
  ASSUME TypeOK, Next, ~Enter, ~Restart, ~Exit, ~MarketClose
  PROVE  Improves(p')
<1>1. CASE Tick
  <2>1. CASE UNCHANGED p
    BY <2>1, UnchangedImproves
  <2>2. ASSUME NEW tp \in Targets, Adjusts([p EXCEPT !.tp = tp]) PROVE Improves(p')
    <3>1. tp \in Nat \ {0} /\ \E t \in Targets : tp <= t
      BY StopsAssumption
    <3>2. Improves([p EXCEPT !.tp = tp])
      BY <3>1, TargetImproves
    <3> QED BY <2>2, <3>2 DEF Adjusts
  <2> QED BY <1>1, <2>1, <2>2, TickAdjusts
<1>2. CASE FillTier
  BY <1>2, FillTierImproves
<1>3. CASE ScaledOut
  BY <1>3, EvensImproves
<1>4. CASE Stay \/ Adopt \/ Unsaved
  BY <1>4, UnchangedImproves DEF Stay, Adopt, Unsaved
<1>5. CASE Adjust
  BY <1>5, AdjustAdjusts, UnchangedImproves DEF Adjusts
<1>6. CASE Trail
  BY <1>6, TrailAdjusts, UnchangedImproves DEF Adjusts
<1>7. CASE Hold
  BY <1>7, ProtectedImproves, UnchangedImproves DEF Hold
<1>8. CASE Save
  BY <1>8, LockingImproves DEF Save
<1> QED BY <1>1, <1>2, <1>3, <1>4, <1>5, <1>6, <1>7, <1>8 DEF Next

LEMMA InitIInv == Init => IInv
<1> SUFFICES ASSUME Init PROVE IInv
  OBVIOUS
<1>1. /\ NoPosition \in Positions /\ Between(NoPosition) /\ Behind(NoPosition)
      /\ NoPosition.best = 0 /\ NoPosition.left = 0 /\ ~NoPosition.locked
  BY NoPositionTypes
<1>2. TypeOK
  BY <1>1 DEF Init, TypeOK, Whole
<1> QED BY <1>1, <1>2 DEF Init, IInv, InMarket, SnapshotIsLooser, LockIsSet, LockedIsEven,
                        FractionsAddUp, BrokerIsNotLooser, LockAt, Whole

-----------------------------------------------------------------------------
(* The steps.                                                                *)

LEMMA ForeignTypes == Foreign => broker' \in [stop : Int, tp : Int] /\ unsynced'
BY StopsAssumption DEF Foreign, ForeignLevels, Unset

\* Who writes the broker's levels, and who the snapshot.
LEMMA BrokerTypes ==
  ASSUME TypeOK, [Next]_vars
  PROVE  broker' \in [stop : Int, tp : Int] \union {None} /\ unsynced' \in BOOLEAN
<1> USE DEF brokerVars
<1>0. broker \in [stop : Int, tp : Int] \union {None} /\ unsynced \in BOOLEAN
  BY DEF TypeOK
<1>1. CASE Tick
  <2>1. \A tp \in Targets : [p EXCEPT !.tp = tp] \in Positions
    BY StopsAssumption DEF TypeOK, Positions
  <2> QED BY <1>0, <1>1, <2>1, TickAdjusts, AdjustsTypes
<1>2. CASE Adjust
  BY <1>0, <1>2, AdjustAdjusts, AdjustsTypes DEF Improves
<1>3. CASE Trail
  BY <1>0, <1>3, TrailAdjusts, AdjustsTypes DEF Improves
<1>4. CASE Exit \/ MarketClose
  BY <1>4 DEF Exit, MarketClose, Close
<1>5. CASE Enter
  <2>1. Levels(p') \in [stop : Int, tp : Int]
    <3>1. PICK side \in Sides, tp \in Targets, plan \in Plans \union {NoPlan} :
            p' = Entered(side, tp, plan)
      BY <1>5 DEF Enter
    <3> QED BY <3>1, EnteredTypes DEF Levels, Positions
  <2> QED BY <1>5, <2>1, ForeignTypes DEF Enter
<1>6. CASE Restart \/ Adopt
  BY <1>0, <1>6, ForeignTypes DEF Restart, Adopt
<1>7. CASE FillTier \/ ScaledOut \/ Stay \/ Hold \/ Save \/ Unsaved \/ UNCHANGED vars
  BY <1>0, <1>7 DEF FillTier, ScaledOut, Stay, Hold, Save, Unsaved, vars
<1> QED BY <1>1, <1>2, <1>3, <1>4, <1>5, <1>6, <1>7 DEF Next

LEMMA DiskTypes ==
  ASSUME TypeOK, [Next]_vars
  PROVE  disk' \in Snapshots \union {None} /\ (disk' # None => Between(disk'))
<1>0. disk \in Snapshots \union {None} /\ (disk # None => Between(disk))
  BY DEF TypeOK
<1>1. CASE Save
  <2> DEFINE d == [side |-> p.side, stop |-> p.stop, tp |-> p.tp, locked |-> Locks(p)]
  <2>1. p \in Positions /\ Between(p) /\ Locks(p) \in BOOLEAN
    BY DEF TypeOK, Locks, Configs, Positions
  <2>2. d \in Snapshots /\ Between(d)
    BY <2>1 DEF Positions, Snapshots, Between
  <2>3. disk' = IF open THEN d ELSE None
    BY <1>1 DEF Save
  <2> HIDE DEF d
  <2> QED BY <2>2, <2>3
<1>2. CASE ~Save
  <2>1. disk' = disk
    BY <1>2 DEF Next, Tick, FillTier, ScaledOut, Exit, Stay, Adjust, Trail, Hold, MarketClose, Enter,
                Adopt, Unsaved, Restart, diskVars, vars
  <2> QED BY <1>0, <2>1
<1> QED BY <1>1, <1>2

LEMMA PositionTypes ==
  ASSUME TypeOK, [Next]_vars
  PROVE  p' \in Positions /\ p'.best \in Gains \union {0} /\ Between(p') /\ Behind(p')
<1>1. CASE Enter
  <2>1. PICK side \in Sides, tp \in Targets, plan \in Plans \union {NoPlan} :
          p' = Entered(side, tp, plan)
    BY <1>1 DEF Enter
  <2> QED BY <2>1, EnteredTypes
<1>2. CASE Restart \/ Exit \/ MarketClose
  BY <1>2, RestoredTypes, NoPositionTypes DEF Restart, Exit, MarketClose, Close, TypeOK
<1>3. CASE UNCHANGED vars
  BY <1>3 DEF vars, TypeOK
<1>4. CASE Next /\ ~Enter /\ ~Restart /\ ~Exit /\ ~MarketClose
  BY <1>4, NextImproves DEF Improves
<1> QED BY <1>1, <1>2, <1>3, <1>4

LEMMA NextTypeOK ==
  ASSUME TypeOK, [Next]_vars
  PROVE  TypeOK'
<1>1. booked' \in Nat
  <2>1. p.left \in Nat /\ booked \in Nat
    BY DEF TypeOK, Positions, Whole
  <2>2. CASE Exit \/ MarketClose
    BY <2>1, <2>2 DEF Exit, MarketClose, Close
  <2>3. CASE Enter \/ Restart
    BY <2>1, <2>3 DEF Enter, Restart, Whole
  <2>4. CASE Tick \/ ScaledOut \/ Stay \/ Adjust \/ Trail \/ Hold \/ Adopt \/ Save \/ Unsaved
             \/ UNCHANGED vars
    BY <2>1, <2>4 DEF Tick, ScaledOut, Stay, Adjust, Trail, Hold, Adopt, Save, Unsaved, vars
  <2>5. CASE FillTier
    BY <2>5, FillTierImproves
  <2> QED BY <2>2, <2>3, <2>4, <2>5 DEF Next
<1>2. config' = config /\ gain' \in Gains \union {0}
  BY DEF Next, Tick, FillTier, ScaledOut, Exit, Stay, Adjust, Trail, Hold, MarketClose, Enter,
         Adopt, Save, Unsaved, Restart, Close, marketVars, vars, TypeOK
<1>3. pc' \in {"tick", "tiers", "check", "adjust", "trail", "manage", "save"}
  BY DEF Next, Tick, FillTier, ScaledOut, Exit, Stay, Adjust, Trail, Hold, MarketClose, Enter,
         Adopt, Save, Unsaved, Restart, vars, TypeOK
<1>4. open' \in BOOLEAN /\ reconciled' \in BOOLEAN
  BY DEF Next, Tick, FillTier, ScaledOut, Exit, Stay, Adjust, Trail, Hold, MarketClose, Enter,
         Adopt, Save, Unsaved, Restart, Close, vars, TypeOK
<1>5. fresh' \in BOOLEAN /\ restarted' \in BOOLEAN
  BY DEF Next, Tick, FillTier, ScaledOut, Exit, Stay, Adjust, Trail, Hold, MarketClose, Enter,
         Adopt, Save, Unsaved, Restart, Close, diskVars, vars, TypeOK
<1> QED BY <1>1, <1>2, <1>3, <1>4, <1>5, BrokerTypes, DiskTypes, PositionTypes, Zenon DEF TypeOK

LEMMA NextInMarket ==
  ASSUME IInv, [Next]_vars
  PROVE  InMarket'
BY DEF IInv, InMarket, Next, Tick, FillTier, ScaledOut, Exit, Stay, Adjust, Trail, Hold, MarketClose,
       Enter, Adopt, Save, Unsaved, Restart, vars

LEMMA NextSnapshotIsLooser ==
  ASSUME IInv, [Next]_vars
  PROVE  SnapshotIsLooser'
<1> USE DEF diskVars
<1>0. TypeOK /\ SnapshotIsLooser /\ p.stop \in Int
  BY DEF IInv, TypeOK, Positions
<1>1. CASE Save
  <2>1. p'.stop = p.stop /\ open' = open
    BY <1>0, <1>1 DEF Save, TypeOK, Positions
  <2>2. disk' # None /\ open => disk'.stop = p.stop
    BY <1>1 DEF Save
  <2> QED BY <1>0, <2>1, <2>2 DEF SnapshotIsLooser
<1>2. CASE Restart
  <2> SUFFICES ASSUME disk # None PROVE disk'.stop <= p'.stop
    BY <1>2 DEF Restart, SnapshotIsLooser
  <2>1. disk \in Snapshots /\ Between(disk) /\ disk' = disk /\ p' = Restored(disk)
    BY <1>2 DEF Restart, IInv, TypeOK
  <2> QED BY <2>1, RestoredTypes DEF IInv, TypeOK, Snapshots
<1>3. CASE Enter \/ Adopt
  BY <1>3 DEF Enter, Adopt, SnapshotIsLooser
<1>4. CASE UNCHANGED vars
  BY <1>0, <1>4 DEF vars, SnapshotIsLooser
<1>5. CASE Exit \/ MarketClose
  BY <1>5 DEF Exit, MarketClose, Close, SnapshotIsLooser
<1>6. CASE Next /\ ~Save /\ ~Restart /\ ~Enter /\ ~Adopt /\ ~Exit /\ ~MarketClose
  <2>1. p'.stop >= p.stop /\ p'.stop \in Int
    BY <1>0, <1>6, NextImproves DEF Improves, Positions
  <2>2. disk' = disk /\ fresh' = fresh /\ open' = open
    BY <1>6 DEF Next, Tick, FillTier, ScaledOut, Stay, Adjust, Trail, Hold, Unsaved
  <2>3. disk # None => disk.stop \in Int
    BY <1>0 DEF TypeOK, Snapshots
  <2> QED BY <1>0, <2>1, <2>2, <2>3 DEF SnapshotIsLooser
<1> QED BY <1>1, <1>2, <1>3, <1>4, <1>5, <1>6

LEMMA NextLockIsSet ==
  ASSUME IInv, [Next]_vars
  PROVE  LockIsSet'
<1>0. TypeOK /\ LockIsSet /\ p.stop \in Int /\ p.best \in Nat
  BY DEF IInv, TypeOK, Positions
<1>1. CASE Trail
  <2>1. config' = config
    BY <1>1 DEF Trail, marketVars
  <2>2. CASE UNCHANGED p
    BY <1>0, <2>1, <2>2 DEF LockIsSet
  <2>3. CASE ~UNCHANGED p
    <3>1. PICK q : q.best = Best /\ (config.adaptive /\ Best >= LockAt => q.stop >= 0) /\ Adjusts(q)
      BY <1>0, <1>1, <2>3, TrailAdjusts
    <3>2. p' = q
      BY <3>1 DEF Adjusts
    <3> QED BY <2>1, <3>1, <3>2 DEF LockIsSet
  <2> QED BY <2>2, <2>3
<1>2. CASE Enter
  <2>1. PICK side \in Sides, tp \in Targets, plan \in Plans \union {NoPlan} :
          p' = Entered(side, tp, plan)
    BY <1>2 DEF Enter
  <2>2. p'.best = 0
    BY <2>1, EnteredTypes
  <2> QED BY <2>2 DEF LockIsSet, LockAt
<1>3. CASE Restart \/ Exit \/ MarketClose
  <2>1. p'.best = 0
    BY <1>0, <1>3, RestoredTypes, NoPositionTypes DEF Restart, Exit, MarketClose, Close, TypeOK
  <2> QED BY <2>1 DEF LockIsSet, LockAt
<1>4. CASE UNCHANGED vars
  BY <1>0, <1>4 DEF vars, marketVars, LockIsSet
<1>5. CASE Next /\ ~Trail /\ ~Enter /\ ~Restart /\ ~Exit /\ ~MarketClose
  <2>1. p'.stop >= p.stop /\ p'.armed = p.armed /\ p'.stop \in Int
    BY <1>0, <1>5, NextImproves DEF Improves, Positions
  <2>2. config' = config
    BY <1>5 DEF Next, Tick, FillTier, ScaledOut, Stay, Adjust, Hold, Adopt, Save, Unsaved,
                marketVars
  <2>3. p'.best = p.best
    <3>1. CASE Tick
      BY <1>0, <3>1, TickAdjusts DEF Adjusts, TypeOK, Positions
    <3>2. CASE Adjust
      BY <1>0, <3>2, AdjustAdjusts DEF Adjusts
    <3>3. CASE FillTier \/ ScaledOut
      BY <1>0, <3>3, FillTierImproves, EvensImproves
    <3>4. CASE Hold
      BY <1>0, <3>4, ProtectedImproves DEF Hold
    <3>5. CASE Save
      BY <1>0, <3>5 DEF Save, TypeOK, Positions
    <3>6. CASE Stay \/ Adopt \/ Unsaved
      BY <3>6 DEF Stay, Adopt, Unsaved
    <3> QED BY <1>5, <3>1, <3>2, <3>3, <3>4, <3>5, <3>6 DEF Next
  <2> QED BY <1>0, <2>1, <2>2, <2>3 DEF LockIsSet
<1> QED BY <1>1, <1>2, <1>3, <1>4, <1>5

LEMMA NextLockedIsEven ==
  ASSUME IInv, [Next]_vars
  PROVE  LockedIsEven'
<1>0. /\ TypeOK /\ LockedIsEven /\ LockIsSet
      /\ p.stop \in Int /\ p.best \in Nat /\ p \in Positions
  BY DEF IInv, TypeOK, Positions
<1>1. Locks(p) => p.stop >= 0
  BY <1>0 DEF Locks, LockedIsEven, LockIsSet
<1>2. CASE Save
  <2>1. p'.stop = p.stop /\ p'.locked = Locks(p)
    BY <1>0, <1>2 DEF Save, Positions
  <2>2. disk' # None => disk'.stop = p.stop /\ disk'.locked = Locks(p)
    BY <1>2 DEF Save
  <2> QED BY <1>1, <2>1, <2>2 DEF LockedIsEven
<1>3. CASE Restart
  <2>1. disk' = disk
    BY <1>3 DEF Restart
  <2>2. CASE disk = None
    BY <1>0, <1>3, <2>1, <2>2, NoPositionTypes DEF Restart, TypeOK, LockedIsEven
  <2>3. CASE disk # None
    <3>1. p' = Restored(disk) /\ disk \in Snapshots /\ Between(disk)
      BY <1>0, <1>3, <2>3 DEF Restart, TypeOK
    <3>2. p'.stop = disk.stop /\ p'.locked = disk.locked
      BY <1>0, <3>1, RestoredTypes DEF TypeOK
    <3> QED BY <1>0, <2>1, <2>3, <3>2 DEF LockedIsEven
  <2> QED BY <2>2, <2>3
<1>4. CASE Enter \/ Exit \/ MarketClose
  <2>1. ~p'.locked
    <3>1. CASE Enter
      <4>1. PICK side \in Sides, tp \in Targets, plan \in Plans \union {NoPlan} :
              p' = Entered(side, tp, plan)
        BY <3>1 DEF Enter
      <4> QED BY <4>1, EnteredTypes
    <3>2. CASE Exit \/ MarketClose
      BY <3>2, NoPositionTypes DEF Exit, MarketClose, Close
    <3> QED BY <1>4, <3>1, <3>2
  <2>2. disk' = disk
    BY <1>4 DEF Enter, Exit, MarketClose, diskVars
  <2> QED BY <1>0, <2>1, <2>2 DEF LockedIsEven
<1>5. CASE UNCHANGED vars
  BY <1>0, <1>5 DEF vars, diskVars, LockedIsEven
<1>6. CASE Next /\ ~Save /\ ~Restart /\ ~Enter /\ ~Exit /\ ~MarketClose
  <2>1. p'.stop >= p.stop /\ p'.stop \in Int
    BY <1>0, <1>6, NextImproves DEF Improves, Positions
  <2>2. disk' = disk
    BY <1>6 DEF Next, Tick, FillTier, ScaledOut, Stay, Adjust, Trail, Hold, Adopt, Unsaved,
                diskVars
  <2>3. p'.locked = p.locked
    <3>1. CASE Tick
      BY <1>0, <3>1, TickAdjusts DEF Adjusts, Positions
    <3>2. CASE Adjust
      BY <1>0, <3>2, AdjustAdjusts DEF Adjusts
    <3>3. CASE Trail
      BY <1>0, <3>3, TrailAdjusts DEF Adjusts
    <3>4. CASE FillTier \/ ScaledOut
      BY <1>0, <3>4, FillTierImproves, EvensImproves
    <3>5. CASE Hold
      BY <1>0, <3>5, ProtectedImproves DEF Hold
    <3>6. CASE Stay \/ Adopt \/ Unsaved
      BY <3>6 DEF Stay, Adopt, Unsaved
    <3> QED BY <1>6, <3>1, <3>2, <3>3, <3>4, <3>5, <3>6 DEF Next
  <2> QED BY <1>0, <2>1, <2>2, <2>3 DEF LockedIsEven
<1> QED BY <1>2, <1>3, <1>4, <1>5, <1>6

\* What is left is what the plan has not filled: the accounts of the plan and of the
\* manager agree, and the next tier is not refused.
LEMMA NextTierFits ==
  ASSUME p \in Positions, Due(p), p.left = Unfilled(p)
  PROVE  LET share == p.plan[p.filled + 1].share
             after == [p EXCEPT !.filled = @ + 1]
         IN  share <= p.left /\ Unfilled(after) = p.left - share
<1> DEFINE a == p.plan[1].share  b == p.plan[2].share  c == p.plan[3].share
           after == [p EXCEPT !.filled = @ + 1]
<1>1. a \in 1..Whole /\ b \in 1..Whole /\ c \in 1..Whole
  BY DueTier, PlanShares
<1>2. p.filled = 0 \/ p.filled = 1 \/ p.filled = 2
  BY DueTier
<1>3. after.plan = p.plan /\ after.filled = p.filled + 1 /\ p.filled \in Nat
  BY DEF Positions
<1>4. Unfilled(p) = (IF 1 > p.filled THEN a ELSE 0) + (IF 2 > p.filled THEN b ELSE 0)
                    + (IF 3 > p.filled THEN c ELSE 0)
  BY DEF Unfilled
<1>5. Unfilled(after) = (IF 1 > p.filled + 1 THEN a ELSE 0) + (IF 2 > p.filled + 1 THEN b ELSE 0)
                        + (IF 3 > p.filled + 1 THEN c ELSE 0)
  BY <1>3 DEF Unfilled
<1>6. p.plan[p.filled + 1].share = IF p.filled = 0 THEN a ELSE IF p.filled = 1 THEN b ELSE c
  BY <1>2
<1> DEFINE n == p.filled  l == p.left  share == p.plan[p.filled + 1].share
<1>7. share <= l /\ Unfilled(after) = l - share
  <2>1. l = (IF 1 > n THEN a ELSE 0) + (IF 2 > n THEN b ELSE 0) + (IF 3 > n THEN c ELSE 0)
    BY <1>4
  <2>2. share = IF n = 0 THEN a ELSE IF n = 1 THEN b ELSE c
    BY <1>6
  <2>3. Unfilled(after) = (IF 1 > n + 1 THEN a ELSE 0) + (IF 2 > n + 1 THEN b ELSE 0)
                          + (IF 3 > n + 1 THEN c ELSE 0)
    BY <1>5
  <2>4. a \in Nat /\ b \in Nat /\ c \in Nat
    BY <1>1 DEF Whole
  <2>5. n = 0 \/ n = 1 \/ n = 2
    BY <1>2
  <2> HIDE DEF a, b, c, n, l, share, after
  <2> QED BY <2>1, <2>2, <2>3, <2>4, <2>5
<1> QED BY <1>7

\* A step that leaves plan and fraction alone leaves the sum alone.
LEMMA SameFractions ==
  ASSUME FractionsAddUp, SameFills(p'), open' = open, booked' = booked, restarted' = restarted
  PROVE  FractionsAddUp'
<1>1. Unfilled(p') = Unfilled(p)
  BY DEF SameFills, Unfilled
<1>2. (Unfilled(p))' = Unfilled(p')
  BY DEF Unfilled
<1> QED BY <1>1, <1>2 DEF FractionsAddUp, SameFills

LEMMA NextFractions ==
  ASSUME IInv, [Next]_vars
  PROVE  FractionsAddUp'
<1>0. /\ TypeOK /\ FractionsAddUp /\ InMarket /\ p \in Positions
      /\ p.left \in 0..Whole /\ booked \in Nat
  BY DEF IInv, TypeOK, Positions
<1>1. CASE Tick \/ Adjust \/ Trail
  <2>1. SameFills(p')
    <3>1. UNCHANGED p => SameFills(p')
      BY DEF SameFills
    <3>2. CASE Tick
      <4>1. \A tp \in Targets : SameFills([p EXCEPT !.tp = tp])
        BY <1>0 DEF Positions, SameFills
      <4> QED BY <1>0, <3>1, <3>2, <4>1, TickAdjusts DEF Adjusts
    <3>3. CASE Adjust \/ Trail
      BY <1>0, <3>1, <3>3, AdjustAdjusts, TrailAdjusts DEF Adjusts
    <3> QED BY <1>1, <3>2, <3>3
  <2>2. open' = open /\ booked' = booked /\ restarted' = restarted
    BY <1>1 DEF Tick, Adjust, Trail, diskVars
  <2> QED BY <1>0, <2>1, <2>2, SameFractions
<1>2. CASE FillTier
  <2> DEFINE share == p.plan[p.filled + 1].share  after == [p EXCEPT !.filled = @ + 1]
  <2>1. Due(p) /\ PartialClose(share) /\ open /\ open' /\ restarted' = restarted
    BY <1>0, <1>2 DEF FillTier, InMarket, diskVars
  <2>2. p.plan \in Plans /\ p.plan # NoPlan /\ p.filled \in 0..2 /\ share \in Nat
    BY <1>0, <2>1, DueTier, PlanShares
  <2>3. share <= p.left /\ Unfilled(after) = p.left - share
    BY <1>0, <2>1, <2>2, NextTierFits DEF FractionsAddUp
  <2>4. /\ p'.plan = p.plan /\ p'.filled = p.filled + 1
        /\ p'.left = p.left - (IF share <= p.left THEN share ELSE 0)
        /\ booked' = booked + (IF share <= p.left THEN share ELSE 0)
    BY <1>0, <2>1, <2>2, PartialCloseImproves
  <2>5. after.plan = p.plan /\ after.filled = p.filled + 1
    BY <1>0 DEF Positions
  <2>6. Unfilled(p') = Unfilled(after)
    BY <2>4, <2>5 DEF Unfilled
  <2>7. (Unfilled(p))' = Unfilled(p')
    BY DEF Unfilled
  <2>8. p'.left = p.left - share /\ booked' = booked + share
    BY <2>3, <2>4
  <2> HIDE DEF share, after
  <2>9. open' /\ p'.plan # NoPlan => p'.left = Unfilled(p')
    BY <2>3, <2>6, <2>8
  <2>10. ~restarted' => booked' + p'.left = Whole
    BY <1>0, <2>1, <2>2, <2>8 DEF FractionsAddUp, Whole
  <2> QED BY <2>1, <2>7, <2>9, <2>10 DEF FractionsAddUp
<1>3. CASE Exit \/ MarketClose
  <2>1. open /\ ~open' /\ booked' = booked + p.left /\ restarted' = restarted
    BY <1>0, <1>3 DEF Exit, MarketClose, Close, InMarket, diskVars
  <2> QED BY <1>0, <2>1 DEF FractionsAddUp, Whole
<1>4. CASE Hold \/ Save \/ ScaledOut
  <2>1. SameFills(p')
    <3>1. CASE Hold
      <4>1. SameFills(Protected(p)) /\ SameFills(p)
        BY <1>0, ProtectedImproves DEF SameFills
      <4> QED BY <3>1, <4>1 DEF Hold
    <3>2. CASE Save \/ ScaledOut
      BY <1>0, <3>2, EvensImproves DEF Save, SameFills, Positions
    <3> QED BY <1>4, <3>1, <3>2
  <2>2. open' = open /\ booked' = booked /\ restarted' = restarted
    BY <1>4 DEF Hold, Save, ScaledOut, diskVars
  <2> QED BY <1>0, <2>1, <2>2, SameFractions
<1>5. CASE Enter
  <2>1. PICK side \in Sides, tp \in Targets, plan \in Plans \union {NoPlan} :
          p' = Entered(side, tp, plan)
    BY <1>5 DEF Enter
  <2>2. p'.left = Whole /\ p'.plan = plan /\ p'.filled = 0
    BY <2>1, EnteredTypes
  <2>3. booked' = 0 /\ open'
    BY <1>5 DEF Enter
  <2>4. (Unfilled(p))' = IF plan = NoPlan THEN (Unfilled(p))'
                         ELSE plan[1].share + plan[2].share + plan[3].share
    <3>1. 1 > 0 /\ 2 > 0 /\ 3 > 0
      OBVIOUS
    <3> QED BY <2>2, <3>1 DEF Unfilled
  <2>5. plan # NoPlan => (Unfilled(p))' = Whole
    BY <2>4, PlanShares
  <2> QED BY <2>2, <2>3, <2>5 DEF FractionsAddUp, Whole
<1>6. CASE Restart
  <2>1. disk # None => p'.plan = NoPlan
    BY <1>0, <1>6, RestoredTypes DEF Restart, TypeOK
  <2>2. restarted' /\ (open' => disk # None)
    BY <1>6 DEF Restart
  <2> QED BY <2>1, <2>2 DEF FractionsAddUp
<1>7. CASE Stay \/ Adopt \/ Unsaved \/ UNCHANGED vars
  <2>1. UNCHANGED <<open, p, booked, restarted>>
    BY <1>7 DEF Stay, Adopt, Unsaved, vars, diskVars
  <2>2. SameFills(p')
    BY <2>1 DEF SameFills
  <2> QED BY <1>0, <2>1, <2>2, SameFractions
<1> QED BY <1>1, <1>2, <1>3, <1>4, <1>5, <1>6, <1>7 DEF Next

LEMMA NextBroker ==
  ASSUME IInv, [Next]_vars
  PROVE  BrokerIsNotLooser'
<1> USE DEF brokerVars
<1>0. TypeOK /\ BrokerIsNotLooser /\ InMarket /\ SnapshotIsLooser /\ p \in Positions
  BY DEF IInv, TypeOK
<1>1. CASE Tick
  <2>1. CASE UNCHANGED <<p, brokerVars>>
    BY <1>0, <1>1, <2>1 DEF Tick, BrokerIsNotLooser
  <2>2. ASSUME NEW tp \in Targets, Adjusts([p EXCEPT !.tp = tp]) PROVE BrokerIsNotLooser'
    <3>1. /\ [p EXCEPT !.tp = tp] \in Positions /\ [p EXCEPT !.tp = tp].stop >= p.stop /\ open
      BY <1>0, <1>1, StopsAssumption DEF Positions, Tick
    <3> QED BY <1>0, <2>2, <3>1, AdjustsBroker
  <2> QED BY <1>0, <1>1, <2>1, <2>2, TickAdjusts
<1>2. CASE Adjust \/ Trail
  <2>1. open /\ open' = open
    BY <1>0, <1>2 DEF InMarket, Adjust, Trail
  <2>2. CASE UNCHANGED <<p, brokerVars>>
    BY <1>0, <2>1, <2>2 DEF BrokerIsNotLooser
  <2>3. CASE \E q : Improves(q) /\ Adjusts(q)
    BY <1>0, <2>1, <2>3, AdjustsBroker DEF Improves
  <2> QED BY <1>0, <1>2, <2>2, <2>3, AdjustAdjusts, TrailAdjusts
<1>3. CASE Exit \/ MarketClose
  BY <1>3 DEF Exit, MarketClose, Close, BrokerIsNotLooser
<1>4. CASE Enter
  <2>1. PICK side \in Sides, tp \in Targets, plan \in Plans \union {NoPlan} :
          p' = Entered(side, tp, plan)
    BY <1>4 DEF Enter
  <2>2. p'.stop \in Int
    BY <2>1, EnteredTypes DEF Positions
  <2>3. CASE broker' = Levels(p')
    BY <2>2, <2>3 DEF BrokerIsNotLooser, Levels
  <2>4. CASE broker' = None \/ Foreign
    BY <2>4, ForeignTypes DEF BrokerIsNotLooser
  <2> QED BY <1>4, <2>3, <2>4 DEF Enter
<1>5. CASE Restart \/ Adopt
  <2>1. CASE Restart /\ disk # None /\ open /\ ~fresh
    <3>1. p' = Restored(disk) /\ disk \in Snapshots /\ Between(disk)
      BY <1>0, <2>1 DEF Restart, TypeOK
    <3>2. p'.stop = disk.stop /\ disk.stop \in Int /\ p.stop \in Int /\ disk.stop <= p.stop
      BY <1>0, <2>1, <3>1, RestoredTypes DEF TypeOK, Snapshots, Positions, SnapshotIsLooser
    <3>3. UNCHANGED brokerVars /\ (broker # None => broker.stop \in Int)
      BY <1>0, <2>1 DEF Restart, TypeOK
    <3> QED BY <1>0, <2>1, <3>2, <3>3 DEF BrokerIsNotLooser
  <2>2. CASE Restart /\ ~(disk # None /\ open /\ ~fresh)
    BY <2>2, ForeignTypes DEF Restart, BrokerIsNotLooser
  <2>3. CASE Adopt
    BY <2>3, ForeignTypes DEF Adopt, BrokerIsNotLooser
  <2> QED BY <1>5, <2>1, <2>2, <2>3
<1>6. CASE FillTier \/ ScaledOut \/ Hold \/ Save
  <2>1. p'.stop = p.stop
    BY <1>0, <1>6, FillTierImproves, EvensImproves, ProtectedImproves DEF Hold, Save, Positions
  <2>2. UNCHANGED <<open, brokerVars>>
    BY <1>6 DEF FillTier, ScaledOut, Hold, Save
  <2> QED BY <1>0, <2>1, <2>2 DEF BrokerIsNotLooser
<1>7. CASE Stay \/ Unsaved \/ UNCHANGED vars
  BY <1>0, <1>7 DEF Stay, Unsaved, vars, BrokerIsNotLooser
<1> QED BY <1>1, <1>2, <1>3, <1>4, <1>5, <1>6, <1>7 DEF Next

-----------------------------------------------------------------------------
(* The level that guards a position.                                         *)

LEMMA EffectiveStopIs ==
  ASSUME NEW q \in Positions
  PROVE  /\ EffectiveStop(q) \in {q.stop, q.floor} /\ EffectiveStop(q) \in Int
         /\ EffectiveStop(q) >= q.stop /\ EffectiveStop(q) >= q.floor
<1>1. q.stop \in Int /\ q.floor \in Int
  BY DEF Positions
<1> QED BY <1>1, MaxOfTwo DEF EffectiveStop

LEMMA GuardedIs ==
  ASSUME NEW q \in Positions
  PROVE  /\ Guarded(q) \in Int /\ Guarded(q) >= EffectiveStop(q)
         /\ Guarded(q) \in {EffectiveStop(q), 0} /\ (Even(q) => Guarded(q) >= 0)
         /\ (~Even(q) => Guarded(q) = EffectiveStop(q))
<1> DEFINE e == EffectiveStop(q)
<1>1. e \in Int /\ 0 \in Int
  BY EffectiveStopIs
<1>2. Guarded(q) = Max({e} \union (IF Even(q) THEN {0} ELSE {}))
  BY DEF Guarded
<1> HIDE DEF e
<1>3. CASE Even(q)
  <2>1. {e} \union (IF Even(q) THEN {0} ELSE {}) = {e, 0}
    BY <1>3
  <2>2. Max({e, 0}) \in {e, 0} /\ Max({e, 0}) >= e /\ Max({e, 0}) >= 0
    BY <1>1, MaxOfTwo
  <2>3. Guarded(q) = Max({e, 0})
    BY <1>2, <2>1, Zenon
  <2> QED BY <1>1, <1>3, <2>2, <2>3 DEF e
<1>4. CASE ~Even(q)
  <2>1. {e} \union (IF Even(q) THEN {0} ELSE {}) = {e, e}
    BY <1>4
  <2>2. Max({e, e}) = e
    BY <1>1, MaxOfTwo
  <2>3. Guarded(q) = Max({e, e})
    BY <1>2, <2>1, Zenon
  <2> QED BY <1>1, <1>4, <2>2, <2>3 DEF e
<1> QED BY <1>3, <1>4

LEMMA ImprovedIsGuarded ==
  ASSUME TypeOK, NEW q, Improves(q), q.left > 0
  PROVE  Guarded(q) >= Guarded(p)
<1>1. /\ p \in Positions /\ q \in Positions
      /\ p.stop \in Int /\ p.floor \in Int /\ q.stop \in Int /\ q.floor \in Int
  BY DEF TypeOK, Improves, Positions
<1>2. q.stop >= p.stop /\ q.floor >= p.floor /\ (Even(p) => Even(q))
  BY DEF Improves, Even
<1>3. EffectiveStop(q) >= EffectiveStop(p)
  BY <1>1, <1>2, EffectiveStopIs
<1>4. /\ Guarded(p) \in Int /\ Guarded(q) \in Int
      /\ EffectiveStop(p) \in Int /\ EffectiveStop(q) \in Int
  BY <1>1, GuardedIs, EffectiveStopIs
<1>5. CASE Even(p)
  <2>1. Guarded(q) >= 0 /\ Guarded(q) >= EffectiveStop(q) /\ Guarded(p) \in {EffectiveStop(p), 0}
    BY <1>1, <1>2, <1>5, GuardedIs
  <2> QED BY <1>3, <1>4, <2>1
<1>6. CASE ~Even(p)
  <2>1. Guarded(q) >= EffectiveStop(q) /\ Guarded(p) = EffectiveStop(p)
    BY <1>1, <1>6, GuardedIs
  <2> QED BY <1>3, <1>4, <2>1
<1> QED BY <1>5, <1>6

-----------------------------------------------------------------------------
(* The theorems.                                                             *)

\* The parts that move a position's levels agree: types and bounds, the snapshot's
\* age, the lock, the fractions and the broker's copy survive every step together.
THEOREM LevelsAgree == Spec => []IInv
<1>1. IInv /\ [Next]_vars => IInv'
  <2> SUFFICES ASSUME IInv, [Next]_vars PROVE IInv'
    OBVIOUS
  <2>1. TypeOK'
    BY NextTypeOK DEF IInv
  <2> QED BY <2>1, NextInMarket, NextSnapshotIsLooser, NextLockIsSet, NextLockedIsEven,
             NextFractions, NextBroker DEF IInv
<1> QED BY <1>1, InitIInv, PTL DEF Spec

\* Levels keep their types and bounds: no engine finds a stop beyond every gain the
\* price has had, or a take profit at the entry or on its other side.
THEOREM TypeCorrect == Spec => []TypeOK
<1>1. IInv => TypeOK
  BY DEF IInv
<1> QED BY <1>1, LevelsAgree, PTL

\* Every part of a position is booked once, whichever tiers one price fills and whichever
\* exit takes the rest, and the manager never refuses a tier that the plan has marked.
THEOREM EveryPartIsBookedOnce == Spec => []FractionsAddUp
<1>1. IInv => FractionsAddUp
  BY DEF IInv
<1> QED BY <1>1, LevelsAgree, PTL

\* The broker's stop is never below the one in memory unless the last request to move it
\* has failed or its order was adopted or inherited and not sent anything since, through
\* crashes and old snapshots too.
THEOREM BrokerKeepsUp == Spec => []BrokerIsNotLooser
<1>1. IInv => BrokerIsNotLooser
  BY DEF IInv
<1> QED BY <1>1, LevelsAgree, PTL

\* Trailing stop, adaptive exit, adjustment, tiers and protection only ever tighten what
\* guards a position of which anything is left.
THEOREM NothingLoosens == Spec => StopNeverLoosens
<1>1. IInv /\ [Next]_vars
        => [open /\ open' => \/ /\ p'.stop >= p.stop
                                /\ p'.left > 0 => Guarded(p') >= Guarded(p)
                             \/ disk # None /\ p' = Restored(disk)
                             \/ \E side \in Sides, tp \in Targets, plan \in Plans \union {NoPlan} :
                                  p' = Entered(side, tp, plan)]_vars
  <2> SUFFICES ASSUME IInv, Next, open, open'
               PROVE  \/ /\ p'.stop >= p.stop
                         /\ p'.left > 0 => Guarded(p') >= Guarded(p)
                      \/ disk # None /\ p' = Restored(disk)
                      \/ \E side \in Sides, tp \in Targets, plan \in Plans \union {NoPlan} :
                           p' = Entered(side, tp, plan)
    OBVIOUS
  <2>1. CASE Restart
    BY <2>1 DEF Restart
  <2>2. CASE Enter
    BY <2>2 DEF Enter
  <2>3. CASE Exit \/ MarketClose
    BY <2>3 DEF Exit, MarketClose, Close
  <2>4. CASE ~Restart /\ ~Enter /\ ~Exit /\ ~MarketClose
    <3>1. Improves(p')
      BY <2>4, NextImproves DEF IInv
    <3>2. p'.left > 0 => Guarded(p') >= Guarded(p)
      BY <3>1, ImprovedIsGuarded DEF IInv
    <3> QED BY <3>1, <3>2 DEF Improves
  <2> QED BY <2>1, <2>2, <2>3, <2>4
<1> QED BY <1>1, LevelsAgree, PTL DEF Spec, StopNeverLoosens

\* A winner that the adaptive exit has locked leaves at its entry or better, after
\* any number of restarts.
THEOREM WinnersKeep == Spec => LockedWinnersKeep
<1>1. IInv => (p.locked => \A level \in Exits : Hit(level) => level >= 0)
  <2> SUFFICES ASSUME IInv, p.locked, NEW level \in Exits PROVE level >= 0
    OBVIOUS
  <2>1. p \in Positions /\ p.stop \in Int /\ p.stop >= 0 /\ p.tp \in Nat
    BY DEF IInv, TypeOK, Positions, LockedIsEven
  <2>2. EffectiveStop(p) \in Int /\ EffectiveStop(p) >= 0
    BY <2>1, EffectiveStopIs
  <2> QED BY <2>1, <2>2 DEF Exits
<1>2. IInv => [pc = "check" /\ open /\ p.locked => \A level \in Exits : Hit(level) => level >= 0]_vars
  BY <1>1
<1> QED BY <1>2, LevelsAgree, PTL DEF Spec, LockedWinnersKeep
=============================================================================
