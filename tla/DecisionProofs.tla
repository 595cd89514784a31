--------------------------- MODULE DecisionProofs ---------------------------
(***************************************************************************)
(* Theorems about Decision, for every length of the cool-downs, of a       *)
(* deferral and of the spread gate's observation.                          *)
(***************************************************************************)
EXTENDS Decision, SequenceTheorems, TLAPS

-----------------------------------------------------------------------------
(* The invariants.                                                           *)

\* A side that reaches the router has no position in its way, unless the flip
\* was refused.
WayIsFree == pc = "route" /\ newSide # None => pos = None \/ ~flipAllowed

\* While the side that hit its stop is to wait, the asset remembers its
\* stop-out, and for as long.
StopOutKept ==
  lostSide # None /\ lostAge < Cooldown => stopSide = lostSide /\ stopAge = lostAge

\* A side that reaches the router does not have to wait.
MayRoute == pc = "route" /\ newSide # None => newSide # lostSide \/ lostAge >= Cooldown

\* A sell-only asset has no side to buy on.
NoBuying == sellOnly => newSide # "long"

IInv == TypeOK /\ WayIsFree /\ StopOutKept /\ MayRoute /\ NoBuying

-----------------------------------------------------------------------------
(* Types.                                                                    *)

LEMMA LaterBounds ==
  ASSUME NEW cap \in Nat, NEW n \in 0..cap
  PROVE  Later(n, cap) \in 0..cap
BY DEF Later

\* The chain holds sides, and as many as the window has.
LEMMA ChainedTypes ==
  ASSUME chain \in Seq(Sides), Len(chain) <= Window, NEW s \in Sides
  PROVE  Chained(s) \in Seq(Sides) /\ Len(Chained(s)) <= Window
<1>1. Len(chain) \in Nat /\ Window = 3
  BY LenProperties DEF Window
<1>2. CASE Len(chain) = Window
  <2>1. chain # <<>>
    BY <1>1, <1>2, EmptySeq
  <2>2. Tail(chain) \in Seq(Sides) /\ Len(Tail(chain)) = Len(chain) - 1
    BY <2>1, HeadTailProperties
  <2>3. Append(Tail(chain), s) \in Seq(Sides) /\ Len(Append(Tail(chain), s)) = Len(Tail(chain)) + 1
    BY <2>2, AppendProperties
  <2>4. Chained(s) = Append(Tail(chain), s)
    BY <1>2 DEF Chained
  <2>5. Len(Append(Tail(chain), s)) <= Window
    <3> DEFINE m == Len(Tail(chain))  n == Len(Append(Tail(chain), s))
    <3>1. Len(chain) \in Nat /\ Len(chain) = Window /\ m = Len(chain) - 1 /\ n = m + 1
      BY <1>1, <1>2, <2>2, <2>3
    <3> HIDE DEF m, n
    <3>2. n <= Window
      BY <3>1
    <3> QED BY <3>2 DEF n
  <2> QED BY <2>3, <2>4, <2>5
<1>3. CASE Len(chain) # Window
  <2>1. Append(chain, s) \in Seq(Sides) /\ Len(Append(chain, s)) = Len(chain) + 1
    BY AppendProperties
  <2>2. Chained(s) = Append(chain, s)
    BY <1>3 DEF Chained
  <2>3. Len(Append(chain, s)) <= Window
    <3> DEFINE m == Len(chain)  n == Len(Append(chain, s))
    <3>1. m \in Nat /\ m # Window /\ m <= Window /\ Window = 3 /\ n = m + 1
      BY <1>1, <1>3, <2>1
    <3> HIDE DEF m, n
    <3>2. n <= Window
      BY <3>1
    <3> QED BY <3>2 DEF n
  <2> QED BY <2>1, <2>2, <2>3
<1> QED BY <1>2, <1>3

LEMMA AskTypes ==
  ASSUME TypeOK, NEW asked, Ask(asked)
  PROVE  stopSide' \in Sides \union {None} /\ lostSide' \in Sides \union {None}
BY DEF TypeOK, Ask

LEMMA InitTypeOK == Init => TypeOK
<1> SUFFICES ASSUME Init PROVE TypeOK
  OBVIOUS
<1> USE DecisionAssumption DEF Init
<1>1. chain \in Seq(Sides) /\ Len(chain) <= Window
  BY DEF Window
<1>2. pending \in [Sides -> Gone..MaxBars]
  BY DEF Gone
<1>3. cycle \in 0..Observe /\ stopAge \in 0..Cooldown /\ flipAge \in 0..MinFlip
      /\ lostAge \in 0..Cooldown
  OBVIOUS
<1> QED BY <1>1, <1>2, <1>3 DEF TypeOK, Spreads

LEMMA NextTypeOK ==
  ASSUME TypeOK, [Next]_vars
  PROVE  TypeOK'
<1> USE DEF ctxVars, coolVars, lostVars
<1>1. CASE Exits
  <2>1. pos' \in Sides \union {None} /\ lostSide' \in Sides \union {None}
        /\ stopSide' \in Sides \union {None}
    BY <1>1 DEF Exits, Hit, TypeOK
  <2>2. stopAge' \in 0..Cooldown /\ lostAge' \in 0..Cooldown /\ flipAge' = flipAge
    BY <1>1, DecisionAssumption DEF Exits, Hit, TypeOK
  <2>3. UNCHANGED <<saved, adjusted, cycle, ctxVars, chain, pending, sellOnly>> /\ pc' = "signal"
        /\ pc = "pnl"
    BY <1>1 DEF Exits
  <2> QED BY <2>1, <2>2, <2>3 DEF TypeOK
<1>2. CASE NoDecision \/ UNCHANGED vars
  BY <1>2 DEF NoDecision, vars, TypeOK
<1>3. CASE Raises
  BY <1>3 DEF Raises, NoContext, Spreads, TypeOK
<1>4. CASE Decide
  <2>1. cycle' \in 0..Observe /\ stopAge' \in 0..Cooldown /\ flipAge' \in 0..MinFlip
        /\ lostAge' \in 0..Cooldown
    BY <1>4, LaterBounds, DecisionAssumption DEF Decide, TypeOK
  <2>2. pc' \in {"save", "gates"} /\ seenSide' \in Sides \union {None} /\ spread' \in Spreads
        /\ newSide = None
    BY <1>4 DEF Decide, TypeOK
  <2>3. UNCHANGED <<pos, saved, adjusted, newSide, flipAllowed, chain, pending, stopSide,
                    lostSide, sellOnly>>
    BY <1>4 DEF Decide
  <2> QED BY <2>1, <2>2, <2>3 DEF TypeOK
<1>5. CASE Gates
  BY <1>5 DEF Gates, TypeOK
<1>6. CASE FlipGates
  <2>1. chain' \in Seq(Sides) /\ Len(chain') <= Window
    BY <1>6, ChainedTypes DEF FlipGates, TypeOK
  <2>2. newSide' \in Sides \union {None} /\ flipAllowed' \in BOOLEAN
    BY <1>6 DEF FlipGates, TypeOK
  <2>3. UNCHANGED <<pos, saved, adjusted, cycle, seenSide, spread, pending, coolVars, lostVars,
                    sellOnly>> /\ pc' = "manage"
    BY <1>6 DEF FlipGates
  <2> QED BY <2>1, <2>2, <2>3 DEF TypeOK
<1>7. CASE Manage
  <2>1. stopSide' \in Sides \union {None} /\ lostSide' \in Sides \union {None}
    BY <1>7, AskTypes DEF Manage, TypeOK
  <2>2. pos' \in {pos, None} /\ newSide' \in {newSide, None} /\ flipAge' \in {flipAge, 0}
    BY <1>7 DEF Manage, Hold, FlipClose
  <2>3. flipAge' \in 0..MinFlip
    BY <2>2, DecisionAssumption DEF TypeOK
  <2>4. UNCHANGED <<saved, adjusted, cycle, seenSide, flipAllowed, spread, chain, pending,
                    stopAge, lostAge, sellOnly>> /\ pc' = "route"
    BY <1>7 DEF Manage
  <2> QED BY <2>1, <2>2, <2>3, <2>4 DEF TypeOK
<1>8. CASE Route
  <2>1. pending' \in [Sides -> Gone..MaxBars]
    BY <1>8, DecisionAssumption DEF Route, TypeOK, Gone
  <2>2. pos' \in Sides \union {None} /\ adjusted' \in BOOLEAN
    BY <1>8 DEF Route, Opens, Declines, TypeOK
  <2> QED BY <1>8, <2>1, <2>2 DEF Route, TypeOK
<1>9. CASE Poll
  <2>1. pending' \in [Sides -> Gone..MaxBars]
    <3>1. Gone \in Gone..MaxBars
      BY DecisionAssumption DEF Gone
    <3>2. \A s \in Live : Aged(s) \in Gone..MaxBars
      BY DecisionAssumption DEF TypeOK, Live, Aged, Gone
    <3> QED BY <1>9, <3>1, <3>2 DEF Poll, PollCancel, PollEach
  <2>2. /\ pos' \in Sides \union {None} /\ adjusted' \in BOOLEAN
        /\ stopSide' \in Sides \union {None} /\ lostSide' \in Sides \union {None}
    BY <1>9, AskTypes DEF Poll, PollCancel, PollEach, Live, Opens, Declines, TypeOK
  <2>3. UNCHANGED <<saved, cycle, chain, stopAge, flipAge, lostAge, sellOnly>> /\ pc' = "save"
        /\ NoContext
    BY <1>9 DEF Poll
  <2> QED BY <2>1, <2>2, <2>3 DEF TypeOK, NoContext, Spreads
<1>10. CASE Save
  BY <1>10 DEF Save, TypeOK
<1>11. CASE Restart
  <2>1. chain' \in Seq(Sides) /\ Len(chain') <= Window
    BY <1>11 DEF Restart, Window
  <2>2. pending' \in [Sides -> Gone..MaxBars]
    BY <1>11, DecisionAssumption DEF Restart, Gone
  <2>3. cycle' \in 0..Observe /\ stopAge' \in 0..Cooldown /\ flipAge' \in 0..MinFlip
        /\ lostAge' \in 0..Cooldown
    BY <1>11, DecisionAssumption DEF Restart
  <2> QED BY <1>11, <2>1, <2>2, <2>3 DEF Restart, NoContext, Spreads, TypeOK
<1> QED BY <1>1, <1>2, <1>3, <1>4, <1>5, <1>6, <1>7, <1>8, <1>9, <1>10, <1>11 DEF Next

-----------------------------------------------------------------------------
(* The stages between the one that finds a side and the one that opens it.   *)

LEMMA InitIInv == Init => IInv
BY InitTypeOK DEF Init, IInv, WayIsFree, StopOutKept, MayRoute, NoBuying, None

\* The other side's question forgets the stop-out, and with it that the side waits.
LEMMA AskKeepsStopOut ==
  ASSUME TypeOK, StopOutKept, NEW asked, Ask(asked), stopAge' = stopAge, lostAge' = lostAge
  PROVE  StopOutKept'
<1> SUFFICES ASSUME lostSide' # None, lostAge' < Cooldown
             PROVE  stopSide' = lostSide' /\ stopAge' = lostAge'
  BY DEF StopOutKept
<1>1. lostSide' = lostSide /\ \A s \in asked : s = lostSide
  BY DEF Ask
<1>2. stopSide = lostSide /\ stopAge = lostAge /\ stopAge < Cooldown
  BY <1>1 DEF StopOutKept
<1>3. ~(\E s \in asked : stopSide # s \/ stopAge >= Cooldown)
  BY <1>1, <1>2, DecisionAssumption DEF TypeOK
<1> QED BY <1>1, <1>2, <1>3 DEF Ask

LEMMA NextWayIsFree ==
  ASSUME IInv, [Next]_vars
  PROVE  WayIsFree'
<1>1. CASE Manage
  BY <1>1 DEF Manage, Hold, FlipClose, Closes, WayIsFree
<1>2. CASE UNCHANGED vars
  BY <1>2 DEF vars, ctxVars, IInv, WayIsFree
<1>3. CASE ~Manage /\ Next
  <2>1. pc' # "route"
    BY <1>3 DEF Next, Exits, NoDecision, Raises, Decide, Gates, FlipGates, Route, Poll, Save,
                Restart
  <2> QED BY <2>1 DEF WayIsFree
<1> QED BY <1>1, <1>2, <1>3

LEMMA NextStopOutKept ==
  ASSUME IInv, [Next]_vars
  PROVE  StopOutKept'
<1>0. TypeOK /\ StopOutKept
  BY DEF IInv
<1> USE DEF coolVars, lostVars
<1>1. CASE Exits
  <2>1. CASE UNCHANGED <<coolVars, lostVars>>
    BY <1>0, <2>1 DEF StopOutKept
  <2>2. ASSUME NEW hit \in {"sl", "tp"}, Hit(hit) PROVE StopOutKept'
    BY <2>2 DEF Hit, Records, StopOutKept
  <2> QED BY <1>1, <2>1, <2>2 DEF Exits
<1>2. CASE Decide
  <2>1. /\ stopSide' = stopSide /\ lostSide' = lostSide
        /\ stopAge' = Later(stopAge, Cooldown) /\ lostAge' = Later(lostAge, Cooldown)
    BY <1>2 DEF Decide
  <2>2. lostAge' < Cooldown => lostAge < Cooldown
    BY <1>0, <2>1, DecisionAssumption DEF Later, TypeOK
  <2> QED BY <1>0, <2>1, <2>2 DEF StopOutKept
<1>3. CASE Manage
  <2>1. stopAge' = stopAge /\ lostAge' = lostAge
    BY <1>3 DEF Manage
  <2>2. UNCHANGED <<stopSide, lostSide>> \/ Ask({newSide})
    BY <1>3 DEF Manage
  <2>3. CASE UNCHANGED <<stopSide, lostSide>>
    BY <1>0, <2>1, <2>3 DEF StopOutKept
  <2> QED BY <1>0, <2>1, <2>2, <2>3, AskKeepsStopOut
<1>4. CASE Poll
  <2>1. stopAge' = stopAge /\ lostAge' = lostAge
    BY <1>4 DEF Poll
  <2>2. CASE PollCancel
    BY <1>0, <2>1, <2>2 DEF PollCancel, StopOutKept
  <2>3. CASE PollEach
    <3>1. PICK asked : Ask(asked)
      BY <2>3 DEF PollEach
    <3> QED BY <1>0, <2>1, <3>1, AskKeepsStopOut
  <2> QED BY <1>4, <2>2, <2>3 DEF Poll
<1>5. CASE Restart
  BY <1>5 DEF Restart, StopOutKept
<1>6. CASE NoDecision \/ Raises \/ Gates \/ FlipGates \/ Route \/ Save \/ UNCHANGED vars
  <2>1. UNCHANGED <<coolVars, lostVars>>
    BY <1>6 DEF NoDecision, Raises, Gates, FlipGates, Route, Save, vars
  <2> QED BY <1>0, <2>1 DEF StopOutKept
<1> QED BY <1>1, <1>2, <1>3, <1>4, <1>5, <1>6 DEF Next

LEMMA NextMayRoute ==
  ASSUME IInv, [Next]_vars
  PROVE  MayRoute'
<1>1. CASE Manage
  <2> SUFFICES ASSUME newSide' # None, newSide' = lostSide' PROVE lostAge' >= Cooldown
    BY DEF MayRoute
  <2>1. newSide # None /\ newSide' = newSide /\ MayEnter(newSide) /\ Ask({newSide})
    BY <1>1 DEF Manage, Hold, FlipClose, MayEnter
  <2>2. lostSide = newSide /\ stopSide # lostSide
    BY <2>1 DEF Ask, MayEnter, Cools
  <2>3. lostAge' = lostAge /\ ~(lostAge < Cooldown)
    BY <1>1, <2>1, <2>2 DEF Manage, IInv, StopOutKept
  <2> QED BY <2>3, DecisionAssumption DEF IInv, TypeOK
<1>2. CASE UNCHANGED vars
  BY <1>2 DEF vars, ctxVars, lostVars, IInv, MayRoute
<1>3. CASE ~Manage /\ Next
  <2>1. pc' # "route"
    BY <1>3 DEF Next, Exits, NoDecision, Raises, Decide, Gates, FlipGates, Route, Poll, Save,
                Restart
  <2> QED BY <2>1 DEF MayRoute
<1> QED BY <1>1, <1>2, <1>3

LEMMA NextNoBuying ==
  ASSUME IInv, [Next]_vars
  PROVE  NoBuying'
<1>0. NoBuying
  BY DEF IInv
<1>1. CASE Gates
  BY <1>1 DEF Gates, Passes, NoBuying, None
<1>2. CASE Raises \/ FlipGates \/ Manage \/ Route \/ Poll
  <2>1. newSide' \in {newSide, None} /\ sellOnly' = sellOnly
    BY <1>2 DEF Raises, FlipGates, Manage, Hold, FlipClose, Route, Poll, NoContext
  <2> QED BY <1>0, <2>1 DEF NoBuying, None
<1>3. CASE Restart
  BY <1>3 DEF Restart, NoContext, NoBuying, None
<1>4. CASE Exits \/ NoDecision \/ Decide \/ Save \/ UNCHANGED vars
  <2>1. UNCHANGED <<newSide, sellOnly>>
    BY <1>4 DEF Exits, NoDecision, Decide, Save, vars, ctxVars
  <2> QED BY <1>0, <2>1 DEF NoBuying
<1> QED BY <1>1, <1>2, <1>3, <1>4 DEF Next

-----------------------------------------------------------------------------
(* The theorems.                                                             *)

\* The stages agree about the side they hand on: the conjunction of types, way,
\* stop-out, wait and sell-only filter is kept by every step of the cycle.
THEOREM StagesAgree == Spec => []IInv
<1>1. IInv /\ [Next]_vars => IInv'
  BY NextTypeOK, NextWayIsFree, NextStopOutKept, NextMayRoute, NextNoBuying DEF IInv
<1> QED BY <1>1, InitIInv, PTL DEF Spec

\* The variables keep their types; the chain of signals is never longer than the
\* window that _signal_chain is cut to, and no entry stays pending after its last bar.
THEOREM TypeCorrect == Spec => []TypeOK
<1>1. IInv => TypeOK
  BY DEF IInv
<1> QED BY <1>1, StagesAgree, PTL

\* What opens positions: the router, of the side that reached it.  An entry that
\* is asked about is pending, and can_enter refuses a side with a pending entry.
LEMMA PollOpensNothing ==
  ASSUME Poll
  PROVE  pos' = pos
<1>1. CASE PollCancel
  BY <1>1 DEF PollCancel, Declines
<1>2. CASE PollEach
  <2>1. PICK asked \in SUBSET Live :
          Declines \/ \E s \in asked : MayTrigger(s) /\ Opens(s)
    BY <1>2 DEF PollEach
  <2>2. ~(\E s \in asked : MayTrigger(s))
    BY <2>1 DEF Live, MayTrigger, MayEnter
  <2> QED BY <2>1, <2>2 DEF Declines
<1> QED BY <1>1, <1>2 DEF Poll

LEMMA OnlyRouteOpens ==
  ASSUME [Next]_vars, NEW s \in Sides, Opened(s)
  PROVE  pc = "route" /\ Route /\ newSide = s
<1>0. pos' = s /\ pos # s /\ pc' # "pnl" /\ s # None
  BY DEF Opened, InCycle, Sides, None
<1>1. CASE Exits \/ Gates \/ Manage
  BY <1>0, <1>1 DEF Exits, Hit, Gates, Manage, Hold, FlipClose
<1>2. CASE NoDecision \/ Raises \/ Decide \/ FlipGates \/ Save \/ UNCHANGED vars
  BY <1>0, <1>2 DEF NoDecision, Raises, Decide, FlipGates, Save, vars
<1>3. CASE Poll
  BY <1>0, <1>3, PollOpensNothing
<1>4. CASE Restart
  BY <1>0, <1>4 DEF Restart
<1>5. CASE Route
  BY <1>0, <1>5 DEF Route, Opens, Declines
<1> QED BY <1>1, <1>2, <1>3, <1>4, <1>5 DEF Next

\* Positions are replaced by the router alone, and only where the conviction gate
\* has refused the flip that manage_position would have closed them for.
THEOREM RefusedFlipsAlone == Spec => OnlyRefusedFlipsReplace
<1>1. IInv /\ [Next]_vars
        => [\A s \in Sides : Opened(s) /\ pos # None => pc = "route" /\ ~flipAllowed]_vars
  <2> SUFFICES ASSUME IInv, [Next]_vars, NEW s \in Sides, Opened(s), pos # None
               PROVE  pc = "route" /\ ~flipAllowed
    OBVIOUS
  <2>1. pc = "route" /\ newSide # None
    BY OnlyRouteOpens DEF Sides, None
  <2> QED BY <2>1 DEF IInv, WayIsFree
<1> QED BY <1>1, StagesAgree, PTL DEF Spec, OnlyRefusedFlipsReplace

\* poll_pending_entries opens no position, whatever is pending and however the
\* entry policy answers: the contract's "execute previously deferred pending
\* orders" (LIVE_CONTRACT.md:290) never happens.
THEOREM DeferredEntriesDoNotOpen == Spec => DeferralsNeverOpen
<1>1. [Next]_vars => [pc = "poll" /\ InCycle => pos' = pos]_vars
  <2> SUFFICES ASSUME Next, pc = "poll", InCycle PROVE pos' = pos
    BY DEF vars
  <2>1. CASE Poll
    BY <2>1, PollOpensNothing
  <2>2. CASE Raises
    BY <2>2 DEF Raises
  <2>3. CASE ~Poll /\ ~Raises
    BY <2>3 DEF Next, Exits, NoDecision, Decide, Gates, FlipGates, Manage, Route, Save, Restart,
                InCycle
  <2> QED BY <2>1, <2>2, <2>3
<1> QED BY <1>1, PTL DEF Spec, DeferralsNeverOpen

\* A side that was stopped out waits for the score to decay, or for the other side
\* to be asked about.
THEOREM StoppedSidesWait == Spec => SameSideWaits
<1>1. IInv /\ [Next]_vars
        => [\A s \in Sides : Opened(s) /\ s = lostSide => lostAge >= Cooldown]_vars
  <2> SUFFICES ASSUME IInv, [Next]_vars, NEW s \in Sides, Opened(s), s = lostSide
               PROVE  lostAge >= Cooldown
    OBVIOUS
  <2>1. pc = "route" /\ newSide = s /\ s # None
    BY OnlyRouteOpens DEF Sides, None
  <2> QED BY <2>1 DEF IInv, MayRoute
<1> QED BY <1>1, StagesAgree, PTL DEF Spec, SameSideWaits

\* No signal and no deferral buys an asset that may only be sold, through every
\* restart with another list of such assets.
THEOREM SellOnlyAssetsSell == Spec => SellOnlyNeverBuys
<1>1. IInv /\ [Next]_vars => [Opened("long") => ~sellOnly]_vars
  <2> SUFFICES ASSUME IInv, [Next]_vars, Opened("long") PROVE ~sellOnly
    OBVIOUS
  <2>1. newSide = "long"
    BY OnlyRouteOpens DEF Sides
  <2> QED BY <2>1 DEF IInv, NoBuying
<1> QED BY <1>1, StagesAgree, PTL DEF Spec, SellOnlyNeverBuys
=============================================================================
