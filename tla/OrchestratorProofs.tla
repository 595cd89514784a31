-------------------------- MODULE OrchestratorProofs --------------------------
(***************************************************************************)
(* Theorems about Orchestrator for every set of actors and every value of  *)
(* its limits.  A portfolio total is a member of Totals, the totals of all *)
(* valuations of the actors, and these are natural numbers: that is all    *)
(* the control of the cycle needs to know of money.                        *)
(***************************************************************************)
EXTENDS Orchestrator, FiniteSetTheorems, WellFoundedInduction, TLAPS

-----------------------------------------------------------------------------
(* Sums.                                                                     *)

\* A nonempty set of numbers has a least one.
LEMMA LeastNatural ==
  ASSUME NEW T, T \subseteq Nat, T # {}
  PROVE  \E n \in T : \A m \in T : n <= m
<1> DEFINE R == OpToRel(<, Nat)
<1>1. IsWellFoundedOn(R, Nat)
  BY NatLessThanWellFounded, Zenon
<1>2. R = {r \in Nat \X Nat : r[1] < r[2]}
  BY Zenon DEF OpToRel
<1> HIDE DEF R
<1>3. PICK n \in T : \A m \in T : ~(<<m, n>> \in R)
  BY <1>1, WFMin
<1>4. \A m \in T : ~(m < n)
  BY <1>2, <1>3
<1> QED BY <1>4

\* What is summed first of s.
First(s) == CHOOSE x \in s : TRUE

\* The sum of f over s, if g is that over smaller sets.
SumStep(f, g, s) == IF s = {} THEN 0 ELSE f[First(s)] + g[s \ {First(s)}]

\* g sums f over the parts of its domain with n elements at most.
Small(f, n) == {s \in SUBSET DOMAIN f : Cardinality(s) <= n}
Sums(f, g, n) == g = [s \in Small(f, n) |-> SumStep(f, g, s)]

\* SumFunction is a function over the subsets of the domain.
LEMMA SumUnfolds ==
  ASSUME NEW f
  PROVE  SumFunction(f)
           = (CHOOSE g : g = [s \in SUBSET DOMAIN f |-> SumStep(f, g, s)])[DOMAIN f]
BY DEF SumFunction, SumFunctionOnSet, FoldFunctionOnSet, MapThenFoldSet, SumStep, First

\* A sum goes on with a smaller set.
LEMMA SmallerRest ==
  ASSUME NEW D, IsFiniteSet(D), NEW s \in SUBSET D, s # {}
  PROVE  /\ First(s) \in s /\ s \ {First(s)} \in SUBSET D
         /\ Cardinality(s) \in Nat \ {0} /\ Cardinality(s \ {First(s)}) = Cardinality(s) - 1
<1>1. IsFiniteSet(s) /\ First(s) \in s
  BY FS_Subset DEF First
<1>2. Cardinality(s) \in Nat /\ Cardinality(s) # 0
  BY <1>1, FS_CardinalityType, FS_EmptySet
<1> QED BY <1>1, <1>2, FS_RemoveElement

\* The recursion defines something: the sums over sets of n elements are made
\* of those over smaller ones.
LEMMA SumsExist ==
  ASSUME NEW f, IsFiniteSet(DOMAIN f), NEW n \in Nat
  PROVE  \E g : Sums(f, g, n)
<1> DEFINE Bad == {k \in Nat : ~\E g : Sums(f, g, k)}
<1> SUFFICES ASSUME Bad # {} PROVE FALSE
  OBVIOUS
<1>1. PICK k \in Bad : \A j \in Bad : k <= j
  BY LeastNatural
<1>2. CASE k = 0
  <2> DEFINE g == [s \in Small(f, 0) |-> 0]
  <2>1. ASSUME NEW s \in Small(f, 0) PROVE SumStep(f, g, s) = 0
    <3>1. s \in SUBSET DOMAIN f /\ Cardinality(s) <= 0
      BY DEF Small
    <3>2. ASSUME s # {} PROVE FALSE
      <4>1. Cardinality(s) \in Nat \ {0}
        BY <3>1, <3>2, SmallerRest
      <4> QED BY <3>1, <4>1
    <3> QED BY <3>2 DEF SumStep
  <2>2. Sums(f, g, 0)
    BY <2>1 DEF Sums
  <2> QED BY <1>2, <2>2
<1>3. CASE k # 0
  <2>1. k - 1 \in Nat /\ k - 1 \notin Bad
    BY <1>1, <1>3
  <2>2. PICK g : Sums(f, g, k - 1)
    BY <2>1
  <2> DEFINE h == [s \in Small(f, k) |-> SumStep(f, g, s)]
  <2>3. ASSUME NEW s \in Small(f, k) PROVE SumStep(f, g, s) = SumStep(f, h, s)
    <3>1. CASE s = {}
      BY <3>1 DEF SumStep
    <3>2. CASE s # {}
      <4> DEFINE r == s \ {First(s)}
      <4>1. r \in Small(f, k - 1) /\ r \in Small(f, k)
        BY <3>2, SmallerRest DEF Small
      <4>2. g[r] = SumStep(f, g, r)
        BY <2>2, <4>1 DEF Sums
      <4>3. h[r] = SumStep(f, g, r)
        BY <4>1
      <4> QED BY <3>2, <4>2, <4>3 DEF SumStep
    <3> QED BY <3>1, <3>2
  <2>4. Sums(f, h, k)
    BY <2>3 DEF Sums
  <2> QED BY <2>4
<1> QED BY <1>2, <1>3

\* A finite sum of naturals is one.
LEMMA SumIsNat ==
  ASSUME NEW f, IsFiniteSet(DOMAIN f), \A x \in DOMAIN f : f[x] \in Nat
  PROVE  SumFunction(f) \in Nat
<1> DEFINE D == DOMAIN f
           g == CHOOSE g : g = [s \in SUBSET D |-> SumStep(f, g, s)]
<1>1. Cardinality(D) \in Nat
  BY FS_CardinalityType
<1>2. Small(f, Cardinality(D)) = SUBSET D
  BY FS_Subset DEF Small
<1>3. g = [s \in SUBSET D |-> SumStep(f, g, s)]
  BY <1>1, <1>2, SumsExist DEF Sums
<1>4. SumFunction(f) = g[D]
  BY SumUnfolds
<1> HIDE DEF g
<1> DEFINE Bad == {n \in Nat : \E s \in SUBSET D : Cardinality(s) = n /\ g[s] \notin Nat}
<1>5. Bad = {}
  <2> SUFFICES ASSUME Bad # {} PROVE FALSE
    OBVIOUS
  <2>1. PICK n \in Bad : \A m \in Bad : n <= m
    BY LeastNatural
  <2>2. PICK s \in SUBSET D : Cardinality(s) = n /\ g[s] \notin Nat
    BY <2>1
  <2>3. g[s] = SumStep(f, g, s)
    BY <1>3
  <2>4. CASE s = {}
    BY <2>2, <2>3, <2>4 DEF SumStep
  <2>5. CASE s # {}
    <3> DEFINE r == s \ {First(s)}
    <3>1. First(s) \in D /\ r \in SUBSET D /\ Cardinality(r) = n - 1 /\ n \in Nat \ {0}
      BY <2>2, <2>5, SmallerRest
    <3>2. n - 1 \in Nat /\ n - 1 \notin Bad
      BY <2>1, <3>1
    <3>3. g[r] \in Nat
      BY <3>1, <3>2
    <3> QED BY <2>2, <2>3, <2>5, <3>1, <3>3 DEF SumStep
  <2> QED BY <2>4, <2>5
<1>6. g[D] \in Nat
  <2>1. Cardinality(D) \notin Bad /\ D \in SUBSET D
    BY <1>5
  <2> QED BY <1>1, <2>1
<1> QED BY <1>4, <1>6

\* What a portfolio can be worth is a number: the drawdown limits compare naturals.
LEMMA TotalsAreNat == Totals \subseteq Nat
<1> SUFFICES ASSUME NEW f \in [Actors -> Values] PROVE SumFunction(f) \in Nat
  BY DEF Totals
<1>1. DOMAIN f = Actors /\ \A a \in Actors : f[a] \in Nat
  BY MoneyAssumption
<1> QED BY <1>1, ActorsAssumption, SumIsNat

-----------------------------------------------------------------------------
(* Money.                                                                    *)

\* The total of a well-typed valuation is a portfolio total.
LEMMA SumIsTotal ==
  ASSUME NEW f \in [Actors -> Values]
  PROVE  SumFunction(f) \in Totals
BY DEF Totals

\* The larger of two numbers is one of them.
LEMMA LargerIsOne == \A a, b : Larger(a, b) \in {a, b}
BY DEF Larger

\* What is realised, marked to market, or left by closing a position stays
\* within the values of an asset.
LEMMA MoneyStaysTyped ==
  ASSUME TypeOK
  PROVE  /\ Total \in Totals /\ MtmTotal \in Totals
         /\ NewPeak \in Totals /\ NewBreakerPeak \in Totals
         /\ \A a \in Actors : Settled(a) \in Values
<1>1. \A a \in Actors : value[a] \in Values /\ value[a] + mark[a] \in Values
  BY DEF TypeOK
<1>2. Total \in Totals
  BY SumIsTotal DEF TypeOK, Total
<1>3. [a \in Actors |-> MtmOf(a)] \in [Actors -> Values]
  BY <1>1 DEF MtmOf
<1>4. MtmTotal \in Totals
  BY <1>3, SumIsTotal DEF MtmTotal
<1>5. NewPeak \in Totals /\ NewBreakerPeak \in Totals
  BY <1>2, LargerIsOne DEF NewPeak, NewBreakerPeak, TypeOK
<1>6. \A a \in Actors : Settled(a) \in Values
  BY <1>1 DEF Settled
<1> QED BY <1>2, <1>4, <1>5, <1>6

\* Closing positions keeps the book well typed.
BookOK ==
  /\ value \in [Actors -> Values] /\ open \subseteq Actors
  /\ mark \in [Actors -> Marks] /\ priced \subseteq Actors
  /\ \A a \in Actors : value[a] + mark[a] \in Values

LEMMA ClosingKeepsTheBook ==
  ASSUME TypeOK, NEW S, ClosePositions(S)
  PROVE  BookOK'
<1>1. \A a \in Actors : Settled(a) \in Values
  BY MoneyStaysTyped
<1>2. value' \in [Actors -> Values]
  BY <1>1 DEF ClosePositions, TypeOK
<1>3. mark' \in [Actors -> Marks]
  BY MoneyAssumption DEF ClosePositions, TypeOK
<1>4. \A a \in Actors : value'[a] + mark'[a] \in Values
  <2> TAKE a \in Actors
  <2>1. CASE a \in S
    <3>1. mark'[a] = 0 /\ value'[a] = Settled(a)
      BY <2>1 DEF ClosePositions
    <3>2. Settled(a) \in Values /\ Settled(a) \in Nat
      BY <1>1, MoneyAssumption
    <3> QED BY <3>1, <3>2
  <2>2. CASE a \notin S
    BY <2>2 DEF ClosePositions, TypeOK
  <2> QED BY <2>1, <2>2
<1>5. open' \subseteq Actors /\ priced' \subseteq Actors
  BY DEF ClosePositions, TypeOK
<1> QED BY <1>2, <1>3, <1>4, <1>5 DEF BookOK

\* One actor's work keeps the book well typed.
LEMMA WorkKeepsTheBook ==
  ASSUME TypeOK, NEW a \in Actors, NEW p \in BOOLEAN, NEW v \in Values,
         NEW o \in BOOLEAN, NEW m \in Marks, Worked(a, p, v, o, m)
  PROVE  BookOK'
<1>1. value' \in [Actors -> Values] /\ mark' \in [Actors -> Marks]
  BY DEF Worked, TypeOK
<1>2. v + m \in Values
  BY MoneyAssumption DEF Worked
<1>3. \A b \in Actors : value'[b] + mark'[b] \in Values
  <2> TAKE b \in Actors
  <2>1. CASE b = a
    BY <2>1, <1>2 DEF Worked, TypeOK
  <2>2. CASE b # a
    BY <2>2 DEF Worked, TypeOK
  <2> QED BY <2>1, <2>2
<1>4. open' \subseteq Actors /\ priced' \subseteq Actors
  BY DEF Worked, TypeOK
<1> QED BY <1>1, <1>3, <1>4 DEF BookOK

-----------------------------------------------------------------------------
(* Type correctness.  An actor that is not halted still has a failure to     *)
(* spend, so the failure counter cannot leave its bound: TypeOK is inductive *)
(* only together with HealthTracksFailures.                                  *)

TypeInv == TypeOK /\ HealthTracksFailures

LEMMA Zeros == 0 \in Totals /\ 0 \in 0..MaxLosses /\ 0 \in 0..UnhaltCycles
               /\ 0 \in 0..MaxFailures /\ 0 \in 0..MaxRestarts /\ 0 \in 0..MaxRefusals
               /\ 0 \in Marks
BY CountsAssumption, MoneyAssumption DEF Totals

\* Actors that are all GREEN with no failures satisfy the invariant.
LEMMA GreenIsTyped ==
  /\ [a \in Actors |-> "GREEN"] \in [Actors -> Healths]
  /\ [a \in Actors |-> 0] \in [Actors -> 0..MaxFailures]
  /\ [a \in Actors |-> "pending"] \in [Actors -> Results]
BY Zeros DEF Healths, Results

LEMMA InitTypeInv == Init => TypeInv
<1> SUFFICES ASSUME Init PROVE TypeInv
  OBVIOUS
<1>1. /\ value \in [Actors -> Values] /\ mark \in [Actors -> Marks]
      /\ \A a \in Actors : value[a] + mark[a] \in Values
  BY MoneyAssumption DEF Init
<1>2. disk \in [halt : BOOLEAN, reason : Reasons, peak : Totals,
               losses : 0..MaxLosses, open : SUBSET Actors,
               value : [Actors -> Values]]
  BY MoneyAssumption, Zeros DEF Init, NoSnapshot, Reasons
<1>3. {cycleEquity, peak, prev, breakerPeak} \subseteq Totals
  BY Zeros DEF Init
<1>4. health \in [Actors -> Healths] /\ failures \in [Actors -> 0..MaxFailures]
      /\ result \in [Actors -> Results]
  BY GreenIsTyped DEF Init
<1>4a. elapsed \in 0..2 /\ losses \in 0..MaxLosses /\ recovery \in 0..UnhaltCycles
       /\ refused \in 0..MaxRefusals /\ restarts \in 0..MaxRestarts
  BY Zeros DEF Init
<1>5. TypeOK
  BY <1>1, <1>2, <1>3, <1>4, <1>4a DEF Init, TypeOK, Phases, Reasons
<1>6. HealthTracksFailures
  BY CountsAssumption DEF Init, HealthTracksFailures
<1> QED BY <1>5, <1>6 DEF TypeInv

\* The counters stay within their bounds.
LEMMA CountersStayTyped ==
  ASSUME TypeOK
  PROVE  /\ NewLosses \in 0..MaxLosses
         /\ ~Lifts => NextRecovery \in 0..UnhaltCycles
<1>1. NewLosses \in 0..MaxLosses
  BY CountsAssumption DEF NewLosses, TypeOK
<1>2. ~Lifts => NextRecovery \in 0..UnhaltCycles
  BY CountsAssumption, Z3 DEF NextRecovery, Lifts, TypeOK
<1> QED BY <1>1, <1>2

\* One case per action: whatever it does not mention it leaves alone.
LEMMA NextTypeOK ==
  ASSUME TypeInv, [Next]_vars
  PROVE  TypeOK'
<1>0. TypeOK /\ HealthTracksFailures
  BY DEF TypeInv
<1> USE <1>0
<1> USE DEF actorVars, bookVars, breakerVars, haltVars, cycleVars, diskVars
<1>1. CASE SaveState
  <2>1. disk' \in [halt : BOOLEAN, reason : Reasons, peak : Totals,
                  losses : 0..MaxLosses, open : SUBSET Actors,
                  value : [Actors -> Values]]
    BY <1>1, MoneyAssumption DEF SaveState, Snapshot, TypeOK
  <2> QED BY <1>1, <2>1, Zeros DEF SaveState, TypeOK, Phases
<1>2. CASE HaltedCycle
  BY <1>2, CountersStayTyped DEF HaltedCycle, TypeOK, Phases
<1>3. CASE AutoUnhalt
  BY <1>3, GreenIsTyped, Zeros
  DEF AutoUnhalt, ClearHalt, ResetActors, TypeOK, Phases, Reasons
<1>4. CASE PrePhase
  BY <1>4, MoneyStaysTyped DEF PrePhase, TypeOK, Phases, Results, Breached
<1>5. ASSUME NEW a \in Actors, ActorCycle(a)
      PROVE  TypeOK'
  <2>1. PICK p \in BOOLEAN, v \in Values, o \in BOOLEAN, m \in Marks : Worked(a, p, v, o, m)
    BY <1>5 DEF ActorCycle
  <2>2. BookOK'
    BY <2>1, WorkKeepsTheBook
  <2>3. failures' \in [Actors -> 0..MaxFailures]
    <3>1. failures[a] \in 0..MaxFailures /\ failures[a] < MaxFailures
      BY <1>5, CountsAssumption DEF ActorCycle, Called, HealthTracksFailures, TypeOK
    <3> QED BY <1>5, <3>1, Zeros, CountsAssumption DEF ActorCycle, TypeOK
  <2>4. health' \in [Actors -> Healths] /\ result' \in [Actors -> Results]
    BY <1>5 DEF ActorCycle, TypeOK, Healths, Results
  <2>5. UNCHANGED <<phase, exposed, cycleEquity, elapsed, peak, prev, breakerPeak, losses,
                    lossToday, halt, reason, recovery, disk, refused, restarts>>
    BY <1>5 DEF ActorCycle
  <2> QED BY <2>2, <2>3, <2>4, <2>5 DEF BookOK, TypeOK
<1>6. ASSUME NEW a \in Actors, SkipHalted(a)
      PROVE  TypeOK'
  BY <1>6 DEF SkipHalted, TypeOK, Results
<1>7. CASE AdmissionReview \/ AdmissionRaises
  BY <1>7 DEF AdmissionReview, AdmissionRaises, TypeOK, Phases, Results
<1>8. CASE TripDrawdown
  <2>1. BookOK'
    BY <1>8, ClosingKeepsTheBook DEF TripDrawdown, FlattenPositions
  <2> QED BY <1>8, <2>1, MoneyStaysTyped
          DEF TripDrawdown, Trip, BookOK, TypeOK, Phases, Reasons, HaltReasons
<1>8a. CASE TripDrawdownRaises
  <2>1. BookOK'
    BY <1>8a, ClosingKeepsTheBook DEF TripDrawdownRaises, FlattenPositions
  <2> QED BY <1>8a, <2>1, MoneyStaysTyped DEF TripDrawdownRaises, BookOK, TypeOK, Phases
<1>9. CASE TripHaltRatio
  BY <1>9, MoneyStaysTyped DEF TripHaltRatio, Trip, TypeOK, Phases, Reasons, HaltReasons
<1>10. CASE TripBreaker
  <2>1. BookOK'
    BY <1>10, ClosingKeepsTheBook DEF TripBreaker, FlattenPositions
  <2> QED BY <1>10, <2>1, MoneyStaysTyped, CountersStayTyped
          DEF TripBreaker, BreakerChecked, Trip, BookOK, TypeOK, Phases, Reasons,
              HaltReasons, LossRecorded
<1>10a. CASE TripBreakerRaises
  <2>1. BookOK'
    BY <1>10a, ClosingKeepsTheBook DEF TripBreakerRaises, FlattenPositions
  <2>2. refused' \in 0..MaxRefusals
    BY <1>10a, CountsAssumption DEF TripBreakerRaises, TypeOK
  <2> QED BY <1>10a, <2>1, <2>2, MoneyStaysTyped, CountersStayTyped
          DEF TripBreakerRaises, BreakerChecked, BookOK, TypeOK, Phases, Reasons,
              HaltReasons, LossRecorded
<1>11. CASE CompleteCycle
  <2>1. BookOK'
    BY <1>11, ClosingKeepsTheBook DEF CompleteCycle
  <2> QED BY <1>11, <2>1, MoneyStaysTyped, CountersStayTyped
          DEF CompleteCycle, BreakerChecked, BookOK, TypeOK, Phases, LossRecorded
<1>12. CASE NextDay
  BY <1>12 DEF NextDay, TypeOK
<1>13. CASE ManualReset
  BY <1>13, GreenIsTyped, Zeros
  DEF ManualReset, ClearHalt, ResetActors, TypeOK, Reasons
<1>14. CASE Restart
  <2>1. disk.value \in [Actors -> Values] /\ disk.open \subseteq Actors
        /\ disk.peak \in Totals /\ disk.losses \in 0..MaxLosses
        /\ disk.reason \in Reasons /\ disk.halt \in BOOLEAN
    BY DEF TypeOK
  <2>2. value' \in [Actors -> Values] /\ mark' \in [Actors -> Marks]
    BY <1>14, <2>1, Zeros DEF Restart, Boot
  <2>3. \A a \in Actors : value'[a] + mark'[a] \in Values
    <3> TAKE a \in Actors
    <3>1. value'[a] \in Nat /\ value'[a] \in Values
      BY <2>2, MoneyAssumption
    <3>2. mark'[a] = 0
      BY <1>14 DEF Restart, Boot
    <3> QED BY <3>1, <3>2
  <2>4. {cycleEquity, peak, prev, breakerPeak}' \subseteq Totals
    BY <1>14, <2>1, Zeros DEF Restart, Boot
  <2>5. restarts' \in 0..MaxRestarts
    BY <1>14, CountsAssumption DEF Restart, TypeOK
  <2>6. health' \in [Actors -> Healths] /\ failures' \in [Actors -> 0..MaxFailures]
        /\ result' \in [Actors -> Results]
    BY <1>14, GreenIsTyped DEF Restart, Boot
  <2>7. disk' = disk /\ refused' = 0
    BY <1>14 DEF Restart, Boot
  <2>8. halt' \in BOOLEAN /\ reason' \in Reasons /\ losses' \in 0..MaxLosses
    BY <1>14, <2>1, Zeros DEF Restart, Boot, Reasons
  <2>9. elapsed' \in 0..2 /\ recovery' \in 0..UnhaltCycles /\ refused' \in 0..MaxRefusals
    BY <1>14, Zeros DEF Restart, Boot
  <2> QED BY <1>14, <2>1, <2>2, <2>3, <2>4, <2>5, <2>6, <2>7, <2>8, <2>9
          DEF Restart, Boot, TypeOK, Phases
<1>15. CASE SaveFails
  BY <1>15, CountsAssumption DEF SaveFails, TypeOK, Phases
<1>16. CASE UNCHANGED vars
  BY <1>16 DEF vars, TypeOK
<1> QED
  BY <1>1, <1>2, <1>3, <1>4, <1>5, <1>6, <1>7, <1>8, <1>8a, <1>9, <1>10,
     <1>10a, <1>11, <1>12, <1>13, <1>14, <1>15, <1>16 DEF Next, CycleStep

LEMMA NextHealthTracksFailures ==
  ASSUME TypeInv, [Next]_vars
  PROVE  HealthTracksFailures'
<1> USE DEF actorVars, HealthTracksFailures
<1>0. TypeOK /\ HealthTracksFailures
  BY DEF TypeInv
<1>1. ASSUME NEW a \in Actors, ActorCycle(a)
      PROVE  HealthTracksFailures'
  <2> SUFFICES ASSUME NEW b \in Actors
               PROVE  health'[b] = "HALTED" <=> failures'[b] >= MaxFailures
    OBVIOUS
  <2>1. CASE b # a
    BY <1>0, <1>1, <2>1 DEF ActorCycle, TypeOK
  <2>2. CASE b = a
    BY <1>0, <1>1, <2>2, CountsAssumption DEF ActorCycle, TypeOK
  <2> QED BY <2>1, <2>2
<1>2. CASE AutoUnhalt \/ ManualReset
  BY <1>2, CountsAssumption DEF AutoUnhalt, ManualReset, ResetActors
<1>3. CASE Restart
  BY <1>3, CountsAssumption DEF Restart, Boot
<1>4. CASE UNCHANGED <<health, failures>>
  BY <1>0, <1>4
<1>5. ASSUME NEW a \in Actors, SkipHalted(a)
      PROVE  UNCHANGED <<health, failures>>
  BY <1>5 DEF SkipHalted
<1> QED
  BY <1>1, <1>2, <1>3, <1>4, <1>5
  DEF Next, CycleStep, vars, SaveState, SaveFails, HaltedCycle, PrePhase, AdmissionReview,
      AdmissionRaises, TripDrawdown, TripDrawdownRaises, TripHaltRatio, TripBreaker,
      TripBreakerRaises, CompleteCycle, NextDay

LEMMA TypeInvariant == Spec => []TypeInv
<1>1. TypeInv /\ [Next]_vars => TypeInv'
  BY NextTypeOK, NextHealthTracksFailures DEF TypeInv
<1> QED BY InitTypeInv, <1>1, PTL DEF Spec

\* Every state the orchestrator reaches is well typed: in particular counters
\* stay within their limits and no position can take an asset out of Values.
THEOREM TypeCorrect == Spec => []TypeOK
BY TypeInvariant, PTL DEF TypeInv

\* An actor is halted exactly when its failures are used up, through every
\* reset, skipped cycle and restart.
THEOREM HealthTracks == Spec => []HealthTracksFailures
BY TypeInvariant, PTL DEF TypeInv

-----------------------------------------------------------------------------
(* The emergency halt.  HaltIsDurable speaks of one phase only, and needs    *)
(* HaltStopsTheCycle to be inductive: a cycle that returned without a save   *)
(* must not have been a halted one.                                          *)

HaltInv == HaltStopsTheCycle /\ HaltIsDurable /\ RecoveryIsEarned

LEMMA InitHaltInv == Init => HaltInv
BY DEF Init, HaltInv, HaltStopsTheCycle, HaltIsDurable, RecoveryIsEarned

\* Whether a halt counts as recovered depends on the reason, the warmth of
\* the engine, the peak and the cycle's equity, and on nothing else.
LEMMA RecoveryDependsOn ==
  ASSUME UNCHANGED <<reason, elapsed, peak, cycleEquity>>
  PROVE  (CanCount <=> CanCount') /\ (Recovered <=> Recovered')
BY DEF CanCount, Recovered

LEMMA NextHaltInv ==
  ASSUME TypeInv, HaltInv, [Next]_vars
  PROVE  HaltInv'
<1>0. HaltStopsTheCycle /\ HaltIsDurable /\ RecoveryIsEarned /\ recovery \in 0..UnhaltCycles
  BY DEF HaltInv, TypeInv, TypeOK
<1> USE <1>0
<1> USE DEF HaltInv, HaltStopsTheCycle, HaltIsDurable, RecoveryIsEarned, actorVars,
            bookVars, breakerVars, haltVars, cycleVars, diskVars
<1>1. CASE SaveState
  BY <1>1, RecoveryDependsOn DEF SaveState, Snapshot
<1>2. CASE HaltedCycle
  <2>1. (CanCount <=> CanCount') /\ (Recovered <=> Recovered')
    BY <1>2, RecoveryDependsOn DEF HaltedCycle
  <2>2. recovery' > 0 => CanCount /\ Recovered
    BY <1>2 DEF HaltedCycle, NextRecovery
  <2> QED BY <1>2, <2>1, <2>2 DEF HaltedCycle
<1>3. CASE AutoUnhalt
  BY <1>3 DEF AutoUnhalt, ClearHalt
<1>4. CASE PrePhase
  BY <1>4 DEF PrePhase, MayStart
<1>5. ASSUME NEW a \in Actors, ActorCycle(a)
      PROVE  HaltInv'
  BY <1>5 DEF ActorCycle
<1>6. ASSUME NEW a \in Actors, SkipHalted(a)
      PROVE  HaltInv'
  BY <1>6 DEF SkipHalted
<1>7. CASE AdmissionReview \/ AdmissionRaises
  BY <1>7 DEF AdmissionReview, AdmissionRaises
<1>8. CASE TripDrawdown
  BY <1>8 DEF TripDrawdown, Trip
<1>8a. CASE TripDrawdownRaises
  BY <1>8a DEF TripDrawdownRaises
<1>9. CASE TripHaltRatio
  BY <1>9 DEF TripHaltRatio, Trip
<1>10. CASE TripBreaker
  BY <1>10 DEF TripBreaker, BreakerChecked, Trip
<1>10a. CASE TripBreakerRaises
  <2>1. refused' # 0
    BY <1>10a DEF TripBreakerRaises, TypeInv, TypeOK
  <2>2. ~(recovery' > 0)
    BY <1>10a DEF TripBreakerRaises, BreakerChecked
  <2> QED BY <1>10a, <2>1, <2>2 DEF TripBreakerRaises
<1>11. CASE CompleteCycle
  BY <1>11 DEF CompleteCycle, BreakerChecked
<1>12. CASE NextDay
  BY <1>12, RecoveryDependsOn DEF NextDay
<1>13. CASE ManualReset
  BY <1>13 DEF ManualReset, ClearHalt
<1>14. CASE Restart
  BY <1>14 DEF Restart, Boot
<1>15. CASE SaveFails
  <2>1. refused' # 0
    BY <1>15 DEF SaveFails, TypeInv, TypeOK
  <2> QED BY <1>15, <2>1, RecoveryDependsOn DEF SaveFails
<1>16. CASE UNCHANGED vars
  BY <1>16, RecoveryDependsOn DEF vars
<1> QED
  BY <1>1, <1>2, <1>3, <1>4, <1>5, <1>6, <1>7, <1>8, <1>8a, <1>9, <1>10,
     <1>10a, <1>11, <1>12, <1>13, <1>14, <1>15, <1>16 DEF Next, CycleStep

\* The inductive invariant of the cycle.
CycleInv == TypeInv /\ HaltInv

LEMMA CycleInvariant == Spec => []CycleInv
<1>1. Init => CycleInv
  BY InitTypeInv, InitHaltInv DEF CycleInv
<1>2. CycleInv /\ [Next]_vars => CycleInv'
  BY NextTypeOK, NextHealthTracksFailures, NextHaltInv
  DEF CycleInv, TypeInv
<1> QED BY <1>1, <1>2, PTL DEF Spec

\* A halted engine runs no part of a cycle that can touch a position.
THEOREM HaltStops == Spec => []HaltStopsTheCycle
BY CycleInvariant, PTL DEF CycleInv, HaltInv

\* A halt is on disk, whole, whenever the monitor loop is at its top and the
\* disk took the last snapshot, so that then no crash can lose it.
THEOREM HaltSurvives == Spec => []HaltIsDurable
BY CycleInvariant, PTL DEF CycleInv, HaltInv

\* A recovery count belongs to the halt that is standing, and was earned above
\* the threshold.
THEOREM RecoveryEarned == Spec => []RecoveryIsEarned
BY CycleInvariant, PTL DEF CycleInv, HaltInv

-----------------------------------------------------------------------------
(* What a step may not do to a halted engine, or to a halted actor.          *)

\* Only the loop's own bookkeeping steps are left while a halt stands.
LEMMA HaltedSteps ==
  ASSUME HaltInv, [Next]_vars, halt, restarts' = restarts
  PROVE  SaveState \/ SaveFails \/ HaltedCycle \/ AutoUnhalt \/ NextDay \/ ManualReset \/ Restart
         \/ UNCHANGED vars
BY DEF HaltInv, HaltStopsTheCycle, Next, CycleStep, PrePhase, MayStart, ActorCycle, SkipHalted,
       AdmissionReview, AdmissionRaises, TripDrawdown, TripDrawdownRaises, TripHaltRatio,
       TripBreaker, TripBreakerRaises, CompleteCycle, BreakerChecked

LEMMA RestartIsCounted ==
  ASSUME TypeInv, Restart
  PROVE  restarts' # restarts
BY CountsAssumption DEF TypeInv, TypeOK, Restart

\* While a halt stands nothing that its lifting is decided on can change: the
\* equity marked before the trip is what every later cycle looks at.
THEOREM HaltFreezes == Spec => HaltFreezesTheBook
<1>1. ASSUME CycleInv, [Next]_vars, halt, halt', restarts' = restarts
      PROVE  UNCHANGED <<value, open, cycleEquity, peak, losses>>
  <2>1. SaveState \/ SaveFails \/ HaltedCycle \/ NextDay \/ UNCHANGED vars
    BY <1>1, HaltedSteps, RestartIsCounted DEF CycleInv, AutoUnhalt, ManualReset, ClearHalt
  <2> QED BY <2>1 DEF SaveState, SaveFails, HaltedCycle, NextDay, vars, bookVars, breakerVars,
                      haltVars, cycleVars
<1>2. CycleInv /\ [Next]_vars
        => [halt /\ halt' /\ restarts' = restarts
              => UNCHANGED <<value, open, cycleEquity, peak, losses>>]_vars
  BY <1>1
<1> QED BY <1>2, CycleInvariant, PTL DEF Spec, HaltFreezesTheBook

\* A halted actor comes back only with its engine, and until then nothing but
\* phase 3 of the cycle touches its position: the probe of README.md:461 never
\* comes (HaltedActorsAreProbed).
THEOREM HaltedActorsIsolated == Spec => HaltedActorsAreIsolated
<1> DEFINE Alone(a) ==
      restarts' = restarts =>
        /\ health'[a] # "HALTED" => halt /\ ~halt'
        /\ value'[a] # value[a] \/ (a \in open' <=> a \notin open) => phase = "portfolio"
<1>1. ASSUME CycleInv, [Next]_vars, NEW a \in HaltedActors
      PROVE  Alone(a)
  <2> SUFFICES ASSUME restarts' = restarts
               PROVE  /\ health'[a] # "HALTED" => halt /\ ~halt'
                      /\ value'[a] # value[a] \/ (a \in open' <=> a \notin open)
                           => phase = "portfolio"
    OBVIOUS
  <2>0. a \in Actors /\ health[a] = "HALTED" /\ TypeOK /\ HaltStopsTheCycle
    BY <1>1 DEF HaltedActors, CycleInv, TypeInv, HaltInv
  <2> USE <2>0
  <2> USE DEF actorVars, bookVars, breakerVars, haltVars, cycleVars
  <2>1. ASSUME NEW b \in Actors, ActorCycle(b)
        PROVE  UNCHANGED <<health[a], value[a]>> /\ (a \in open' <=> a \in open)
    <3>1. b # a
      BY <2>1 DEF ActorCycle, Called
    <3>2. PICK p \in BOOLEAN, v \in Values, o \in BOOLEAN, m \in Marks :
             Worked(b, p, v, o, m)
      BY <2>1 DEF ActorCycle
    <3>3. value'[a] = value[a] /\ (a \in open' <=> a \in open)
      BY <3>1, <3>2 DEF Worked, TypeOK
    <3>4. health'[a] = health[a]
      BY <2>1, <3>1 DEF ActorCycle, TypeOK
    <3> QED BY <3>3, <3>4
  <2>2. CASE AutoUnhalt \/ ManualReset
    BY <2>2 DEF AutoUnhalt, ManualReset, ClearHalt
  <2>3. CASE AdmissionReview \/ AdmissionRaises
    BY <2>3 DEF AdmissionReview, AdmissionRaises
  <2>4. CASE \/ TripDrawdown \/ TripDrawdownRaises \/ TripBreaker \/ TripBreakerRaises
             \/ CompleteCycle
    <3>1. phase = "portfolio" /\ UNCHANGED health
      BY <2>4 DEF TripDrawdown, TripDrawdownRaises, TripBreaker, TripBreakerRaises,
                  CompleteCycle, BreakerChecked
    <3> QED BY <3>1
  <2>5. CASE UNCHANGED <<health, value, open>>
    BY <2>5
  <2>6. ASSUME NEW b \in Actors, SkipHalted(b)
        PROVE  UNCHANGED <<health, value, open>>
    BY <2>6 DEF SkipHalted
  <2>7. ~Restart
    BY <1>1, RestartIsCounted DEF CycleInv
  <2> QED
    BY <1>1, <2>1, <2>2, <2>3, <2>4, <2>5, <2>6, <2>7
    DEF Next, CycleStep, vars, SaveState, SaveFails, HaltedCycle, PrePhase, TripHaltRatio,
        NextDay
<1>2. CycleInv /\ [Next]_vars => [\A a \in HaltedActors : Alone(a)]_vars
  BY <1>1
<1>3. [\A a \in HaltedActors : Alone(a)]_vars
      => [\A a \in HaltedActors : restarts' = restarts =>
            /\ health'[a] # "HALTED" => halt /\ ~halt'
            /\ value'[a] # value[a] \/ (a \in open' <=> a \notin open)
                 => phase = "portfolio"]_vars
  OBVIOUS
<1> QED BY <1>2, <1>3, CycleInvariant, PTL DEF Spec, HaltedActorsAreIsolated

-----------------------------------------------------------------------------
(* The peaks.  The breaker's second drawdown line is below the orchestrator's *)
(* and its peak never above the other one, so it is never the first to trip.  *)

LEMMA ProductsGrow ==
  ASSUME NEW x \in Nat, NEW y \in Nat, x <= y, NEW q \in Nat
  PROVE  x * q <= y * q
<1>1. PICK d \in Nat : y = x + d
  <2>1. y - x \in Nat /\ y = x + (y - x)
    OBVIOUS
  <2> QED BY <2>1
<1>2. y * q = x * q + d * q /\ d * q \in Nat /\ x * q \in Nat
  BY <1>1
<1> QED BY <1>2

\* What breaches a higher limit from a lower peak breaches a lower limit from a
\* higher one.
LEMMA BreachesSpread ==
  ASSUME NEW v \in Nat, NEW p \in Nat, NEW q \in Nat, q <= p,
         Breached(v, q, BreakerLimit)
  PROVE  Breached(v, p, DrawdownLimit)
<1> DEFINE x == 100 - BreakerLimit
           y == 100 - DrawdownLimit
<1>1. x \in Nat /\ y \in Nat /\ x <= y
  BY LimitsAssumption
<1>2. x * q <= y * q /\ q * y <= p * y
  BY <1>1, ProductsGrow
<1>3. y * q = q * y /\ p * y = y * p
  BY <1>1
<1>4. 100 * v <= x * q /\ p > 0
  BY DEF Breached
<1>5. x * q \in Int /\ y * q \in Int /\ y * p \in Int /\ q * y \in Int /\ 100 * v \in Int
  BY <1>1
<1>6. 100 * v <= y * p
  <2> HIDE DEF x, y
  <2> QED BY <1>2, <1>3, <1>4, <1>5
<1> QED BY <1>4, <1>6 DEF Breached

\* Both peaks only grow, and keep their order.
LEMMA PeaksGrow ==
  ASSUME TypeOK, breakerPeak <= peak
  PROVE  /\ NewPeak >= peak /\ breakerPeak <= NewPeak
         /\ NewBreakerPeak <= NewPeak
         /\ Breached(Total, NewBreakerPeak, BreakerLimit)
              => Breached(Total, NewPeak, DrawdownLimit)
<1>1. /\ peak \in Nat /\ breakerPeak \in Nat /\ Total \in Nat
      /\ NewPeak \in Nat /\ NewBreakerPeak \in Nat
  BY TotalsAreNat, MoneyStaysTyped DEF TypeOK
<1>2. NewPeak >= peak /\ breakerPeak <= NewPeak /\ NewBreakerPeak <= NewPeak
  BY <1>1 DEF NewPeak, NewBreakerPeak, Larger
<1> QED BY <1>1, <1>2, BreachesSpread

\* A restart may resume a halt that a loss streak has caused, so the invariant
\* speaks of the snapshot, too.
ShadowInv ==
  /\ BreakerIsShadowed
  /\ disk.halt /\ disk.reason = "consecutive_losses" => disk.losses >= MaxLosses

LEMMA InitShadowInv == Init => ShadowInv
BY DEF Init, ShadowInv, BreakerIsShadowed, NoSnapshot

LEMMA NextShadowInv ==
  ASSUME CycleInv, ShadowInv, [Next]_vars
  PROVE  ShadowInv'
<1>0. TypeOK /\ HaltStopsTheCycle /\ breakerPeak <= peak
  BY DEF CycleInv, TypeInv, HaltInv, ShadowInv, BreakerIsShadowed
<1> USE <1>0
<1> USE DEF ShadowInv, BreakerIsShadowed, HaltStopsTheCycle, actorVars, bookVars,
            breakerVars, haltVars, cycleVars, diskVars
<1>1. CASE SaveState
  BY <1>1 DEF SaveState, Snapshot
<1>2. CASE AutoUnhalt \/ ManualReset
  BY <1>2 DEF AutoUnhalt, ManualReset, ClearHalt
<1>3. CASE TripDrawdown
  BY <1>3, PeaksGrow DEF TripDrawdown, Trip
<1>3a. CASE TripDrawdownRaises
  BY <1>3a, PeaksGrow DEF TripDrawdownRaises
<1>4. CASE TripHaltRatio
  BY <1>4, PeaksGrow DEF TripHaltRatio, Trip
<1>5. CASE TripBreaker \/ TripBreakerRaises
  <2>1. NewLosses >= MaxLosses
    BY <1>5, PeaksGrow DEF TripBreaker, TripBreakerRaises, BreakerChecked, BreakerVerdict
  <2>2. breakerPeak' <= peak'
    BY <1>5, PeaksGrow DEF TripBreaker, TripBreakerRaises, BreakerChecked
  <2>3. losses' = NewLosses /\ UNCHANGED disk
    BY <1>5 DEF TripBreaker, TripBreakerRaises, BreakerChecked
  <2> QED BY <2>1, <2>2, <2>3
<1>6. CASE CompleteCycle
  <2>1. ~halt' /\ UNCHANGED disk
    BY <1>6 DEF CompleteCycle, BreakerChecked
  <2>2. breakerPeak' <= peak'
    BY <1>6, PeaksGrow DEF CompleteCycle, BreakerChecked
  <2> QED BY <2>1, <2>2
<1>7. CASE Restart
  <2>0. disk.peak \in Nat
    BY TotalsAreNat DEF TypeOK
  <2>1. disk' = disk /\ halt' = disk.halt /\ breakerPeak' = peak' /\ peak' \in Nat
    BY <1>7, <2>0 DEF Restart, Boot
  <2>2. halt' => reason' = disk.reason /\ losses' = disk.losses
    BY <1>7 DEF Restart, Boot
  <2> QED BY <2>1, <2>2
<1>8. CASE UNCHANGED <<peak, breakerPeak, losses, halt, reason, disk>>
  BY <1>8
<1>9. ASSUME NEW a \in Actors, ActorCycle(a) \/ SkipHalted(a)
      PROVE  UNCHANGED <<peak, breakerPeak, losses, halt, reason, disk>>
  BY <1>9 DEF ActorCycle, SkipHalted
<1> QED
  BY <1>1, <1>2, <1>3, <1>3a, <1>4, <1>5, <1>6, <1>7, <1>8, <1>9
  DEF Next, CycleStep, vars, SaveFails, HaltedCycle, PrePhase, AdmissionReview,
      AdmissionRaises, NextDay

LEMMA ShadowInvariant == Spec => []ShadowInv
BY InitShadowInv, NextShadowInv, CycleInvariant, PTL DEF Spec

\* The breaker never trips on its own drawdown line: what it halts for, and
\* what it records, is a loss streak, before and after a restart.
THEOREM ShadowedBreaker == Spec => []BreakerIsShadowed
BY ShadowInvariant, PTL DEF ShadowInv

\* Only a restart lowers the high-water mark, and not one that resumes a halt
\* whose snapshot is on the disk.
THEOREM KeptPeak == Spec => PeakIsKept
<1>1. ASSUME CycleInv, ShadowInv, [Next]_vars, peak' < peak
      PROVE  restarts' # restarts /\ ~(halt /\ phase = "ready" /\ refused = 0)
  <2>0. TypeOK /\ TypeInv /\ HaltIsDurable /\ peak \in Nat /\ breakerPeak <= peak
    BY <1>1, TotalsAreNat
    DEF CycleInv, TypeInv, HaltInv, TypeOK, ShadowInv, BreakerIsShadowed
  <2>1. ~(peak' = peak) /\ ~(peak' = NewPeak)
    <3>1. NewPeak >= peak
      BY <2>0, PeaksGrow
    <3>2. NewPeak \in Nat
      BY <2>0, MoneyStaysTyped, TotalsAreNat
    <3> QED BY <1>1, <2>0, <3>1, <3>2
  <2>2. Restart
    BY <1>1, <2>1
    DEF Next, CycleStep, vars, actorVars, bookVars, breakerVars, haltVars, cycleVars, diskVars,
        SaveState, SaveFails, HaltedCycle, AutoUnhalt, ManualReset, PrePhase, ActorCycle,
        SkipHalted, AdmissionReview, AdmissionRaises, TripDrawdown, TripDrawdownRaises,
        TripHaltRatio, TripBreaker, TripBreakerRaises, BreakerChecked, CompleteCycle, NextDay
  <2>3. ~(halt /\ phase = "ready" /\ refused = 0)
    BY <2>0, <2>1, <2>2 DEF HaltIsDurable, Restart, Boot
  <2> QED BY <2>0, <2>2, <2>3, RestartIsCounted
<1>2. CycleInv /\ ShadowInv /\ [Next]_vars
        => [peak' < peak => /\ restarts' # restarts
                            /\ ~(halt /\ phase = "ready" /\ refused = 0)]_vars
  BY <1>1
<1> QED BY <1>2, CycleInvariant, ShadowInvariant, PTL DEF Spec, PeakIsKept

-----------------------------------------------------------------------------
(* The cycle implements the abstract emergency halt.  Starting a cycle maps  *)
(* to Begin only because HaltStopsTheCycle keeps "pre" free of a halt.       *)

LEMMA SwitchStep ==
  ASSUME CycleInv, [Next]_vars
  PROVE  [Switch!Next]_(Switch!vars)
<1>0. HaltStopsTheCycle /\ HaltIsDurable /\ halt \in BOOLEAN /\ disk.halt \in BOOLEAN
  BY DEF CycleInv, HaltInv, TypeInv, TypeOK
<1> USE <1>0 DEF HaltStopsTheCycle, HaltIsDurable, actorVars, bookVars, breakerVars,
                 haltVars, cycleVars, diskVars, Switch!vars
<1>1. CASE SaveState
  <2>1. disk'.halt = halt /\ UNCHANGED halt /\ phase \in {"boot", "save"} /\ phase' = "ready"
    BY <1>1 DEF SaveState, Snapshot
  <2> QED BY <2>1 DEF Switch!Next, Switch!Save
<1>2. CASE HaltedCycle
  BY <1>2 DEF HaltedCycle
<1>3. CASE AutoUnhalt
  BY <1>3 DEF AutoUnhalt, ClearHalt, Switch!Next, Switch!Lift
<1>4. CASE PrePhase
  <2>1. ~halt /\ phase \in {"pre", "ready"} /\ phase' = "signal" /\ UNCHANGED <<halt, disk>>
    BY <1>4 DEF PrePhase, MayStart
  <2> QED BY <2>1 DEF Switch!Next, Switch!Begin
<1>5. ASSUME NEW a \in Actors, ActorCycle(a) \/ SkipHalted(a)
      PROVE  UNCHANGED Switch!vars
  BY <1>5 DEF ActorCycle, SkipHalted
<1>6. CASE AdmissionReview
  BY <1>6 DEF AdmissionReview
<1>6a. CASE AdmissionRaises
  <2>1. phase = "signal" /\ phase' = "ready" /\ UNCHANGED <<halt, disk>>
    BY <1>6a DEF AdmissionRaises
  <2> QED BY <2>1 DEF Switch!Next, Switch!Complete
<1>7. CASE TripDrawdown \/ TripHaltRatio \/ TripBreaker
  <2>1. phase = "portfolio" /\ phase' = "save" /\ halt' = TRUE /\ UNCHANGED disk
    BY <1>7 DEF TripDrawdown, TripHaltRatio, TripBreaker, BreakerChecked, Trip
  <2> QED BY <2>1 DEF Switch!Next, Switch!Trip
<1>7a. CASE TripBreakerRaises
  <2>1. phase = "portfolio" /\ phase' = "ready" /\ halt' = TRUE /\ UNCHANGED disk
    BY <1>7a DEF TripBreakerRaises, BreakerChecked
  <2> QED BY <2>1 DEF Switch!Next, Switch!Trip
<1>8. CASE CompleteCycle \/ TripDrawdownRaises
  <2>1. phase = "portfolio" /\ phase' \in {"save", "ready"} /\ UNCHANGED <<halt, disk>>
    BY <1>8 DEF CompleteCycle, TripDrawdownRaises, BreakerChecked
  <2> QED BY <2>1 DEF Switch!Next, Switch!Complete
<1>9. CASE NextDay
  BY <1>9 DEF NextDay
<1>10. CASE ManualReset
  BY <1>10 DEF ManualReset, ClearHalt, Switch!Next, Switch!Lift
<1>11. CASE Restart
  <2>1. phase' = "boot" /\ halt' = disk.halt /\ disk' = disk
    BY <1>11 DEF Restart, Boot
  <2> QED BY <2>1 DEF Switch!Next, Switch!Crash
<1>12. CASE SaveFails
  BY <1>12 DEF SaveFails
<1>13. CASE UNCHANGED vars
  BY <1>13 DEF vars
<1> QED
  BY <1>1, <1>2, <1>3, <1>4, <1>5, <1>6, <1>6a, <1>7, <1>7a, <1>8, <1>9, <1>10, <1>11, <1>12,
     <1>13 DEF Next, CycleStep

\* Every behaviour of the orchestrator is one of EmergencyHalt: what the halt
\* promises holds through trips, automatic and manual resets, and crashes.
THEOREM Refinement == Spec => ImplementsEmergencyHalt
<1>1. Init => Switch!Init
  BY DEF Init, NoSnapshot, Switch!Init
<1> QED BY <1>1, SwitchStep, CycleInvariant, PTL
        DEF Spec, ImplementsEmergencyHalt, Switch!Spec
=============================================================================
