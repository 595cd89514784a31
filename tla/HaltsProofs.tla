---------------------------- MODULE HaltsProofs ----------------------------
(***************************************************************************)
(* Theorems about Halts, for every length of a drought and of the lock.    *)
(***************************************************************************)
EXTENDS Halts, TLAPS

-----------------------------------------------------------------------------
(* The validity score.                                                       *)

\* What is held against an asset costs a natural number of points.
LEMMA PenaltyBounds ==
  ASSUME NEW c \in {"drawdown", "factor", "drought", "drift", "liquidity", "psi"}
  PROVE  Penalised(c) \in 0..25
BY DEF Penalised, Penalty

LEMMA TotalIsNat ==
  ASSUME TypeOK
  PROVE  /\ Total \in Nat /\ Instability \in 0..25 /\ DriftPenalty \in 0..28
<1>1. Instability \in 0..25
  <2>1. stability = Never \/ stability \in Instabilities
    BY DEF TypeOK
  <2>2. CASE stability = Never
    BY <2>2 DEF Instability
  <2>3. CASE stability # Never
    BY <2>1, <2>3, HaltsAssumption DEF Instability
  <2> QED BY <2>2, <2>3
<1>2. DriftPenalty \in 0..28
  BY DEF DriftPenalty
<1>3. /\ Penalised("drawdown") \in Nat /\ Penalised("factor") \in Nat
      /\ Penalised("drought") \in Nat /\ Penalised("drift") \in Nat
      /\ Penalised("liquidity") \in Nat
  BY PenaltyBounds
<1>4. Instability \in Nat /\ DriftPenalty \in Nat
  BY <1>1, <1>2
<1>5. Total \in Nat
  BY <1>3, <1>4 DEF Total
<1> QED BY <1>1, <1>2, <1>5

\* The score stays on the scale, and so does what inertia makes of it.
LEMMA ScoreBounds ==
  ASSUME TypeOK
  PROVE  Score \in 0..80
BY TotalIsNat DEF Score

\* How an update weighs the score of the moment, s, and the scores before.
LEMMA Weighed ==
  ASSUME NEW s \in 0..80, NEW old \in 0..20
  PROVE  /\ (s + 2) \div 4 \in 0..20
         /\ (7 * s + 12 * old + 20) \div 40 \in 0..20
         /\ s > 70 /\ old >= 8 => (7 * s + 12 * old + 20) \div 40 >= 15
OBVIOUS

LEMMA InertBounds ==
  ASSUME TypeOK
  PROVE  Inert \in 0..20
<1>0. Score \in 0..80
  BY ScoreBounds
<1>1. CASE smoothed = Never
  BY <1>0, <1>1, Weighed DEF Inert
<1>2. CASE smoothed # Never
  <2>1. smoothed \in 0..20
    BY <1>2 DEF TypeOK
  <2>2. (7 * Score + 12 * smoothed + 20) \div 40 \in 0..20
    BY <1>0, <2>1, Weighed
  <2> QED BY <1>2, <2>2 DEF Inert
<1> QED BY <1>1, <1>2

LEMMA ProposedIsAState ==
  ASSUME validity \in {"GREEN", "YELLOW", "RED"}, NEW s \in 0..80
  PROVE  Proposed(s) \in {"GREEN", "YELLOW", "RED"}
BY DEF Proposed

\* An update leaves the machine well typed, whoever asks for it.
LEMMA UpdateTypes ==
  ASSUME TypeOK, UpdateValidity
  PROVE  /\ validity' \in {"GREEN", "YELLOW", "RED"}
         /\ smoothed' \in 0..20 \union {Never}
         /\ periods' \in 0..LockPeriods
<1> DEFINE now == IF periods >= LockPeriods THEN Proposed(4 * Inert) ELSE validity
<1>1. Inert \in 0..20 /\ 4 * Inert \in 0..80
  BY InertBounds
<1>2. now \in {"GREEN", "YELLOW", "RED"}
  BY <1>1, ProposedIsAState DEF TypeOK
<1>3. Counts(now) \in 0..LockPeriods
  BY HaltsAssumption DEF Counts, TypeOK
<1>4. smoothed' = Inert /\ validity' = now /\ periods' = Counts(now)
  BY DEF UpdateValidity
<1> QED BY <1>1, <1>2, <1>3, <1>4

-----------------------------------------------------------------------------
(* Type correctness.                                                         *)

LEMMA InitTypeOK == Init => TypeOK
<1> SUFFICES ASSUME Init PROVE TypeOK
  OBVIOUS
<1>1. periods \in 0..LockPeriods
  BY HaltsAssumption DEF Init
<1>2. age \in Ages /\ smoothed \in 0..20 \union {Never}
  BY DEF Init, Ages
<1> QED BY <1>1, <1>2 DEF Init, TypeOK

LEMMA NextTypeOK ==
  ASSUME TypeOK, [Next]_vars
  PROVE  TypeOK'
<1> USE DEF TypeOK, data, machine
<1>1. CASE UpdatePnl
  <2>1. factor' \in {"none", "fine", "poor"} /\ open' \in BOOLEAN
    BY <1>1 DEF UpdatePnl, AfterExit
  <2>2. /\ pc' = "signal" /\ deep' \in BOOLEAN
        /\ UNCHANGED <<age, stressed, psi, stability, drifting, machine>>
    BY <1>1 DEF UpdatePnl
  <2> QED BY <2>1, <2>2 DEF Ages
<1>2. CASE Skip
  BY <1>2 DEF Skip, Ages
<1>3. CASE Infer
  <2>1. psi' \in {"first"} \union Drifts
    BY <1>3, HaltsAssumption DEF Infer, RenewsPsi
  <2>2. stability' \in {Never} \union Instabilities
    BY <1>3 DEF Infer, Trains
  <2>3. /\ pc' = "validity" /\ stressed' \in BOOLEAN /\ drifting' \in BOOLEAN
        /\ open' \in BOOLEAN /\ deep' = deep /\ UNCHANGED machine
    BY <1>3 DEF Infer
  <2>4. age' \in Ages
    BY <1>3 DEF Infer
  <2>5. factor' \in {"none", "fine", "poor"}
    BY <1>3 DEF Infer, AfterExit
  <2> QED BY <2>1, <2>2, <2>3, <2>4, <2>5
<1>4. CASE Raised
  BY <1>4 DEF Raised, Ages
<1>5. CASE Validity
  BY <1>5, UpdateTypes DEF Validity, Ages
<1>6. CASE GetState
  BY <1>6, UpdateTypes DEF GetState, Ages
<1>7. CASE NewDay
  BY <1>7, HaltsAssumption DEF NewDay, Ages, Never
<1>8. CASE Restart
  <2>1. periods' \in 0..LockPeriods
    BY <1>8, HaltsAssumption DEF Restart
  <2>2. age' \in Ages /\ smoothed' \in 0..20 \union {Never}
    BY <1>8 DEF Restart, Ages
  <2>3. /\ open' \in BOOLEAN /\ deep' \in BOOLEAN /\ drifting' \in BOOLEAN
        /\ factor' \in {"none", "fine", "poor"}
    BY <1>8 DEF Restart, Restored
  <2> QED BY <1>8, <2>1, <2>2, <2>3 DEF Restart
<1>9. CASE UNCHANGED vars
  BY <1>9 DEF vars, Ages
<1> QED BY <1>1, <1>2, <1>3, <1>4, <1>5, <1>6, <1>7, <1>8, <1>9 DEF Next, Cycle

\* The validity machine and its inputs stay well typed: the smoothed score never
\* leaves the scale, however often readers of the state advance it (transition).
THEOREM TypeCorrect == Spec => []TypeOK
BY InitTypeOK, NextTypeOK, PTL DEF Spec

-----------------------------------------------------------------------------
(* What lies behind a halt does not change while it stands.                  *)

\* A latched asset is halted: drift, which halts nothing, does not latch.
LEMMA LatchedIsHalted == Latched => Halted
BY DEF Latched, Halted

LEMMA LatchHolds ==
  ASSUME TypeOK, [Next]_vars, Latched
  PROVE  Latched' \/ Restart \/ UNCHANGED vars
<1>1. CASE UNCHANGED <<open, factor, stressed, psi>>
  BY <1>1 DEF Latched, Fails
<1>2. CASE UpdatePnl
  BY <1>2 DEF UpdatePnl, Latched, Fails
<1>3. ~Infer
  BY LatchedIsHalted DEF Infer, MayInfer
<1> QED BY <1>1, <1>2, <1>3
        DEF Next, Cycle, Skip, Raised, Validity, GetState, NewDay, data

\* Without a position a poor month, a stressed market and drifting features end with
\* the process only, for what renews them is the inference that they keep from running
\* (generate_signal), and the process saves nothing of an asset without a position.
THEOREM Latch == Spec => HaltsLatch
<1>1. TypeOK /\ [Next]_vars => [Latched => Latched' \/ Restart]_vars
  BY LatchHolds
<1> QED BY <1>1, TypeCorrect, PTL DEF Spec, HaltsLatch

-----------------------------------------------------------------------------
(* The way back to GREEN.                                                    *)

LEMMA CleanUpdate ==
  ASSUME TypeOK, Score > 70, smoothed >= 8, UpdateValidity
  PROVE  smoothed' >= 15 /\ (validity = "GREEN" => validity' = "GREEN")
<1>1. Score \in 0..80 /\ smoothed \in 0..20 /\ smoothed # Never
  BY ScoreBounds DEF TypeOK, Never
<1>2. (7 * Score + 12 * smoothed + 20) \div 40 >= 15
  BY <1>1, Weighed
<1>3. Inert >= 15 /\ Inert \in 0..20
  BY <1>1, <1>2, InertBounds DEF Inert
<1>4. 4 * Inert >= 60
  BY <1>3
<1> QED BY <1>3, <1>4 DEF UpdateValidity, Proposed

\* The step on which the way back to GREEN rests: from a smoothed score of 0.32 an
\* asset with at most moderate drifts held against it cannot lose GREEN, and rises to
\* 0.60 at once.  Whoever asks for its state advances it.
THEOREM CleanAssetsStayGreen == Spec => CleanAssetsKeepGreen
<1>1. TypeOK /\ [Next]_vars =>
        [Score > 70 /\ smoothed >= 8 /\ ~Restart =>
           /\ smoothed' >= 15 \/ smoothed' = smoothed
           /\ validity = "GREEN" => validity' = "GREEN"]_vars
  <2> SUFFICES ASSUME TypeOK, Next, Score > 70, smoothed >= 8, ~Restart
               PROVE  /\ smoothed' >= 15 \/ smoothed' = smoothed
                      /\ validity = "GREEN" => validity' = "GREEN"
    OBVIOUS
  <2>1. CASE UpdateValidity
    BY <2>1, CleanUpdate
  <2>2. CASE UNCHANGED machine
    BY <2>2 DEF machine
  <2>3. UpdateValidity \/ UNCHANGED machine
    BY DEF Next, Cycle, UpdatePnl, Skip, Infer, Raised, Validity, GetState, NewDay, machine, data
  <2> QED BY <2>1, <2>2, <2>3
<1> QED BY <1>1, TypeCorrect, PTL DEF Spec, CleanAssetsKeepGreen
====
