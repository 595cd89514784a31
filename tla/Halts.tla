------------------------------- MODULE Halts -------------------------------
(***************************************************************************)
(* What keeps one asset from getting signals: the halt conditions of       *)
(* GovernanceService, the data they are read from, which mostly the        *)
(* inference behind the halt renews, and the ValidityStateMachine that is  *)
(* fed with the same conditions.                                           *)
(*                                                                         *)
(* Scores and penalties are in hundredths, the smoothed score in twenty-     *)
(* fifths, rounded to the nearest.  The orchestrator's health of the actor and   *)
(* what a signal leads to are the subject of Orchestrator and Decision.    *)
(***************************************************************************)
EXTENDS Integers

CONSTANTS Drought,      \* halt_config["signal_drought"], in days
          LockPeriods,  \* regime_lock_periods
          Drifts,       \* bound: what compute_drift can find
          Instabilities \* bound: what the features of a new model can cost

\* A drift is a moderate one of some feature, a severe one of one or two features or,
\* halting, of three or more, or a moderate one with either: mixed, worst.
ASSUME HaltsAssumption ==
  /\ Drought \in Nat /\ LockPeriods \in Nat \ {0} /\ Instabilities \subseteq 0..25
  /\ Drifts \subseteq {"ok", "moderate", "severe", "mixed", "halting", "worst"}
  /\ "ok" \in Drifts

VARIABLES
  pc,         \* update_pnl, generate_signal or _phase_2_validity
  open,       \* pos_mgr.has_position()
  factor,     \* the profit factor of the last month with an exit, or none
  deep,       \* drawdown <= halt_config["drawdown"]
  age,        \* days since last_signal_date, or Never
  stressed,   \* governance._liquidity_halted
  psi,        \* _last_psi_drift, and whether its first computation is due
  stability,  \* _last_stability.penalty, or Never before the training
  drifting,   \* the mean confidence of prob_history is off
  validity,   \* validity_sm.current_state
  smoothed,   \* previous_smoothed_validity, or Never
  periods     \* periods_in_current_state, up to LockPeriods

data == <<factor, deep, age, stressed, psi, stability, drifting>>
machine == <<validity, smoothed, periods>>
vars == <<pc, open, data, machine>>

-----------------------------------------------------------------------------
Never == -1

\* Drought + 1 stands for all that is longer.
Ages == {Never} \union 0..(Drought + 1)

TypeOK ==
  /\ pc \in {"pnl", "signal", "validity"}
  /\ open \in BOOLEAN /\ deep \in BOOLEAN /\ stressed \in BOOLEAN /\ drifting \in BOOLEAN
  /\ factor \in {"none", "fine", "poor"}
  /\ age \in Ages
  /\ psi \in {"first"} \union Drifts
  /\ stability \in {Never} \union Instabilities
  /\ validity \in {"GREEN", "YELLOW", "RED"}
  /\ smoothed \in 0..20 \union {Never}
  /\ periods \in 0..LockPeriods

Init ==
  /\ pc = "pnl" /\ open = FALSE /\ factor = "none" /\ deep = FALSE /\ age = Never
  /\ stressed = FALSE /\ psi = "first" /\ drifting = FALSE
  /\ stability \in {Never} \union Instabilities
  /\ validity = "YELLOW" /\ smoothed = Never /\ periods = 0

-----------------------------------------------------------------------------
\* check_halt_conditions.  The metrics make a profit factor of zero, of a month of
\* losses only, into none.
Fails(c) ==
  \/ c = "drawdown" /\ deep
  \/ c = "factor" /\ factor = "poor"
  \/ c = "drought" /\ age > Drought
  \/ c = "drift" /\ drifting
  \/ c = "liquidity" /\ stressed
  \/ c = "psi" /\ psi \in {"halting", "worst"}

\* Drift is a warning.
Halted == \E c \in {"drawdown", "factor", "drought", "liquidity", "psi"} : Fails(c)

\* update_validity.  A drift of the features and a model whose features moved with
\* its training cost points whether they halt or not.
Penalty(c) == CASE c = "drawdown" -> 25 [] c = "factor" -> 20 [] c = "liquidity" -> 10
                [] c \in {"drought", "drift"} -> 15 [] OTHER -> 0
Penalised(c) == IF Fails(c) THEN Penalty(c) ELSE 0
DriftPenalty == CASE psi = "moderate" -> 8 [] psi \in {"severe", "halting"} -> 20
                  [] psi \in {"mixed", "worst"} -> 28 [] OTHER -> 0
Instability == IF stability = Never THEN 0 ELSE stability
Total == Penalised("drawdown") + Penalised("factor") + Penalised("drought")
         + Penalised("drift") + Penalised("liquidity") + DriftPenalty + Instability
ScoreUnbounded == 80 - Total

Score == IF Total > 80 THEN 0 ELSE 80 - Total

\* _apply_inertia, _determine_proposed_state.
Inert == IF smoothed = Never THEN (Score + 2) \div 4
                             ELSE (7 * Score + 12 * smoothed + 20) \div 40
Proposed(s) ==
  CASE validity = "GREEN" ->
         IF s >= 60 THEN "GREEN" ELSE IF s >= 45 THEN "YELLOW" ELSE "RED"
    [] validity = "YELLOW" ->
         IF s >= 70 THEN "GREEN" ELSE IF s < 40 THEN "RED" ELSE "YELLOW"
    [] validity = "RED" ->
         IF s >= 70 THEN "GREEN" ELSE IF s >= 50 THEN "YELLOW" ELSE "RED"

\* The lock looks at the periods only: no caller hands the recent scores over.
NeverCounts(now) == IF now = validity THEN periods ELSE 0

Counts(now) ==
  IF now # validity THEN 0 ELSE IF periods < LockPeriods THEN periods + 1 ELSE periods

UpdateValidity ==
  LET now == IF periods >= LockPeriods THEN Proposed(4 * Inert) ELSE validity
  IN  smoothed' = Inert /\ validity' = now /\ periods' = Counts(now)

-----------------------------------------------------------------------------
\* The factor after an exit, which may be the first one of its month: a second one
\* is needed for something between a gain and a loss.
AfterExit == {"fine"} \union (IF factor = "none" THEN {} ELSE {"poor"})

\* update_pnl.  Money moves with the price of a position, with its exit and, a
\* position or not, with the daily settlement of the last signal.
UpdatePnl ==
  /\ pc = "pnl" /\ pc' = "signal"
  /\ deep' \in BOOLEAN
  /\ \/ UNCHANGED <<open, factor>>
     \/ open /\ open' = FALSE /\ factor' \in AfterExit
  /\ UNCHANGED <<age, stressed, psi, stability, drifting, machine>>

Skip ==
  /\ pc = "signal" /\ Halted /\ pc' = "validity"
  /\ UNCHANGED <<open, data, machine>>

\* The inference trains a model that is not trained, renews the liquidity, then the
\* drift of the features, whose first computation in a process is left out, then the
\* date of the last signal, which may be an old one; the pipeline does the rest.  It
\* may raise between any two, and does so before the last without a model.
InfersUnlessDeep == ~deep
MayInfer == ~Halted

Trains == stability' \in IF stability = Never THEN {Never} \union Instabilities ELSE {stability}
RenewsPsi == psi' \in IF psi = "first" THEN {"ok"} ELSE Drifts

Infer ==
  /\ pc = "signal" /\ MayInfer /\ pc' = "validity"
  /\ Trains
  /\ \/ stressed' \in BOOLEAN /\ UNCHANGED <<open, factor, deep, age, psi, drifting>>
     \/ stressed' \in BOOLEAN /\ RenewsPsi /\ UNCHANGED <<open, factor, deep, age, drifting>>
     \/ /\ stability' # Never
        /\ stressed' \in BOOLEAN /\ RenewsPsi /\ age' \in Ages \ {Never}
        /\ drifting' \in BOOLEAN /\ open' \in BOOLEAN
        /\ \/ UNCHANGED factor /\ (open => open')
           \/ open /\ factor' \in AfterExit
        /\ UNCHANGED deep
  /\ UNCHANGED machine

\* The second phase of the cycle, and its save; a signal of any asset that passes
\* the filter of phase 1b raises there, and both are skipped.
Raised ==
  /\ pc = "validity" /\ pc' = "pnl"
  /\ UNCHANGED <<open, data, machine>>
Validity ==
  /\ pc = "validity" /\ pc' = "pnl"
  /\ UpdateValidity
  /\ UNCHANGED <<open, data>>

\* get_state, for the state file, the monitor or health.py, updates it as well.
GetState ==
  /\ UpdateValidity
  /\ deep' \in IF open THEN BOOLEAN ELSE {deep}
  /\ UNCHANGED <<pc, open, factor, age, stressed, psi, stability, drifting>>

NewDay ==
  /\ age \in 0..Drought /\ age' = age + 1
  /\ UNCHANGED <<pc, open, factor, deep, stressed, psi, stability, drifting, machine>>

\* What a process finds of the asset: the snapshot keeps its trades, values and
\* probabilities together with a position, of whatever cycle saved it last, and
\* nothing of an asset without one.
Restored ==
  \/ open' = FALSE /\ factor' = "none" /\ deep' = FALSE /\ drifting' = FALSE
  \/ /\ open' = TRUE /\ deep' \in BOOLEAN /\ drifting' \in BOOLEAN
     /\ factor' \in {"none", "fine", "poor"}

\* The process ends, anywhere in a cycle with the same effect as before one; the new
\* one loads the model of the asset, or trains one.
Restart ==
  /\ pc = "pnl" /\ Restored
  /\ age' = Never /\ stressed' = FALSE /\ psi' = "first"
  /\ stability' \in {Never} \union Instabilities
  /\ validity' = "YELLOW" /\ smoothed' = Never /\ periods' = 0
  /\ UNCHANGED pc

Cycle == UpdatePnl \/ Skip \/ Infer \/ Raised \/ Validity

Next == Cycle \/ GetState \/ NewDay \/ Restart

\* The phases of the cycle follow each other for ever, and at night the session gate
\* lets no signal of any asset raise in phase 1b.

Fairness == WF_vars(Cycle) /\ SF_vars(Validity)

Spec == Init /\ [][Next]_vars
FairSpec == Spec /\ Fairness

-----------------------------------------------------------------------------
\* What renews the conditions lies behind the halt they cause: without a position a
\* poor month, a stressed market and drifting features end with the process only,
\* all three, for it saves nothing of an asset without one (generate_signal).  So does
\* a drought, of which LIVE_CONTRACT.md:212 has a penalty only.
Latched == ~open /\ \E c \in {"factor", "liquidity", "psi"} : Fails(c)

HaltsLatch == [][Latched => Latched' \/ Restart]_vars

\* With a smoothed score of 0.32 or more and at most moderate drifts held against it,
\* an asset does not lose GREEN, and its next update takes the score to 0.60 or more.
CleanAssetsKeepGreen ==
  [][Score > 70 /\ smoothed >= 8 /\ ~Restart =>
       /\ smoothed' >= 15 \/ smoothed' = smoothed
       /\ validity = "GREEN" => validity' = "GREEN"]_vars

\* Once no more than moderate drifts are held against the asset for good, it gets back
\* to GREEN and stays there, from every state its smoothed score, the hysteresis and
\* the lock may have left it in (transition).
CleanAssetsGoGreen ==
  <>[](Score > 70) /\ <>[][~Restart]_vars => <>[](validity = "GREEN")
====
