---------------------------- MODULE EmergencyHalt ----------------------------
(***************************************************************************)
(* What the emergency halt promises, without saying why it trips or when   *)
(* it may be lifted: the engine trades in cycles, only a trading cycle can *)
(* trip, a halted engine does not trade, nothing is saved or lifted while  *)
(* it does, and a crash resumes whatever is on the disk.                   *)
(***************************************************************************)
VARIABLES mode,    \* "running" or "halted"
          saved,   \* the mode a restart would resume
          trading  \* a cycle that can touch positions is under way

vars == <<mode, saved, trading>>

TypeOK == /\ mode \in {"running", "halted"} /\ saved \in {"running", "halted"}
          /\ trading \in BOOLEAN

Init == mode = "running" /\ saved = "running" /\ trading = FALSE

Begin == /\ mode = "running" /\ ~trading
         /\ trading' = TRUE
         /\ UNCHANGED <<mode, saved>>

Complete == /\ trading
            /\ trading' = FALSE
            /\ UNCHANGED <<mode, saved>>

Trip == /\ trading
        /\ mode' = "halted" /\ trading' = FALSE
        /\ UNCHANGED saved

Save == /\ ~trading
        /\ saved' = mode
        /\ UNCHANGED <<mode, trading>>

Lift == /\ mode = "halted" /\ ~trading
        /\ mode' = "running"
        /\ UNCHANGED <<saved, trading>>

Crash == /\ mode' = saved /\ trading' = FALSE
         /\ UNCHANGED saved

Next == Begin \/ Complete \/ Trip \/ Save \/ Lift \/ Crash

Spec == Init /\ [][Next]_vars
=============================================================================
