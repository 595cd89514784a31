------------------------------ MODULE EventLog ------------------------------
(***************************************************************************)
(* What a write-ahead log promises, without saying how it is buffered,     *)
(* batched, appended or retried: an event that was accepted is held until  *)
(* it is acknowledged, only a stored event is acknowledged, what is stored *)
(* is never taken back by the process, and a crash forgets what was held   *)
(* but nothing that was acknowledged.  An event given up is on record: the *)
(* exception that came of it.                                              *)
(***************************************************************************)
CONSTANT Events

VARIABLES held,    \* accepted by the living process, not yet acknowledged
          stored,  \* written out in full
          durable, \* acknowledged
          lost     \* given up, with an exception to whoever wrote it

vars == <<held, stored, durable, lost>>

Init == held = {} /\ stored = {} /\ durable = {} /\ lost = {}

\* A new event, unlike all that were ever written.
Accept == /\ UNCHANGED <<stored, durable, lost>>
          /\ \E e \in Events \ (held \union stored \union durable \union lost) :
               held' = held \union {e}

Store == /\ UNCHANGED <<held, durable, lost>>
         /\ stored \subseteq stored' /\ stored' \subseteq stored \union held

Acknowledge == /\ UNCHANGED <<stored, lost>>
               /\ durable \subseteq durable'
               /\ durable' \subseteq durable \union (held \intersect stored)
               /\ held' = held \ durable'

Lose == /\ UNCHANGED <<stored, durable>>
        /\ lost \subseteq lost' /\ lost' \subseteq lost \union held
        /\ held' = held \ lost'

Crash == /\ UNCHANGED <<durable, lost>>
         /\ held' = {}
         /\ durable \subseteq stored' /\ stored' \subseteq stored

Next == Accept \/ Store \/ Acknowledge \/ Lose \/ Crash

Spec == Init /\ [][Next]_vars
=============================================================================
