------------------------------ MODULE OrderFate ------------------------------
(***************************************************************************)
(* What may become of an order, without saying over which connections, how *)
(* often and after which preparations it is sent: whoever places it waits  *)
(* until its call ends; without the loss of a reply it is executed once at *)
(* most, in the step that ends the call, and settled from then on; with    *)
(* the loss of one it is executed twice at most, perhaps after the call.   *)
(***************************************************************************)
EXTENDS Naturals

CONSTANT Orders

VARIABLES placed,   \* orders there have been
          open,     \* orders whose call has not ended
          executed, \* how often the broker has executed each order
          doubtful  \* orders of which a reply has been lost

vars == <<placed, open, executed, doubtful>>

Init ==
  /\ placed = {} /\ open = {} /\ doubtful = {}
  /\ executed = [o \in Orders |-> 0]

Execute(o) ==
  /\ executed[o] < IF o \in doubtful' THEN 2 ELSE 1
  /\ executed' = [executed EXCEPT ![o] = @ + 1]

Place(o) ==
  /\ o \notin placed /\ placed' = placed \union {o}
  /\ open' = open \union {o}
  /\ UNCHANGED <<executed, doubtful>>

\* The call ends: the order is filled, rejected, or was never sent.
End(o) ==
  /\ o \in open /\ open' = open \ {o}
  /\ UNCHANGED <<placed, doubtful>>
  /\ UNCHANGED executed \/ Execute(o)

\* A reply is lost, which may end the call; the broker may have executed the order.
Lose(o) ==
  /\ o \in open /\ open' \in {open, open \ {o}}
  /\ doubtful' = doubtful \union {o}
  /\ UNCHANGED placed
  /\ UNCHANGED executed \/ Execute(o)

\* It may do so later as well, whether anybody still waits for it or not.
ExecuteLate(o) ==
  /\ o \in doubtful /\ Execute(o)
  /\ UNCHANGED <<placed, open, doubtful>>

Next == \E o \in Orders : Place(o) \/ End(o) \/ Lose(o) \/ ExecuteLate(o)

Spec == Init /\ [][Next]_vars
=============================================================================
