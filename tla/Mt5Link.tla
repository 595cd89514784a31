------------------------------- MODULE Mt5Link -------------------------------
(***************************************************************************)
(* The line to the broker: the connection pool and its one retry, the      *)
(* heartbeat and the circuit breaker of ops/mt5_client.py, called through  *)
(* execution/mt5_broker.py (orders) and ops/data_fetcher.py (reads), and   *)
(* the bridge process that answers, ops/mt5_bridge.py.                     *)
(*                                                                         *)
(* The pool's lock is held through a whole request with its retry, so that *)
(* one request is on the line at a time; what ensure_connected does between *)
(* its requests is not protected by it.  Requests in batches have no       *)
(* caller.  A reply is never taken for another request's: a socket that    *)
(* timed out is closed before anything else is sent on it.                 *)
(***************************************************************************)
EXTENDS Integers, Sequences, FiniteSets

CONSTANTS Threads,     \* pool threads, each with a call in progress or none
          NoThread,    \* nobody holds the lock
          PoolSize,    \* _POOL_SIZE (4)
          MaxAttempts, \* _MAX_RECONNECT_ATTEMPTS (3)
          MaxDepth,    \* nested calls Python allows ensure_connected
          MaxOrders,   \* bound: orders placed
          MaxFaults    \* bound: lost replies, ends of the bridge or the terminal

ASSUME LinkAssumption ==
  /\ IsFiniteSet(Threads) /\ Threads # {} /\ NoThread \notin Threads
  /\ PoolSize \in Nat \ {0} /\ MaxAttempts \in Nat \ {0} /\ MaxDepth \in Nat
  /\ MaxOrders \in Nat /\ MaxFaults \in Nat

VARIABLES
  proc,     \* where each thread is in its call
  pool,     \* _conns: each socket is up, dead (the peer is gone) or none
  turn,     \* _rr_idx
  lock,     \* the holder of _FrameProtocol._lock
  due,      \* the last heartbeat is older than the interval
  failures, \* _CIRCUIT_BREAKER_FAILURES, up to 1
  cooling,  \* the last of them is younger than its back-off
  bridge,   \* the bridge process: up, hung (it accepts and does not answer) or down
  terminal, \* it has a terminal that is logged in
  placed,   \* orders placed
  executed, \* how often the terminal has executed each order
  late,     \* orders whose handler still runs though nobody waits for it
  lost,     \* history: orders whose first reply has been lost
  faults

ensureVars == <<due, failures, cooling>>
poolVars == <<pool, turn>>
orderVars == <<executed, late, lost>>
bridgeVars == <<bridge, terminal>>
vars == <<proc, poolVars, lock, ensureVars, bridgeVars, placed, orderVars, faults>>

-----------------------------------------------------------------------------
Orders == 1..MaxOrders
Calls == {"order", "read"}
Waiting == {"wait", "wait_again"}

Fresh == [i \in 1..PoolSize |-> "up"]

\* _FrameProtocol.connected; the mutant is content with one connection.
Connected == pool # <<>> /\ \A i \in DOMAIN pool : pool[i] # "none"

\* _get_conn: the connection after the last one.
NextTurn(size) == (turn % size) + 1

TypeOK ==
  /\ proc \in [Threads -> [at : {"idle", "ensure", "connect", "send", "resend"} \union Waiting,
                           call : Calls, what : Calls \union {"configure", "heartbeat"},
                           order : 0..MaxOrders, tries : 0..(MaxAttempts - 1),
                           depth : 0..MaxDepth, outcome : {"none", "ok", "failed"}]]
  /\ pool \in {<<>>} \union [1..PoolSize -> {"up", "dead", "none"}]
  /\ turn \in 0..PoolSize /\ lock \in Threads \union {NoThread}
  /\ due \in BOOLEAN /\ failures \in 0..1 /\ cooling \in BOOLEAN
  /\ bridge \in {"up", "hung", "down"} /\ terminal \in BOOLEAN
  /\ placed \in 0..MaxOrders /\ executed \in [Orders -> 0..3]
  /\ late \subseteq Orders /\ lost \subseteq Orders /\ faults \in 0..MaxFaults

\* A thread without a call.
Idle(outcome) == [at |-> "idle", call |-> "read", what |-> "read", order |-> 0,
                  tries |-> 0, depth |-> 0, outcome |-> outcome]

\* The engine has connected at its start.
Init ==
  /\ proc = [t \in Threads |-> Idle("none")]
  /\ pool = Fresh /\ turn = 0 /\ lock = NoThread
  /\ due = FALSE /\ failures = 0 /\ cooling = FALSE
  /\ bridge = "up" /\ terminal = TRUE
  /\ placed = 0 /\ executed = [o \in Orders |-> 0]
  /\ late = {} /\ lost = {} /\ faults = 0

At(t, step) == proc[t].at = step
Move(t, p) == proc' = [proc EXCEPT ![t] = p]
MoveTo(t, step) == Move(t, [proc[t] EXCEPT !.at = step])

\* The call is over, with a result or an exception that its caller logs.
Ends(t, outcome) == Move(t, Idle(outcome))

\* ensure_connected is done with: on to the request itself.
Proceeds(t) ==
  Move(t, [proc[t] EXCEPT !.at = "send", !.what = proc[t].call, !.tries = 0, !.depth = 0])

-----------------------------------------------------------------------------
(* MT5Client.ensure_connected.                                               *)

Begin(t, call, order) ==
  /\ At(t, "idle")
  /\ Move(t, [proc[t] EXCEPT !.at = "ensure", !.call = call, !.order = order, !.outcome = "none"])
  /\ UNCHANGED <<poolVars, lock, ensureVars, bridgeVars, orderVars, faults>>

Read(t) == Begin(t, "read", 0) /\ UNCHANGED placed
PlaceOrder(t) ==
  placed < MaxOrders /\ placed' = placed + 1 /\ Begin(t, "order", placed + 1)

\* ensure_connected has returned False: a read gives up, and the broker, which
\* does not look at it, sends its order nevertheless.
Declined(t) == IF proc[t].call = "read" THEN Ends(t, "failed") ELSE Proceeds(t)

BreakerOpen(t) ==
  /\ At(t, "ensure") /\ failures > 0 /\ cooling
  /\ Declined(t)
  /\ UNCHANGED <<poolVars, lock, ensureVars, bridgeVars, placed, orderVars, faults>>

\* The look at the pool takes its lock.
Look(t) ==
  /\ At(t, "ensure") /\ ~(failures > 0 /\ cooling) /\ lock = NoThread
  /\ IF ~Connected THEN Move(t, [proc[t] EXCEPT !.at = "connect", !.tries = 0])
     ELSE IF due THEN Move(t, [proc[t] EXCEPT !.at = "send", !.what = "heartbeat"])
     ELSE Proceeds(t)
  /\ UNCHANGED <<poolVars, lock, ensureVars, bridgeVars, placed, orderVars, faults>>

\* connect waits for the lock; the mutant does not.
ConnectsAtOnce == TRUE
MayConnect == lock = NoThread

\* _FrameProtocol.connect empties the pool first.  A refusal is an OSError,
\* which the loop over the attempts does not catch.
Connect(t) ==
  /\ At(t, "connect") /\ MayConnect
  /\ IF bridge = "down"
     THEN pool' = <<>> /\ Ends(t, "failed")
     ELSE pool' = Fresh /\ Move(t, [proc[t] EXCEPT !.at = "send", !.what = "configure"])
  /\ UNCHANGED <<turn, lock, ensureVars, bridgeVars, placed, orderVars, faults>>

\* The mutant makes one attempt too many.
AttemptsOver(t) == proc[t].tries < MaxAttempts
AttemptsLeft(t) == proc[t].tries + 1 < MaxAttempts

\* The configure request is back; only an MT5ConnectionError is caught, and only
\* that counts for the breaker, once the attempts are used up.
ReturnConfigure(t, result) ==
  CASE result = "ok" ->
         Proceeds(t) /\ due' = FALSE /\ failures' = 0 /\ UNCHANGED cooling
    [] result = "refused" -> Ends(t, "failed") /\ UNCHANGED ensureVars
    [] OTHER ->
         IF AttemptsLeft(t)
         THEN /\ Move(t, [proc[t] EXCEPT !.at = "connect", !.tries = @ + 1])
              /\ UNCHANGED ensureVars
         ELSE Declined(t) /\ failures' = 1 /\ cooling' = TRUE /\ UNCHANGED due

\* The heartbeat is back; on any exception ensure_connected calls itself, until
\* Python has had enough.
ReturnHeartbeat(t, result) ==
  /\ IF result = "ok" THEN Proceeds(t)
     ELSE IF proc[t].depth < MaxDepth
     THEN Move(t, [proc[t] EXCEPT !.at = "ensure", !.depth = @ + 1])
     ELSE Ends(t, "failed")
  /\ due' = IF result = "ok" THEN FALSE ELSE due
  /\ UNCHANGED <<failures, cooling>>

-----------------------------------------------------------------------------
(* _FrameProtocol.send_request and _FrameConnection.send_request.            *)

Return(t, result) ==
  /\ lock' = NoThread
  /\ CASE proc[t].what = "configure" -> ReturnConfigure(t, result)
       [] proc[t].what = "heartbeat" -> ReturnHeartbeat(t, result)
       [] OTHER -> /\ Ends(t, IF result = "ok" THEN "ok" ELSE "failed")
                   /\ UNCHANGED ensureVars

\* An emptied pool has no connection to take: that raises before the retry is
\* set up.  Sending on a socket that is gone fails, closing it or, when the peer's
\* end is read as an end of file, not.
Send(t) ==
  /\ At(t, "send") /\ lock = NoThread
  /\ IF pool = <<>> THEN Return(t, "connection") /\ UNCHANGED poolVars
     ELSE /\ lock' = t /\ turn' = NextTurn(Len(pool))
          /\ IF pool[turn'] = "up" THEN MoveTo(t, "wait") /\ UNCHANGED pool
             ELSE /\ MoveTo(t, "resend")
                  /\ pool' \in {pool, [pool EXCEPT ![turn'] = "none"]}
          /\ UNCHANGED ensureVars
  /\ UNCHANGED <<bridgeVars, placed, orderVars, faults>>

\* What a request that has failed for the first time does: the pool is replaced
\* and the request sent again.  A refused reconnection keeps the old pool and
\* raises past the retry.  The mutant always keeps it.
OldPool == pool
NewPool == Fresh

Resend(t) ==
  /\ At(t, "resend")
  /\ IF bridge # "down"
     THEN /\ pool' = NewPool /\ turn' = NextTurn(PoolSize)
          /\ MoveTo(t, "wait_again") /\ UNCHANGED <<lock, ensureVars>>
     ELSE Return(t, "refused") /\ UNCHANGED poolVars
  /\ UNCHANGED <<bridgeVars, placed, orderVars, faults>>

\* A request has failed with an MT5ConnectionError: once more, or no more.  The
\* mutant never stops.
RetriesAgain(t) == TRUE
Retries(t) == At(t, "wait")

Fail(t) ==
  IF Retries(t) THEN MoveTo(t, "resend") /\ UNCHANGED <<lock, ensureVars>>
                ELSE Return(t, "connection")

-----------------------------------------------------------------------------
(* The bridge: _dispatch, its handlers, and the terminal behind it.          *)

IsOrder(t) == proc[t].what = "order"
Executes(t) == executed' = [executed EXCEPT ![proc[t].order] = @ + 1]

\* The reply arrives.  Without a terminal every method but configure answers
\* with an error; an order that is answered is executed or rejected, for its
\* key is never found among _placed_orders, which nothing fills.
Answer(t) ==
  /\ proc[t].at \in Waiting /\ pool[turn] = "up" /\ bridge = "up"
  /\ \/ terminal /\ IsOrder(t) /\ Executes(t) /\ Return(t, "ok")
     \/ /\ terminal \/ proc[t].what = "configure"
        /\ Return(t, "ok") /\ UNCHANGED executed
     \/ /\ ~terminal /\ proc[t].what # "configure"
        /\ Return(t, "data") /\ UNCHANGED executed
  /\ UNCHANGED <<poolVars, bridgeVars, placed, late, lost, faults>>

Lost(t) == lost' = IF IsOrder(t) THEN lost \union {proc[t].order} ELSE lost

\* A socket waits thirty seconds at most; the mutant waits for a hung bridge.
Patient == bridge = "up"
RunsOut == TRUE

\* The reply is lost, or a hung bridge does not give it in time, and the socket
\* is closed.  The order may be executed, not executed, or still in the hands of
\* its handler.
TimeOut(t) ==
  /\ proc[t].at \in Waiting /\ pool[turn] = "up" /\ RunsOut
  /\ faults' = IF bridge = "hung" THEN faults ELSE faults + 1
  /\ faults' <= MaxFaults
  /\ pool' = [pool EXCEPT ![turn] = "none"] /\ Lost(t) /\ Fail(t)
  /\ \/ UNCHANGED <<executed, late>>
     \/ IsOrder(t) /\ terminal /\ Executes(t) /\ UNCHANGED late
     \/ IsOrder(t) /\ terminal /\ late' = late \union {proc[t].order} /\ UNCHANGED executed
  /\ UNCHANGED <<turn, bridgeVars, placed>>

\* The bridge has gone while t was waiting, before or after the execution.
HangUp(t) ==
  /\ proc[t].at \in Waiting /\ pool[turn] # "up"
  /\ pool' \in {pool, [pool EXCEPT ![turn] = "none"]} /\ Lost(t) /\ Fail(t)
  /\ UNCHANGED executed \/ (IsOrder(t) /\ terminal /\ Executes(t))
  /\ UNCHANGED <<turn, bridgeVars, placed, late, faults>>

LateExecution(o) ==
  /\ o \in late /\ terminal
  /\ late' = late \ {o} /\ executed' = [executed EXCEPT ![o] = @ + 1]
  /\ UNCHANGED <<proc, poolVars, lock, ensureVars, bridgeVars, placed, lost, faults>>

BridgeHangs ==
  /\ bridge = "up" /\ faults < MaxFaults /\ faults' = faults + 1
  /\ bridge' = "hung"
  /\ UNCHANGED <<proc, poolVars, lock, ensureVars, terminal, placed, orderVars>>

BridgeDies ==
  /\ bridge # "down" /\ faults < MaxFaults /\ faults' = faults + 1
  /\ bridge' = "down" /\ late' = {}
  /\ pool' = [i \in DOMAIN pool |-> IF pool[i] = "up" THEN "dead" ELSE pool[i]]
  /\ UNCHANGED <<proc, turn, lock, ensureVars, terminal, placed, executed, lost>>

\* A dead bridge is started again, or a hung one goes on.
BridgeStarts ==
  /\ bridge # "up" /\ bridge' = "up"
  /\ UNCHANGED <<proc, poolVars, lock, ensureVars, terminal, placed, orderVars, faults>>

TerminalGoes ==
  /\ terminal /\ faults < MaxFaults /\ faults' = faults + 1
  /\ terminal' = FALSE /\ late' = {}
  /\ UNCHANGED <<proc, poolVars, lock, ensureVars, bridge, placed, executed, lost>>

\* _ensure_initialized finds or starts a terminal.
TerminalComes ==
  /\ ~terminal /\ terminal' = TRUE
  /\ UNCHANGED <<proc, poolVars, lock, ensureVars, bridge, placed, orderVars, faults>>

\* Fifteen seconds have passed since the last heartbeat, or the back-off since
\* the breaker's last failure; the first matters to a thread about to look.
HeartbeatDue ==
  /\ ~due /\ \E t \in Threads : At(t, "ensure")
  /\ due' = TRUE
  /\ UNCHANGED <<proc, poolVars, lock, failures, cooling, bridgeVars, placed, orderVars, faults>>
CoolDown ==
  /\ cooling /\ cooling' = FALSE
  /\ UNCHANGED <<proc, poolVars, lock, due, failures, bridgeVars, placed, orderVars, faults>>

-----------------------------------------------------------------------------
Step(t) ==
  \/ BreakerOpen(t) \/ Look(t) \/ Connect(t) \/ Send(t) \/ Resend(t)
  \/ Answer(t) \/ TimeOut(t) \/ HangUp(t)

Next ==
  \/ \E t \in Threads : Read(t) \/ PlaceOrder(t) \/ Step(t)
  \/ \E o \in Orders : LateExecution(o)
  \/ BridgeHangs \/ BridgeDies \/ BridgeStarts \/ TerminalGoes \/ TerminalComes
  \/ HeartbeatDue \/ CoolDown

Spec == Init /\ [][Next]_vars

\* Threads run, assets ask for prices every cycle, a bridge answers or the
\* request times out, and time passes.
FairSpec ==
  /\ Spec /\ WF_vars(CoolDown)
  /\ \A t \in Threads : WF_vars(Step(t)) /\ WF_vars(Read(t))

-----------------------------------------------------------------------------
(* What the line promises.                                                   *)

\* How many executions of an order there have been or may still be.
Copies(o) ==
  executed[o] + Cardinality({o} \intersect late)
  + Cardinality({t \in Threads : proc[t].at \in Waiting /\ IsOrder(t) /\ proc[t].order = o})

\* A second execution of an order takes the loss of its first reply, and there
\* is never a third: through nested retries of the pool, the connection loop
\* and replies that come late.
OnlyLossDoubles == \A o \in Orders : Copies(o) <= IF o \in lost THEN 2 ELSE 1

\* An order as its caller and the account see it: nested preparations, retries on
\* new connections, a heartbeat's recursion and late handlers make up no other fate
\* of it than one call, settled by its answer or made doubtful by a loss.
Open == {proc[t].order : t \in Threads} \ {0}

Fate == INSTANCE OrderFate WITH placed <- 1..placed, open <- Open, doubtful <- lost

ImplementsOrderFate == Fate!Spec

\* An order that is reported failed without the loss of a reply has left nothing
\* behind, and never will: the retries of the pool do not make it up later.
FailuresLeaveNothing ==
  [][\A t \in Threads, o \in Orders :
       /\ proc[t].order = o /\ proc'[t].order = 0 /\ proc'[t].outcome = "failed"
       /\ o \notin lost'
       => executed'[o] = 0 /\ o \notin late']_vars

\* While a thread waits for its reply no other thread takes its socket away:
\* reconnecting tears down the whole pool, and other threads do that freely.
SocketsAreNotTornAway ==
  [][\A t \in Threads : proc[t].at \in Waiting /\ pool' # pool
       => proc'[t] # proc[t] \/ bridge' # bridge]_vars

\* Whoever has the line gives it back, whatever is lost or refused.
TheLineIsFreed == []<>(lock = NoThread)

\* With the bridge and its terminal back for good calls succeed again, from
\* whatever state the faults left pool, heartbeat and breaker in.
LinkRecovers ==
  <>[](bridge = "up" /\ terminal) => []<>(\E t \in Threads : proc[t].outcome = "ok")

-----------------------------------------------------------------------------
(* What the bridge says of it, and it does not do.                           *)

\* mt5_bridge.py:217: an order with the key of one already placed is not placed
\* again.
OrdersAreExecutedOnce == \A o \in Orders : executed[o] <= 1
=============================================================================
