---------------------------- MODULE Mt5LinkProofs ----------------------------
(***************************************************************************)
(* Theorems about Mt5Link, for every set of threads, every size of the     *)
(* pool and every number of attempts, nested calls, orders and faults.     *)
(***************************************************************************)
EXTENDS Mt5Link, SequenceTheorems, FiniteSetTheorems, TLAPS

-----------------------------------------------------------------------------
(* The invariants.                                                           *)

\* A thread with a request on the line, or about to send it again, holds the
\* lock, and the pool is not empty while it waits.
LineIsHeld ==
  \A t \in Threads :
    /\ proc[t].at \in Waiting \union {"resend"} => lock = t
    /\ proc[t].at \in Waiting => pool # <<>>

\* An order has been placed by one thread, which is the only one to send it.
OrdersAreHeld ==
  /\ \A t \in Threads :
       /\ proc[t].order <= placed
       /\ proc[t].call = "order" => proc[t].order # 0
       /\ proc[t].at = "idle" => proc[t].order = 0
       /\ IsOrder(t) => /\ proc[t].call = "order"
                        /\ proc[t].at \in {"send", "resend"} \union Waiting
  /\ \A t, u \in Threads : proc[t].order = proc[u].order /\ proc[t].order # 0 => t = u

\* The executions of o there have been, or still may be though nobody waits.
Done(o) == executed[o] + (IF o \in late THEN 1 ELSE 0)

\* Nothing has become of o yet.
Untouched(o) == Done(o) = 0 /\ o \notin lost

\* What may have become of o before its request is sent once more.
HalfSpent(o) == Done(o) <= IF o \in lost THEN 1 ELSE 0

\* What may have become of an order: nothing before its first request is
\* answered or lost, one execution before the second, and two at the end.
OrdersAreBudgeted ==
  /\ \A o \in Orders : /\ Done(o) <= IF o \in lost THEN 2 ELSE 1
                       /\ o > placed => Untouched(o)
  /\ \A t \in Threads, o \in Orders : proc[t].order = o =>
       /\ HalfSpent(o)
       /\ ~IsOrder(t) \/ proc[t].at \in {"send", "wait"} => Untouched(o)

IInv == TypeOK /\ LineIsHeld /\ OrdersAreHeld /\ OrdersAreBudgeted

-----------------------------------------------------------------------------
(* A thread's step.                                                          *)

\* What proc says of a thread.
Steps == {"idle", "ensure", "connect", "send", "resend"} \union Waiting
Requests == Calls \union {"configure", "heartbeat"}
CallStates ==
  [at : Steps, call : Calls, what : Requests,
   order : 0..MaxOrders, tries : 0..(MaxAttempts - 1),
   depth : 0..MaxDepth, outcome : {"none", "ok", "failed"}]

\* A call ends, ...
Idles(t) ==
  /\ proc'[t].at = "idle" /\ proc'[t].call = "read" /\ proc'[t].what = "read"
  /\ proc'[t].order = 0

\* ... comes nearer to its own request, ...
Prepares(t) ==
  /\ ~IsOrder(t) /\ proc'[t].order = proc[t].order /\ proc'[t].call = proc[t].call
  /\ proc'[t].what = "order" => proc[t].call = "order" /\ proc'[t].at = "send"
  /\ proc'[t].at # "idle"

\* ... or carries an order on.
Carries(t) ==
  /\ IsOrder(t) /\ proc'[t].order = proc[t].order /\ proc'[t].call = proc[t].call
  /\ proc'[t].what = "order"
  /\ \/ proc[t].at = "send" /\ proc'[t].at \in {"wait", "resend"}
     \/ proc[t].at = "wait" /\ proc'[t].at = "resend"
     \/ proc[t].at = "resend" /\ proc'[t].at = "wait_again"

\* Only t moves, in one of these ways; and whatever it moves on to, it does not
\* keep on waiting, nor the line without the lock.
Moves(t) ==
  /\ proc' = [proc EXCEPT ![t] = proc'[t]] /\ proc'[t] \in CallStates
  /\ Idles(t) \/ Prepares(t) \/ Carries(t)

LEMMA MoveIs ==
  ASSUME TypeOK, NEW t \in Threads, NEW p \in CallStates, Move(t, p)
  PROVE  /\ proc' = [proc EXCEPT ![t] = proc'[t]] /\ proc'[t] = p
         /\ proc'[t] \in CallStates
BY DEF TypeOK, Move, CallStates, Steps, Requests

LEMMA ThreadTypes ==
  ASSUME TypeOK, NEW t \in Threads
  PROVE  proc[t] \in CallStates
BY DEF TypeOK, CallStates, Steps, Requests

\* The values that a step gives the fields of a call.
LEMMA FieldTypes ==
  ASSUME NEW c \in CallStates
  PROVE  /\ 0 \in 0..(MaxAttempts - 1) /\ 0 \in 0..MaxDepth /\ 0 \in 0..MaxOrders
         /\ c.call \in Requests /\ "configure" \in Requests /\ "heartbeat" \in Requests
         /\ c.tries + 1 < MaxAttempts => c.tries + 1 \in 0..(MaxAttempts - 1)
         /\ c.depth < MaxDepth => c.depth + 1 \in 0..MaxDepth
         /\ \A a \in {"idle", "ensure", "connect", "send", "resend", "wait", "wait_again"} :
              a \in Steps
BY LinkAssumption DEF CallStates, Requests, Steps, Waiting

LEMMA EndsMoves ==
  ASSUME TypeOK, NEW t \in Threads, NEW r \in {"none", "ok", "failed"}, Ends(t, r)
  PROVE  Moves(t) /\ Idles(t)
<1>1. Idle(r) \in CallStates
  BY LinkAssumption DEF Idle, CallStates, Calls, Steps, Requests
<1> QED BY <1>1, MoveIs DEF Ends, Idle, Idles, Moves

LEMMA ProceedsMoves ==
  ASSUME TypeOK, NEW t \in Threads, ~IsOrder(t), Proceeds(t)
  PROVE  Moves(t) /\ proc'[t].at = "send"
<1> DEFINE p == [proc[t] EXCEPT !.at = "send", !.what = proc[t].call, !.tries = 0, !.depth = 0]
<1>1. p \in CallStates /\ p.order = proc[t].order /\ p.call = proc[t].call /\ p.at = "send"
      /\ p.what = proc[t].call
  BY ThreadTypes, FieldTypes DEF CallStates
<1>2. Move(t, p)
  BY DEF Proceeds
<1> HIDE DEF p
<1> QED BY <1>1, <1>2, MoveIs DEF Moves, Prepares, IsOrder

LEMMA DeclinedMoves ==
  ASSUME TypeOK, NEW t \in Threads, ~IsOrder(t), Declined(t)
  PROVE  Moves(t) /\ proc'[t].at \in {"idle", "send"}
BY EndsMoves, ProceedsMoves DEF Declined, Idles

\* A request comes back: the call ends, or goes on to what it was meant for.
LEMMA ReturnMoves ==
  ASSUME TypeOK, NEW t \in Threads, NEW r, Return(t, r)
  PROVE  /\ Moves(t) /\ lock' = NoThread
         /\ due' \in BOOLEAN /\ failures' \in 0..1 /\ cooling' \in BOOLEAN
         /\ proc'[t].at \notin Waiting \union {"resend"}
         /\ IsOrder(t) => Idles(t)
<1>0. due \in BOOLEAN /\ failures \in 0..1 /\ cooling \in BOOLEAN
  BY DEF TypeOK
<1>1. CASE proc[t].what = "configure"
  <2>1. lock' = NoThread /\ ReturnConfigure(t, r) /\ ~IsOrder(t)
    BY <1>1 DEF Return, IsOrder
  <2>2. CASE r = "ok"
    <3>1. Proceeds(t) /\ due' = FALSE /\ failures' = 0 /\ cooling' = cooling
      BY <2>1, <2>2 DEF ReturnConfigure
    <3>2. due' \in BOOLEAN /\ cooling' \in BOOLEAN
      BY <1>0, <3>1
    <3>3. failures' \in 0..1
      BY <3>1
    <3> QED BY <2>1, <3>1, <3>2, <3>3, ProceedsMoves DEF Waiting
  <2>3. CASE r = "refused"
    BY <1>0, <2>1, <2>3, EndsMoves DEF ReturnConfigure, Waiting, ensureVars, Idles
  <2>4. CASE r # "ok" /\ r # "refused" /\ AttemptsLeft(t)
    <3> DEFINE p == [proc[t] EXCEPT !.at = "connect", !.tries = @ + 1]
    <3>1. p \in CallStates /\ p.order = proc[t].order /\ p.call = proc[t].call
          /\ p.at = "connect" /\ p.what = proc[t].what
      BY <2>4, ThreadTypes, FieldTypes DEF CallStates, AttemptsLeft
    <3>2. Move(t, p) /\ UNCHANGED ensureVars
      BY <2>1, <2>4 DEF ReturnConfigure
    <3> HIDE DEF p
    <3>3. Moves(t) /\ proc'[t].at = "connect"
      BY <1>1, <2>1, <3>1, <3>2, MoveIs DEF Moves, Prepares
    <3> QED BY <1>0, <2>1, <3>2, <3>3 DEF ensureVars, Waiting
  <2>5. CASE r # "ok" /\ r # "refused" /\ ~AttemptsLeft(t)
    BY <1>0, <2>1, <2>5, DeclinedMoves DEF ReturnConfigure, Waiting
  <2> QED BY <2>2, <2>3, <2>4, <2>5
<1>2. CASE proc[t].what = "heartbeat"
  <2>1. lock' = NoThread /\ ReturnHeartbeat(t, r) /\ ~IsOrder(t)
    BY <1>2 DEF Return, IsOrder
  <2>2. CASE r = "ok"
    BY <1>0, <2>1, <2>2, ProceedsMoves DEF ReturnHeartbeat, Waiting
  <2>3. CASE r # "ok" /\ proc[t].depth < MaxDepth
    <3> DEFINE p == [proc[t] EXCEPT !.at = "ensure", !.depth = @ + 1]
    <3>1. p \in CallStates /\ p.order = proc[t].order /\ p.call = proc[t].call
          /\ p.at = "ensure" /\ p.what = proc[t].what
      BY <2>3, ThreadTypes, FieldTypes DEF CallStates
    <3>2. Move(t, p)
      BY <2>1, <2>3 DEF ReturnHeartbeat
    <3> HIDE DEF p
    <3>3. Moves(t) /\ proc'[t].at = "ensure"
      BY <1>2, <2>1, <3>1, <3>2, MoveIs DEF Moves, Prepares
    <3> QED BY <1>0, <2>1, <3>3 DEF ReturnHeartbeat, Waiting
  <2>4. CASE r # "ok" /\ ~(proc[t].depth < MaxDepth)
    BY <1>0, <2>1, <2>4, EndsMoves DEF ReturnHeartbeat, Waiting, Idles
  <2> QED BY <2>2, <2>3, <2>4
<1>3. CASE proc[t].what # "configure" /\ proc[t].what # "heartbeat"
  <2>1. lock' = NoThread /\ Ends(t, IF r = "ok" THEN "ok" ELSE "failed") /\ UNCHANGED ensureVars
    BY <1>3 DEF Return
  <2> QED BY <1>0, <2>1, EndsMoves DEF Waiting, ensureVars, Idles
<1> QED BY <1>1, <1>2, <1>3

-----------------------------------------------------------------------------
(* The lock and the pool.                                                    *)

PoolStates == {<<>>} \union [1..PoolSize -> {"up", "dead", "none"}]

LEMMA PoolLength ==
  ASSUME NEW p \in PoolStates
  PROVE  /\ p # <<>> => p \in [1..PoolSize -> {"up", "dead", "none"}] /\ Len(p) = PoolSize
         /\ \A i \in 0..PoolSize : [p EXCEPT ![i] = "none"] \in PoolStates
         /\ p # <<>> => \A i \in 0..PoolSize : [p EXCEPT ![i] = "none"] # <<>>
<1>1. CASE p = <<>>
  BY <1>1 DEF PoolStates
<1>2. CASE p # <<>>
  <2>1. p \in [1..PoolSize -> {"up", "dead", "none"}]
    BY <1>2 DEF PoolStates
  <2>2. PoolSize \in Nat \ {0}
    BY LinkAssumption
  <2>3. p \in Seq({"up", "dead", "none"})
    BY <2>1, <2>2
  <2>4. Len(p) = PoolSize
    BY <2>1, <2>2, <2>3, LenProperties
  <2>5. \A i \in 0..PoolSize : [p EXCEPT ![i] = "none"] \in [1..PoolSize -> {"up", "dead", "none"}]
    BY <2>1
  <2>6. \A f \in [1..PoolSize -> {"up", "dead", "none"}] : f # <<>>
    BY <2>2
  <2> QED BY <1>2, <2>1, <2>4, <2>5, <2>6 DEF PoolStates
<1> QED BY <1>1, <1>2

LEMMA FreshPool == Fresh \in PoolStates /\ Fresh # <<>>
<1>1. PoolSize \in Nat \ {0}
  BY LinkAssumption
<1>2. Fresh \in [1..PoolSize -> {"up", "dead", "none"}]
  BY DEF Fresh
<1>3. \A f \in [1..PoolSize -> {"up", "dead", "none"}] : f # <<>>
  BY <1>1
<1> QED BY <1>2, <1>3 DEF PoolStates

LEMMA TurnIsIndex ==
  ASSUME turn \in 0..PoolSize
  PROVE  NextTurn(PoolSize) \in 1..PoolSize
BY LinkAssumption DEF NextTurn

\* What a step of t that leaves the lock and the pool in a given way means for
\* all threads: nobody else's socket is taken.
LEMMA LineKept ==
  ASSUME TypeOK, LineIsHeld, NEW t \in Threads, Moves(t),
         lock \in {t, NoThread} \/ (lock' = lock /\ pool' = pool),
         proc'[t].at \in Waiting \union {"resend"} => lock' = t,
         proc'[t].at \in Waiting => pool' # <<>>
  PROVE  LineIsHeld'
<1> SUFFICES ASSUME NEW u \in Threads
             PROVE  /\ proc'[u].at \in Waiting \union {"resend"} => lock' = u
                    /\ proc'[u].at \in Waiting => pool' # <<>>
  BY DEF LineIsHeld, Waiting
<1>1. CASE u = t
  BY <1>1
<1>2. CASE u # t
  <2>1. proc'[u] = proc[u]
    BY <1>2 DEF Moves, TypeOK
  <2> QED BY <1>2, <2>1, LinkAssumption DEF LineIsHeld
<1> QED BY <1>1, <1>2

\* What every step of a thread does to the line, in all its ways.
LineStep(t) ==
  /\ Moves(t) /\ LineIsHeld' /\ placed' = placed
  /\ pool' \in PoolStates /\ turn' \in 0..PoolSize /\ lock' \in Threads \union {NoThread}
  /\ due' \in BOOLEAN /\ failures' \in 0..1 /\ cooling' \in BOOLEAN

LEMMA EnsureSteps ==
  ASSUME TypeOK, LineIsHeld, OrdersAreHeld, NEW t \in Threads,
         BreakerOpen(t) \/ Look(t) \/ Connect(t)
  PROVE  LineStep(t) /\ UNCHANGED orderVars
<1>1. ~IsOrder(t)
  BY DEF OrdersAreHeld, BreakerOpen, Look, Connect, At, Waiting
<1>2. /\ pool \in PoolStates /\ turn \in 0..PoolSize /\ lock \in Threads \union {NoThread}
      /\ due \in BOOLEAN /\ failures \in 0..1 /\ cooling \in BOOLEAN
  BY DEF TypeOK, PoolStates
<1>3. placed' = placed /\ UNCHANGED orderVars /\ UNCHANGED ensureVars /\ lock' = lock /\ turn' = turn
  BY DEF BreakerOpen, Look, Connect, poolVars
<1>4. CASE BreakerOpen(t)
  <2>1. Moves(t) /\ proc'[t].at \in {"idle", "send"}
    BY <1>1, <1>4, DeclinedMoves DEF BreakerOpen
  <2>2. pool' = pool
    BY <1>4 DEF BreakerOpen, poolVars
  <2>3. LineIsHeld'
    BY <1>3, <2>1, <2>2, LineKept DEF Waiting
  <2> QED BY <1>2, <1>3, <2>1, <2>2, <2>3 DEF LineStep, ensureVars
<1>5. CASE Look(t)
  <2> DEFINE p == [proc[t] EXCEPT !.at = "connect", !.tries = 0]
             q == [proc[t] EXCEPT !.at = "send", !.what = "heartbeat"]
  <2>1. Move(t, p) \/ Move(t, q) \/ Proceeds(t)
    BY <1>5 DEF Look
  <2>2. /\ p \in CallStates /\ p.at = "connect" /\ p.what = proc[t].what
        /\ p.order = proc[t].order /\ p.call = proc[t].call
        /\ q \in CallStates /\ q.at = "send" /\ q.what = "heartbeat"
        /\ q.order = proc[t].order /\ q.call = proc[t].call
    BY ThreadTypes, FieldTypes DEF CallStates
  <2> HIDE DEF p, q
  <2>3. Moves(t) /\ proc'[t].at \in {"connect", "send"}
    BY <1>1, <2>1, <2>2, MoveIs, ProceedsMoves DEF Moves, Prepares, IsOrder
  <2>4. pool' = pool
    BY <1>5 DEF Look, poolVars
  <2>5. LineIsHeld'
    BY <1>3, <2>3, <2>4, LineKept DEF Waiting
  <2> QED BY <1>2, <1>3, <2>3, <2>4, <2>5 DEF LineStep, ensureVars
<1>6. CASE Connect(t)
  <2> DEFINE p == [proc[t] EXCEPT !.at = "send", !.what = "configure"]
  <2>1. /\ p \in CallStates /\ p.at = "send" /\ p.what = "configure"
        /\ p.order = proc[t].order /\ p.call = proc[t].call
    BY ThreadTypes, FieldTypes DEF CallStates
  <2>2. \/ pool' = <<>> /\ Ends(t, "failed")
        \/ pool' = Fresh /\ Move(t, p)
    BY <1>6 DEF Connect
  <2> HIDE DEF p
  <2>3. Moves(t) /\ proc'[t].at \in {"idle", "send"}
    BY <1>1, <2>1, <2>2, MoveIs, EndsMoves DEF Moves, Idles, Prepares
  <2>4. pool' \in PoolStates
    BY <2>2, FreshPool DEF PoolStates
  <2>5. lock = NoThread
    BY <1>6 DEF Connect, MayConnect
  <2>6. LineIsHeld'
    BY <2>3, <2>5, LineKept DEF Waiting
  <2> QED BY <1>2, <1>3, <2>3, <2>4, <2>6 DEF LineStep, ensureVars
<1> QED BY <1>4, <1>5, <1>6

\* On the line a request goes from step to step and stays what it is.
LEMMA MoveToMoves ==
  ASSUME TypeOK, NEW t \in Threads, NEW step, MoveTo(t, step),
         \/ proc[t].at = "send" /\ step \in {"wait", "resend"}
         \/ proc[t].at = "wait" /\ step = "resend"
         \/ proc[t].at = "resend" /\ step = "wait_again"
  PROVE  Moves(t) /\ proc'[t].at = step /\ (IsOrder(t) => Carries(t))
<1> DEFINE p == [proc[t] EXCEPT !.at = step]
<1>1. /\ p \in CallStates /\ p.at = step /\ p.what = proc[t].what
      /\ p.order = proc[t].order /\ p.call = proc[t].call
  BY ThreadTypes, FieldTypes DEF CallStates
<1>2. Move(t, p)
  BY DEF MoveTo
<1> HIDE DEF p
<1>3. /\ proc' = [proc EXCEPT ![t] = proc'[t]] /\ proc'[t] \in CallStates
      /\ proc'[t].at = step /\ proc'[t].what = proc[t].what
      /\ proc'[t].order = proc[t].order /\ proc'[t].call = proc[t].call
  BY <1>1, <1>2, MoveIs
<1> QED BY <1>3 DEF Moves, Prepares, Carries, IsOrder

LEMMA SendSteps ==
  ASSUME TypeOK, LineIsHeld, NEW t \in Threads, Send(t)
  PROVE  LineStep(t) /\ UNCHANGED orderVars
<1>1. /\ pool \in PoolStates /\ turn \in 0..PoolSize
      /\ due \in BOOLEAN /\ failures \in 0..1 /\ cooling \in BOOLEAN
  BY DEF TypeOK, PoolStates
<1>2. /\ At(t, "send") /\ lock = NoThread /\ placed' = placed
      /\ UNCHANGED orderVars
  BY DEF Send
<1>3. CASE pool = <<>>
  <2>1. Return(t, "connection") /\ UNCHANGED poolVars
    BY <1>3 DEF Send
  <2>2. /\ Moves(t) /\ lock' = NoThread /\ proc'[t].at \notin Waiting \union {"resend"}
        /\ due' \in BOOLEAN /\ failures' \in 0..1 /\ cooling' \in BOOLEAN
    BY <2>1, ReturnMoves
  <2>3. LineIsHeld'
    BY <1>2, <2>2, LineKept
  <2> QED BY <1>1, <1>2, <2>1, <2>2, <2>3 DEF LineStep, poolVars
<1>4. CASE pool # <<>>
  <2>1. lock' = t /\ UNCHANGED ensureVars
    BY <1>4 DEF Send
  <2>2. MoveTo(t, "resend") \/ (MoveTo(t, "wait") /\ pool' = pool)
    BY <1>4 DEF Send
  <2>3. Moves(t) /\ proc'[t].at \in {"resend", "wait"} /\ (proc'[t].at = "wait" => pool' # <<>>)
    BY <1>2, <1>4, <2>2, MoveToMoves DEF At
  <2>4. turn' = NextTurn(PoolSize) /\ pool' \in {pool, [pool EXCEPT ![turn'] = "none"]}
    BY <1>1, <1>4, PoolLength DEF Send
  <2>5. turn' \in 1..PoolSize
    BY <1>1, <2>4, TurnIsIndex
  <2>6. pool' \in PoolStates /\ turn' \in 0..PoolSize
    BY <1>1, <1>4, <2>4, <2>5, PoolLength
  <2>7. LineIsHeld'
    BY <1>2, <2>1, <2>3, LineKept DEF Waiting
  <2> QED BY <1>1, <1>2, <2>1, <2>3, <2>6, <2>7 DEF LineStep, ensureVars
<1> QED BY <1>3, <1>4

LEMMA ResendSteps ==
  ASSUME TypeOK, LineIsHeld, NEW t \in Threads, Resend(t)
  PROVE  LineStep(t) /\ UNCHANGED orderVars
<1>1. /\ pool \in PoolStates /\ turn \in 0..PoolSize
      /\ due \in BOOLEAN /\ failures \in 0..1 /\ cooling \in BOOLEAN
  BY DEF TypeOK, PoolStates
<1>2. At(t, "resend") /\ placed' = placed /\ UNCHANGED orderVars /\ lock = t
  BY DEF Resend, LineIsHeld, At
<1>3. CASE bridge # "down"
  <2>1. /\ pool' = Fresh /\ turn' = NextTurn(PoolSize) /\ MoveTo(t, "wait_again")
        /\ lock' = lock /\ UNCHANGED ensureVars
    BY <1>3 DEF Resend, NewPool
  <2>2. Moves(t) /\ proc'[t].at = "wait_again"
    BY <1>2, <2>1, MoveToMoves DEF At
  <2>3. LineIsHeld'
    BY <1>2, <2>1, <2>2, FreshPool, LineKept DEF Waiting
  <2>4. pool' \in PoolStates /\ turn' \in 0..PoolSize
    BY <1>1, <2>1, FreshPool, TurnIsIndex
  <2> QED BY <1>1, <1>2, <2>1, <2>2, <2>3, <2>4 DEF LineStep, ensureVars
<1>4. CASE bridge = "down"
  <2>1. Return(t, "refused") /\ UNCHANGED poolVars
    BY <1>4 DEF Resend
  <2>2. /\ Moves(t) /\ lock' = NoThread /\ proc'[t].at \notin Waiting \union {"resend"}
        /\ due' \in BOOLEAN /\ failures' \in 0..1 /\ cooling' \in BOOLEAN
    BY <2>1, ReturnMoves
  <2>3. LineIsHeld'
    BY <1>2, <2>2, LineKept
  <2> QED BY <1>1, <1>2, <2>1, <2>2, <2>3 DEF LineStep, poolVars
<1> QED BY <1>3, <1>4

LEMMA AnswerSteps ==
  ASSUME TypeOK, LineIsHeld, NEW t \in Threads, Answer(t)
  PROVE  /\ LineStep(t) /\ (IsOrder(t) => Idles(t)) /\ UNCHANGED <<late, lost>>
         /\ UNCHANGED executed \/ (IsOrder(t) /\ Executes(t))
<1>1. /\ pool \in PoolStates /\ turn \in 0..PoolSize
  BY DEF TypeOK, PoolStates
<1>2. /\ proc[t].at \in Waiting /\ UNCHANGED <<poolVars, placed, late, lost>> /\ lock = t
      /\ UNCHANGED executed \/ (IsOrder(t) /\ Executes(t))
  BY DEF Answer, LineIsHeld
<1>3. PICK r : Return(t, r)
  BY DEF Answer
<1>4. /\ Moves(t) /\ lock' = NoThread /\ proc'[t].at \notin Waiting \union {"resend"}
      /\ due' \in BOOLEAN /\ failures' \in 0..1 /\ cooling' \in BOOLEAN
      /\ IsOrder(t) => Idles(t)
  BY <1>3, ReturnMoves
<1>5. LineIsHeld'
  BY <1>2, <1>4, LineKept
<1> QED BY <1>1, <1>2, <1>4, <1>5 DEF LineStep, poolVars

\* What a lost reply leaves behind: one execution more at most, and the order
\* among the lost ones.
Loses(t) ==
  /\ lost' = IF IsOrder(t) THEN lost \union {proc[t].order} ELSE lost
  /\ \/ UNCHANGED <<executed, late>>
     \/ IsOrder(t) /\ Executes(t) /\ UNCHANGED late
     \/ IsOrder(t) /\ late' = late \union {proc[t].order} /\ UNCHANGED executed

LEMMA LossSteps ==
  ASSUME TypeOK, LineIsHeld, NEW t \in Threads, TimeOut(t) \/ HangUp(t)
  PROVE  /\ LineStep(t) /\ Loses(t) /\ proc'[t].at # proc[t].at
         /\ IsOrder(t) => \/ Idles(t) /\ proc[t].at = "wait_again"
                          \/ Carries(t) /\ proc[t].at = "wait"
<1>1. /\ pool \in PoolStates /\ turn \in 0..PoolSize
      /\ due \in BOOLEAN /\ failures \in 0..1 /\ cooling \in BOOLEAN
  BY DEF TypeOK, PoolStates
<1>2. proc[t].at \in Waiting /\ Fail(t) /\ placed' = placed /\ turn' = turn /\ Loses(t)
  BY DEF TimeOut, HangUp, Loses, Lost
<1>3. lock = t /\ pool # <<>>
  BY <1>2 DEF LineIsHeld
<1>4. pool' \in PoolStates
  BY <1>1, PoolLength DEF TimeOut, HangUp
<1>5. CASE proc[t].at = "wait"
  <2>1. MoveTo(t, "resend") /\ lock' = lock /\ UNCHANGED ensureVars
    BY <1>2, <1>5 DEF Fail, Retries, At
  <2>2. Moves(t) /\ proc'[t].at = "resend" /\ (IsOrder(t) => Carries(t))
    BY <1>5, <2>1, MoveToMoves
  <2>3. LineIsHeld'
    BY <1>3, <2>1, <2>2, LineKept DEF Waiting
  <2> QED BY <1>1, <1>2, <1>3, <1>4, <1>5, <2>1, <2>2, <2>3 DEF LineStep, ensureVars
<1>6. CASE proc[t].at = "wait_again"
  <2>1. Return(t, "connection")
    BY <1>2, <1>6 DEF Fail, Retries, At
  <2>2. /\ Moves(t) /\ lock' = NoThread /\ proc'[t].at \notin Waiting \union {"resend"}
        /\ due' \in BOOLEAN /\ failures' \in 0..1 /\ cooling' \in BOOLEAN
        /\ IsOrder(t) => Idles(t)
    BY <2>1, ReturnMoves
  <2>3. LineIsHeld'
    BY <1>3, <2>2, LineKept
  <2> QED BY <1>1, <1>2, <1>4, <1>6, <2>2, <2>3 DEF LineStep
<1> QED BY <1>2, <1>5, <1>6 DEF Waiting

-----------------------------------------------------------------------------
(* The orders.                                                               *)

LEMMA OrderFacts ==
  ASSUME TypeOK, OrdersAreHeld, NEW t \in Threads
  PROVE  /\ proc[t].order \in 0..MaxOrders /\ placed \in 0..MaxOrders
         /\ proc[t].order <= placed
         /\ IsOrder(t) => proc[t].order \in Orders
<1>1. proc[t].order \in 0..MaxOrders /\ placed \in 0..MaxOrders
  BY DEF TypeOK
<1> QED BY <1>1 DEF OrdersAreHeld, Orders

LEMMA DoneIsNat ==
  ASSUME TypeOK, NEW o \in Orders
  PROVE  executed[o] \in 0..3 /\ Done(o) \in 0..4
<1>1. executed[o] \in 0..3
  BY DEF TypeOK
<1> QED BY <1>1 DEF Done

\* A step of a thread does not give its order to another one.
LEMMA StepKeepsHeld ==
  ASSUME TypeOK, OrdersAreHeld, NEW t \in Threads, Moves(t), placed' = placed
  PROVE  OrdersAreHeld'
<1>1. \A u \in Threads : u # t => proc'[u] = proc[u]
  BY DEF Moves, TypeOK
<1>2. proc'[t].order \in {0, proc[t].order} /\ placed \in Nat
  BY DEF Moves, Idles, Prepares, Carries, TypeOK
<1>3. /\ proc'[t].order <= placed
      /\ proc'[t].call = "order" => proc'[t].order # 0
      /\ proc'[t].at = "idle" => proc'[t].order = 0
      /\ proc'[t].what = "order" => /\ proc'[t].call = "order"
                                    /\ proc'[t].at \in {"send", "resend"} \union Waiting
  BY <1>2 DEF Moves, Idles, Prepares, Carries, OrdersAreHeld, Waiting, IsOrder
<1>4. \A u \in Threads :
        /\ proc'[u].order <= placed'
        /\ proc'[u].call = "order" => proc'[u].order # 0
        /\ proc'[u].at = "idle" => proc'[u].order = 0
        /\ proc'[u].what = "order" => /\ proc'[u].call = "order"
                                      /\ proc'[u].at \in {"send", "resend"} \union Waiting
  BY <1>1, <1>3 DEF OrdersAreHeld, IsOrder
<1>5. \A u, w \in Threads : proc'[u].order = proc'[w].order /\ proc'[u].order # 0 => u = w
  BY <1>1, <1>2 DEF OrdersAreHeld
<1> QED BY <1>4, <1>5 DEF OrdersAreHeld, IsOrder, Waiting

\* A step of a thread keeps the budget, if it keeps that of the order the
\* thread has on the line.
LEMMA StepKeepsBudget ==
  ASSUME TypeOK, OrdersAreHeld, OrdersAreBudgeted, NEW t \in Threads, Moves(t),
         placed' = placed,
         \A o \in Orders :
           IF IsOrder(t) /\ o = proc[t].order
           THEN /\ Done(o)' <= IF o \in lost' THEN 2 ELSE 1
                /\ Idles(t) \/ HalfSpent(o)'
                /\ proc'[t].at = "wait" => Untouched(o)'
           ELSE Done(o)' = Done(o) /\ (o \in lost' <=> o \in lost)
  PROVE  OrdersAreBudgeted'
<1>1. \A u \in Threads : u # t => proc'[u] = proc[u]
  BY DEF Moves, TypeOK
<1>2. ASSUME NEW o \in Orders
      PROVE  /\ Done(o)' <= IF o \in lost' THEN 2 ELSE 1
             /\ o > placed' => Untouched(o)'
  <2>1. CASE IsOrder(t) /\ o = proc[t].order
    BY <2>1, OrderFacts DEF Orders
  <2>2. CASE ~(IsOrder(t) /\ o = proc[t].order)
    BY <2>2 DEF OrdersAreBudgeted, Untouched
  <2> QED BY <2>1, <2>2
<1>3. ASSUME NEW u \in Threads, NEW o \in Orders, proc'[u].order = o
      PROVE  /\ HalfSpent(o)'
             /\ proc'[u].what # "order" \/ proc'[u].at \in {"send", "wait"} => Untouched(o)'
  <2>1. o # 0
    BY DEF Orders
  <2>2. CASE u # t
    <3>1. proc[u].order = o /\ proc[t].order # o
      BY <1>1, <1>3, <2>1, <2>2 DEF OrdersAreHeld
    <3> QED BY <1>1, <2>2, <3>1 DEF OrdersAreBudgeted, HalfSpent, Untouched, IsOrder
  <2>3. CASE u = t
    <3>1. CASE Prepares(t)
      BY <1>3, <2>3, <3>1 DEF Prepares, OrdersAreBudgeted, HalfSpent, Untouched
    <3>2. CASE Carries(t)
      <4>1. IsOrder(t) /\ o = proc[t].order /\ proc'[t].what = "order"
            /\ proc'[t].at # "send" /\ proc'[t].at # "idle"
        BY <1>3, <2>3, <3>2 DEF Carries
      <4> QED BY <2>3, <4>1 DEF Idles
    <3> QED BY <1>3, <2>1, <2>3, <3>1, <3>2 DEF Moves, Idles
  <2> QED BY <2>2, <2>3
<1> QED BY <1>2, <1>3 DEF OrdersAreBudgeted, IsOrder

\* What t's order on the line may have become so far.
LEMMA OnTheLine ==
  ASSUME TypeOK, OrdersAreHeld, OrdersAreBudgeted, NEW t \in Threads, IsOrder(t),
         NEW o \in Orders, o = proc[t].order
  PROVE  /\ HalfSpent(o) /\ Done(o) \in Nat
         /\ proc[t].at \in {"send", "wait"} => Untouched(o)
BY DoneIsNat DEF OrdersAreBudgeted

LEMMA ThreadKeepsBudget ==
  ASSUME TypeOK, LineIsHeld, OrdersAreHeld, OrdersAreBudgeted, NEW t \in Threads, Step(t)
  PROVE  LineStep(t) /\ OrdersAreBudgeted'
<1>1. executed \in [Orders -> 0..3]
  BY DEF TypeOK
<1>2. CASE LineStep(t) /\ UNCHANGED orderVars
  <2>1. \A o \in Orders : Done(o)' = Done(o) /\ lost' = lost
    BY <1>2 DEF orderVars, Done
  <2>2. ASSUME NEW o \in Orders, IsOrder(t), o = proc[t].order
        PROVE  /\ Done(o)' <= IF o \in lost' THEN 2 ELSE 1
               /\ HalfSpent(o)'
               /\ proc'[t].at = "wait" => Untouched(o)'
    <3>1. /\ HalfSpent(o)' /\ Done(o) \in Nat
          /\ proc[t].at \in {"send", "wait"} => Untouched(o)'
      BY <2>1, <2>2, OnTheLine DEF HalfSpent, Untouched
    <3>2. proc'[t].at = "wait" => proc[t].at = "send"
      BY <1>2, <2>2 DEF LineStep, Moves, Idles, Prepares, Carries
    <3> QED BY <2>1, <3>1, <3>2 DEF HalfSpent
  <2> QED BY <1>2, <2>1, <2>2, StepKeepsBudget DEF LineStep
<1>3. CASE /\ LineStep(t) /\ (IsOrder(t) => Idles(t)) /\ UNCHANGED <<late, lost>>
           /\ UNCHANGED executed \/ (IsOrder(t) /\ Executes(t))
  <2>1. ASSUME NEW o \in Orders, ~(IsOrder(t) /\ o = proc[t].order)
        PROVE  Done(o)' = Done(o) /\ lost' = lost
    BY <1>1, <1>3, <2>1 DEF Executes, Done
  <2>2. ASSUME NEW o \in Orders, IsOrder(t), o = proc[t].order
        PROVE  Done(o)' <= (IF o \in lost' THEN 2 ELSE 1) /\ proc'[t].at # "wait"
    <3>1. Done(o)' <= Done(o) + 1
      BY <1>1, <1>3, <2>2, DoneIsNat DEF Executes, Done
    <3>2. Done(o)' \in Nat
      BY <1>1, <1>3, <2>2 DEF Executes, Done
    <3> QED BY <1>3, <2>2, <3>1, <3>2, OnTheLine DEF HalfSpent, Idles
  <2> QED BY <1>3, <2>1, <2>2, StepKeepsBudget DEF LineStep
<1>4. CASE /\ LineStep(t) /\ Loses(t)
           /\ IsOrder(t) => \/ Idles(t) /\ proc[t].at = "wait_again"
                            \/ Carries(t) /\ proc[t].at = "wait"
  <2>1. ASSUME NEW o \in Orders, ~(IsOrder(t) /\ o = proc[t].order)
        PROVE  Done(o)' = Done(o) /\ (o \in lost' <=> o \in lost)
    BY <1>1, <1>4, <2>1 DEF Executes, Done, Loses
  <2>2. ASSUME NEW o \in Orders, IsOrder(t), o = proc[t].order
        PROVE  /\ Done(o)' <= IF o \in lost' THEN 2 ELSE 1
               /\ Idles(t) \/ HalfSpent(o)'
               /\ proc'[t].at # "wait"
    <3>1. Done(o)' <= Done(o) + 1 /\ o \in lost'
      BY <1>1, <1>4, <2>2, DoneIsNat DEF Executes, Done, Loses
    <3>2. Done(o)' \in Nat
      BY <1>1, <1>4, <2>2 DEF Executes, Done, Loses
    <3>3. HalfSpent(o) /\ Done(o) \in Nat /\ (proc[t].at = "wait" => Untouched(o))
      BY <2>2, OnTheLine
    <3>4. CASE Idles(t)
      BY <3>1, <3>2, <3>3, <3>4 DEF HalfSpent, Idles
    <3>5. CASE Carries(t) /\ proc[t].at = "wait"
      BY <3>1, <3>2, <3>3, <3>5 DEF HalfSpent, Untouched, Carries
    <3> QED BY <1>4, <2>2, <3>4, <3>5
  <2> QED BY <1>4, <2>1, <2>2, StepKeepsBudget DEF LineStep
<1> QED BY <1>2, <1>3, <1>4, EnsureSteps, SendSteps, ResendSteps, AnswerSteps, LossSteps
        DEF Step

-----------------------------------------------------------------------------
(* The inductive invariant.                                                  *)

\* A step of a thread keeps everything.
LEMMA StepKeeps ==
  ASSUME IInv, NEW t \in Threads, Step(t)
  PROVE  IInv'
<1>1. TypeOK /\ LineIsHeld /\ OrdersAreHeld /\ OrdersAreBudgeted
  BY DEF IInv
<1>2. LineStep(t) /\ OrdersAreBudgeted'
  BY <1>1, ThreadKeepsBudget
<1>3. LineIsHeld' /\ OrdersAreHeld'
  BY <1>1, <1>2, StepKeepsHeld DEF LineStep
<1>4. proc' \in [Threads -> CallStates]
  BY <1>1, <1>2, ThreadTypes DEF LineStep, Moves, TypeOK
<1>5. executed \in [Orders -> 0..3] /\ (IsOrder(t) => proc[t].order \in Orders)
  BY <1>1, OrderFacts DEF TypeOK
<1>6. /\ UNCHANGED executed \/ (IsOrder(t) /\ Executes(t))
      /\ late' = late \/ (IsOrder(t) /\ late' = late \union {proc[t].order})
      /\ lost' = lost \/ (IsOrder(t) /\ lost' = lost \union {proc[t].order})
  BY <1>1, EnsureSteps, SendSteps, ResendSteps, AnswerSteps, LossSteps DEF Step, Loses, orderVars
<1>7. late' \subseteq Orders /\ lost' \subseteq Orders
  BY <1>1, <1>5, <1>6 DEF TypeOK
<1>8. executed' \in [Orders -> 0..3]
  <2>1. executed' \in [Orders -> Nat]
    BY <1>5, <1>6 DEF Executes
  <2>2. ASSUME NEW o \in Orders
        PROVE  executed'[o] <= 2
    BY <1>2, <2>1 DEF OrdersAreBudgeted, Done
  <2> QED BY <2>1, <2>2
<1>9. faults' \in 0..MaxFaults
  <2>1. faults' = faults \/ (faults' = faults + 1 /\ faults' <= MaxFaults)
    BY DEF Step, BreakerOpen, Look, Connect, Send, Resend, Answer, TimeOut, HangUp
  <2>2. faults \in 0..MaxFaults /\ MaxFaults \in Nat
    BY <1>1, LinkAssumption DEF TypeOK
  <2> QED BY <2>1, <2>2
<1>10. bridge' = bridge /\ terminal' = terminal
  BY DEF Step, BreakerOpen, Look, Connect, Send, Resend, Answer, TimeOut, HangUp, bridgeVars
<1>11. TypeOK'
  BY <1>1, <1>2, <1>4, <1>7, <1>8, <1>9, <1>10
     DEF TypeOK, LineStep, CallStates, PoolStates, Steps, Requests, Waiting
<1> QED BY <1>2, <1>3, <1>11 DEF IInv

\* A new call brings a new order with it, or none.
LEMMA CallKeeps ==
  ASSUME IInv, NEW t \in Threads, Read(t) \/ PlaceOrder(t)
  PROVE  IInv'
<1>1. TypeOK /\ LineIsHeld /\ OrdersAreHeld /\ OrdersAreBudgeted
  BY DEF IInv
<1>2. PICK c \in Calls, o \in 0..MaxOrders :
        /\ Begin(t, c, o)
        /\ \/ c = "read" /\ o = 0 /\ placed' = placed
           \/ c = "order" /\ o = placed + 1 /\ placed' = placed + 1
        /\ placed' \in 0..MaxOrders
  <2>1. placed \in 0..MaxOrders /\ MaxOrders \in Nat
    BY <1>1, LinkAssumption DEF TypeOK
  <2>2. CASE Read(t)
    BY <2>1, <2>2 DEF Read, Calls
  <2>3. CASE PlaceOrder(t)
    <3>1. placed + 1 \in 0..MaxOrders
      BY <2>1, <2>3 DEF PlaceOrder
    <3> QED BY <2>3, <3>1 DEF PlaceOrder, Calls
  <2> QED BY <2>2, <2>3
<1> DEFINE p == [proc[t] EXCEPT !.at = "ensure", !.call = c, !.order = o, !.outcome = "none"]
<1>3. p \in CallStates /\ p.at = "ensure" /\ p.call = c /\ p.order = o /\ p.what = proc[t].what
  BY <1>1, ThreadTypes, FieldTypes DEF CallStates
<1>4. Move(t, p) /\ At(t, "idle")
  BY <1>2 DEF Begin
<1> HIDE DEF p
<1>5. /\ proc' \in [Threads -> CallStates] /\ \A u \in Threads : u # t => proc'[u] = proc[u]
      /\ proc'[t].at = "ensure" /\ proc'[t].call = c /\ proc'[t].order = o
      /\ proc'[t].what = proc[t].what
  BY <1>1, <1>3, <1>4, MoveIs, ThreadTypes DEF TypeOK, Move
<1>6. proc'[t].what # "order"
  BY <1>1, <1>4, <1>5 DEF OrdersAreHeld, IsOrder, At, Waiting
<1>7. UNCHANGED <<poolVars, lock, ensureVars, bridgeVars, orderVars, faults>>
  BY <1>2 DEF Begin
<1>8. TypeOK'
  BY <1>1, <1>2, <1>5, <1>7
     DEF TypeOK, CallStates, Steps, Requests, poolVars, ensureVars, bridgeVars, orderVars, Waiting
<1>9. LineIsHeld'
  BY <1>1, <1>5, <1>7 DEF LineIsHeld, poolVars, Waiting
<1>10. OrdersAreHeld'
  <2>1. \A u \in Threads : proc[u].order \in Nat /\ proc[u].order <= placed /\ placed \in Nat
    BY <1>1, OrderFacts
  <2>2. o <= placed' /\ (o # 0 => o > placed) /\ placed <= placed' /\ (c = "order" => o # 0)
    BY <1>2, <2>1
  <2>3. \A u \in Threads :
          /\ proc'[u].order <= placed'
          /\ proc'[u].call = "order" => proc'[u].order # 0
          /\ proc'[u].at = "idle" => proc'[u].order = 0
          /\ proc'[u].what = "order" => /\ proc'[u].call = "order"
                                        /\ proc'[u].at \in {"send", "resend"} \union Waiting
    <3> TAKE u \in Threads
    <3>1. CASE u = t
      BY <1>5, <1>6, <2>2, <3>1
    <3>2. CASE u # t
      <4>1. proc'[u].order <= placed'
        BY <1>2, <1>5, <2>1, <3>2
      <4> QED BY <1>1, <1>5, <3>2, <4>1 DEF OrdersAreHeld, IsOrder
    <3> QED BY <3>1, <3>2
  <2>4. ASSUME NEW u \in Threads, NEW w \in Threads, proc'[u].order = proc'[w].order,
               proc'[u].order # 0
        PROVE  u = w
    <3>1. CASE u # t /\ w # t
      BY <1>1, <1>5, <2>4, <3>1 DEF OrdersAreHeld
    <3>2. CASE u # t /\ w = t
      BY <1>5, <2>1, <2>2, <2>4, <3>2
    <3>3. CASE u = t /\ w # t
      BY <1>5, <2>1, <2>2, <2>4, <3>3
    <3> QED BY <3>1, <3>2, <3>3
  <2> QED BY <2>3, <2>4 DEF OrdersAreHeld, IsOrder, Waiting
<1>11. OrdersAreBudgeted'
  <2>1. executed' = executed /\ late' = late /\ lost' = lost
    BY <1>7 DEF orderVars
  <2>2. \A q \in Orders : q > placed' => q > placed
    BY <1>1, <1>2 DEF TypeOK, Orders
  <2>3. o \in Orders => o > placed
    BY <1>1, <1>2 DEF TypeOK, Orders
  <2>4. \A q \in Orders : Untouched(q) => HalfSpent(q)
    BY DEF Untouched, HalfSpent
  <2> QED BY <1>1, <1>5, <2>1, <2>2, <2>3, <2>4
          DEF OrdersAreBudgeted, Untouched, HalfSpent, Done, IsOrder
<1> QED BY <1>8, <1>9, <1>10, <1>11 DEF IInv

\* An order left in the hands of its handler has been counted already.
LEMMA LateKeeps ==
  ASSUME IInv, NEW o \in Orders, LateExecution(o)
  PROVE  IInv'
<1>1. TypeOK /\ LineIsHeld /\ OrdersAreHeld /\ OrdersAreBudgeted
  BY DEF IInv
<1>2. executed \in [Orders -> 0..3] /\ o \in late
  BY <1>1 DEF TypeOK, LateExecution
<1>3. \A q \in Orders : Done(q)' = Done(q)
  BY <1>2 DEF LateExecution, Done
<1>4. UNCHANGED <<proc, poolVars, lock, ensureVars, bridgeVars, placed, lost, faults>>
  BY DEF LateExecution
<1>5. OrdersAreBudgeted'
  BY <1>1, <1>3, <1>4 DEF OrdersAreBudgeted, Untouched, HalfSpent, IsOrder
<1>6. LineIsHeld' /\ OrdersAreHeld'
  BY <1>1, <1>4 DEF LineIsHeld, OrdersAreHeld, IsOrder, poolVars
<1>7. executed' \in [Orders -> 0..3]
  <2>1. executed' \in [Orders -> Nat]
    BY <1>2 DEF LateExecution
  <2>2. ASSUME NEW q \in Orders
        PROVE  executed'[q] <= 2
    BY <1>5, <2>1, <2>2 DEF OrdersAreBudgeted, Done
  <2> QED BY <2>1, <2>2
<1>8. late' \subseteq Orders
  BY <1>1 DEF LateExecution, TypeOK
<1>9. TypeOK'
  BY <1>1, <1>4, <1>7, <1>8 DEF TypeOK, poolVars, ensureVars, bridgeVars
<1> QED BY <1>5, <1>6, <1>9 DEF IInv

\* The bridge, the terminal and the clock take nothing but handlers away.
LEMMA OutsideKeeps ==
  ASSUME IInv,
         BridgeHangs \/ BridgeDies \/ BridgeStarts \/ TerminalGoes \/ TerminalComes
         \/ HeartbeatDue \/ CoolDown \/ UNCHANGED vars
  PROVE  IInv'
<1>1. TypeOK /\ LineIsHeld /\ OrdersAreHeld /\ OrdersAreBudgeted
  BY DEF IInv
<1>2. /\ UNCHANGED <<proc, turn, lock, placed, executed, lost>>
      /\ late' = late \/ late' = {}
  BY DEF BridgeHangs, BridgeDies, BridgeStarts, TerminalGoes, TerminalComes, HeartbeatDue,
         CoolDown, vars, poolVars, orderVars
<1>3. pool' \in PoolStates /\ (pool # <<>> => pool' # <<>>)
  <2>1. CASE pool' = pool
    BY <1>1, <2>1 DEF TypeOK, PoolStates
  <2>2. CASE BridgeDies
    <3> DEFINE f == [i \in DOMAIN pool |-> IF pool[i] = "up" THEN "dead" ELSE pool[i]]
    <3>1. pool \in PoolStates
      BY <1>1 DEF TypeOK, PoolStates
    <3>2. CASE pool = <<>>
      <4>1. f = <<>>
        BY <3>2
      <4> QED BY <2>2, <3>2, <4>1 DEF BridgeDies, PoolStates
    <3>3. CASE pool # <<>>
      <4>1. pool \in [1..PoolSize -> {"up", "dead", "none"}]
        BY <3>1, <3>3 DEF PoolStates
      <4>2. f \in [1..PoolSize -> {"up", "dead", "none"}]
        BY <4>1
      <4>3. \A g \in [1..PoolSize -> {"up", "dead", "none"}] : g # <<>>
        BY LinkAssumption
      <4> QED BY <2>2, <4>2, <4>3 DEF BridgeDies, PoolStates
    <3> QED BY <3>2, <3>3
  <2> QED BY <2>1, <2>2 DEF BridgeHangs, BridgeDies, BridgeStarts, TerminalGoes,
          TerminalComes, HeartbeatDue, CoolDown, vars, poolVars
<1>4. /\ bridge' \in {"up", "hung", "down"} /\ terminal' \in BOOLEAN /\ due' \in BOOLEAN
      /\ cooling' \in BOOLEAN /\ failures' = failures
  BY <1>1 DEF TypeOK, BridgeHangs, BridgeDies, BridgeStarts, TerminalGoes, TerminalComes,
     HeartbeatDue, CoolDown, vars, bridgeVars, ensureVars
<1>5. faults' \in 0..MaxFaults
  <2>1. faults' = faults \/ (faults' = faults + 1 /\ faults < MaxFaults)
    BY DEF BridgeHangs, BridgeDies, BridgeStarts, TerminalGoes, TerminalComes,
           HeartbeatDue, CoolDown, vars
  <2>2. faults \in 0..MaxFaults /\ MaxFaults \in Nat
    BY <1>1, LinkAssumption DEF TypeOK
  <2> QED BY <2>1, <2>2
<1>6. TypeOK'
  BY <1>1, <1>2, <1>3, <1>4, <1>5 DEF TypeOK, PoolStates
<1>7. LineIsHeld' /\ OrdersAreHeld'
  BY <1>1, <1>2, <1>3 DEF LineIsHeld, OrdersAreHeld, IsOrder
<1>8. OrdersAreBudgeted'
  <2>1. ASSUME NEW o \in Orders
        PROVE  Done(o)' <= Done(o) /\ Done(o)' \in Nat /\ Done(o) \in Nat
    <3>1. executed[o] \in 0..3 /\ executed'[o] = executed[o] /\ (o \in late' => o \in late)
      BY <1>1, <1>2, DoneIsNat
    <3> QED BY <3>1 DEF Done
  <2> QED BY <1>1, <1>2, <2>1 DEF OrdersAreBudgeted, Untouched, HalfSpent, IsOrder
<1> QED BY <1>6, <1>7, <1>8 DEF IInv

LEMMA InitHolds == Init => IInv
<1> SUFFICES ASSUME Init PROVE IInv
  OBVIOUS
<1>1. Idle("none") \in CallStates
  BY LinkAssumption DEF Idle, CallStates, Steps, Requests, Calls
<1>2. TypeOK
  <2>1. proc \in [Threads -> CallStates] /\ pool \in PoolStates
    BY <1>1, FreshPool DEF Init
  <2>2. executed \in [Orders -> 0..3] /\ placed \in 0..MaxOrders /\ faults \in 0..MaxFaults
        /\ turn \in 0..PoolSize /\ failures \in 0..1
    BY LinkAssumption DEF Init
  <2>3. late = {} /\ lost = {} /\ lock = NoThread /\ bridge = "up" /\ terminal = TRUE
        /\ due = FALSE /\ cooling = FALSE
    BY DEF Init
  <2> QED BY <2>1, <2>2, <2>3, Zenon DEF TypeOK, CallStates, PoolStates, Steps, Requests
<1>3. \A t \in Threads : proc[t].at = "idle" /\ proc[t].call = "read" /\ proc[t].what = "read"
                         /\ proc[t].order = 0
  BY DEF Init, Idle
<1>4. placed = 0 /\ \A o \in Orders : Done(o) = 0 /\ o \notin lost /\ o # 0
  BY DEF Init, Done, Orders
<1>5. LineIsHeld /\ OrdersAreHeld
  BY <1>3, <1>4 DEF LineIsHeld, OrdersAreHeld, Waiting, IsOrder
<1>6. OrdersAreBudgeted
  BY <1>3, <1>4 DEF OrdersAreBudgeted, Untouched, HalfSpent
<1> QED BY <1>2, <1>5, <1>6 DEF IInv

\* Every thread on the line holds the lock, every order is one thread's, and
\* no more has become of it than its requests allow.
THEOREM LinkInvariant == Spec => []IInv
<1>1. IInv /\ [Next]_vars => IInv'
  BY StepKeeps, CallKeeps, LateKeeps, OutsideKeeps DEF Next
<1> QED BY <1>1, InitHolds, PTL DEF Spec

\* Every variable keeps its type, whatever is lost, refused or comes late.
THEOREM TypeCorrect == Spec => []TypeOK
<1>1. IInv => TypeOK
  BY DEF IInv
<1> QED BY <1>1, LinkInvariant, PTL

\* A second execution of an order takes the loss of its first reply, and there
\* is never a third, though replies come late, threads retry and connections
\* are replaced: nothing is left of its budget.
THEOREM NoThirdExecution == Spec => []OnlyLossDoubles
<1>1. IInv => OnlyLossDoubles
  <2> SUFFICES ASSUME IInv, NEW o \in Orders
               PROVE  Copies(o) <= IF o \in lost THEN 2 ELSE 1
    BY DEF OnlyLossDoubles
  <2>1. TypeOK /\ OrdersAreHeld /\ OrdersAreBudgeted
    BY DEF IInv
  <2> DEFINE W == {t \in Threads : proc[t].at \in Waiting /\ IsOrder(t) /\ proc[t].order = o}
  <2>2. executed[o] + Cardinality({o} \intersect late) = Done(o) /\ Done(o) \in Nat
    <3>1. CASE o \in late
      <4>1. {o} \intersect late = {o} /\ Cardinality({o}) = 1
        BY <3>1, FS_Singleton
      <4> QED BY <2>1, <3>1, <4>1, DoneIsNat DEF Done
    <3>2. CASE o \notin late
      <4>1. {o} \intersect late = {} /\ Cardinality({}) = 0
        BY <3>2, FS_EmptySet
      <4> QED BY <2>1, <3>2, <4>1, DoneIsNat DEF Done
    <3> QED BY <3>1, <3>2
  <2>3. CASE W = {}
    <3>1. Cardinality(W) = 0
      BY <2>3, FS_EmptySet
    <3>2. Copies(o) = Done(o)
      BY <2>2, <3>1 DEF Copies
    <3> QED BY <2>1, <3>2 DEF OrdersAreBudgeted
  <2>4. CASE W # {}
    <3>1. PICK t \in W : TRUE
      BY <2>4
    <3>2. t \in Threads /\ proc[t].at \in Waiting /\ proc[t].order = o /\ o # 0
      BY <3>1 DEF Orders
    <3>3. W = {t}
      BY <2>1, <3>1, <3>2 DEF OrdersAreHeld
    <3>4. Cardinality({t}) = 1
      BY FS_Singleton
    <3>5. Copies(o) = Done(o) + 1
      BY <2>2, <3>3, <3>4 DEF Copies
    <3>6. HalfSpent(o)
      BY <2>1, <3>2 DEF OrdersAreBudgeted
    <3> QED BY <2>2, <3>5, <3>6 DEF HalfSpent
  <2> QED BY <2>3, <2>4
<1> QED BY <1>1, LinkInvariant, PTL

\* A failure without a lost reply leaves nothing behind: until then nothing has
\* become of an order but by the answer that ends its call.
THEOREM FailuresAreClean == Spec => FailuresLeaveNothing
<1>1. IInv /\ [Next]_vars =>
        [\A t \in Threads, o \in Orders :
           /\ proc[t].order = o /\ proc'[t].order = 0 /\ proc'[t].outcome = "failed"
           /\ o \notin lost'
           => executed'[o] = 0 /\ o \notin late']_vars
  <2> SUFFICES ASSUME IInv, Next, NEW t \in Threads, NEW o \in Orders, proc[t].order = o,
                      proc'[t].order = 0, proc'[t].outcome = "failed", o \notin lost'
               PROVE  executed'[o] = 0 /\ o \notin late'
    OBVIOUS
  <2>1. TypeOK /\ LineIsHeld /\ OrdersAreHeld /\ OrdersAreBudgeted
    BY DEF IInv
  <2>2. proc'[t] # proc[t]
    <3>1. o # 0
      BY DEF Orders
    <3> QED BY <3>1
  <2>3. Step(t)
    <3>1. PICK u \in Threads : Read(u) \/ PlaceOrder(u) \/ Step(u)
      BY <2>2 DEF Next, LateExecution, BridgeHangs, BridgeDies, BridgeStarts, TerminalGoes,
         TerminalComes, HeartbeatDue, CoolDown
    <3>2. CASE Step(u)
      <4>1. Moves(u)
        BY <2>1, <3>2, ThreadKeepsBudget DEF LineStep
      <4> QED BY <2>1, <2>2, <3>2, <4>1 DEF Moves, TypeOK
    <3>3. CASE Read(u) \/ PlaceOrder(u)
      <4>1. PICK c, n : Move(u, [proc[u] EXCEPT !.at = "ensure", !.call = c, !.order = n,
                                                !.outcome = "none"])
        BY <3>3 DEF Read, PlaceOrder, Begin
      <4>2. proc[u] \in CallStates
        BY <2>1, ThreadTypes
      <4>3. u # t
        BY <2>1, <4>1, <4>2 DEF Move, TypeOK, CallStates
      <4> QED BY <2>1, <2>2, <4>1, <4>3 DEF Move, TypeOK
    <3> QED BY <3>1, <3>2, <3>3
  <2>4. /\ lost' = lost \/ (IsOrder(t) /\ lost' = lost \union {o})
        /\ lost' = lost => UNCHANGED <<executed, late>> \/ (IsOrder(t) /\ Answer(t))
                           \/ (IsOrder(t) /\ o \in lost')
    BY <2>1, <2>3, EnsureSteps, SendSteps, ResendSteps, AnswerSteps, LossSteps
       DEF Step, Loses, orderVars
  <2>5. executed[o] = 0 /\ o \notin late
    <3>1. o \notin lost /\ HalfSpent(o)
      BY <2>1, <2>4 DEF OrdersAreBudgeted
    <3>2. executed[o] \in Nat
      BY <2>1 DEF TypeOK
    <3> QED BY <3>1, <3>2 DEF HalfSpent, Done
  <2>6. ASSUME IsOrder(t), Answer(t) PROVE UNCHANGED <<executed, late>>
    <3>1. ASSUME Return(t, "ok") PROVE FALSE
      <4>1. Ends(t, "ok")
        BY <2>6, <3>1 DEF Return, IsOrder
      <4> QED BY <2>1, <4>1 DEF Ends, Move, Idle, TypeOK
    <3> QED BY <2>6, <3>1 DEF Answer
  <2> QED BY <2>4, <2>5, <2>6
<1> QED BY <1>1, LinkInvariant, PTL DEF Spec, FailuresLeaveNothing

\* Nobody else takes away the socket on which a thread waits: the pool changes
\* under the lock, which that thread holds.
THEOREM WaitersKeepTheirSockets == Spec => SocketsAreNotTornAway
<1>1. IInv /\ [Next]_vars =>
        [\A t \in Threads : proc[t].at \in Waiting /\ pool' # pool
           => proc'[t] # proc[t] \/ bridge' # bridge]_vars
  <2> SUFFICES ASSUME IInv, Next, NEW t \in Threads, proc[t].at \in Waiting, pool' # pool,
                      bridge' = bridge
               PROVE  proc'[t] # proc[t]
    OBVIOUS
  <2>1. TypeOK /\ LineIsHeld
    BY DEF IInv
  <2>2. lock = t /\ lock # NoThread
    BY <2>1, LinkAssumption DEF LineIsHeld
  <2>3. ~(\E u \in Threads : Connect(u) \/ Send(u))
    BY <2>2 DEF Connect, MayConnect, Send
  <2>4. ~(\E u \in Threads : Resend(u))
    BY <2>1, <2>2 DEF Resend, LineIsHeld, At, Waiting
  <2>5. PICK u \in Threads : TimeOut(u) \/ HangUp(u)
    BY <2>3, <2>4 DEF Next, Step, Read, PlaceOrder, Begin, BreakerOpen, Look, Answer,
       LateExecution, BridgeHangs, BridgeDies, BridgeStarts, TerminalGoes, TerminalComes,
       HeartbeatDue, CoolDown, poolVars
  <2>6. u = t
    BY <2>1, <2>2, <2>5 DEF TimeOut, HangUp, LineIsHeld
  <2> QED BY <2>1, <2>5, <2>6, LossSteps
<1> QED BY <1>1, LinkInvariant, PTL DEF Spec, SocketsAreNotTornAway

-----------------------------------------------------------------------------
(* The link implements OrderFate.                                            *)

\* A handler that nobody waits for was given its order by a request whose reply
\* has been lost.
LateIsLost == late \subseteq lost

LEMMA NextLateIsLost ==
  ASSUME IInv, LateIsLost, [Next]_vars
  PROVE  LateIsLost'
<1>1. TypeOK /\ LineIsHeld /\ OrdersAreHeld
  BY DEF IInv
<1>2. ASSUME NEW t \in Threads, Step(t) PROVE LateIsLost'
  <2>1. UNCHANGED <<late, lost>> \/ Loses(t)
    BY <1>1, <1>2, EnsureSteps, SendSteps, ResendSteps, AnswerSteps, LossSteps
       DEF Step, orderVars
  <2> QED BY <2>1 DEF Loses, LateIsLost
<1>3. ASSUME NEW t \in Threads, Read(t) \/ PlaceOrder(t) PROVE LateIsLost'
  BY <1>3 DEF Read, PlaceOrder, Begin, orderVars, LateIsLost
<1>4. ASSUME NEW o \in Orders, LateExecution(o) PROVE LateIsLost'
  BY <1>4 DEF LateExecution, LateIsLost
<1>5. CASE \/ BridgeHangs \/ BridgeDies \/ BridgeStarts \/ TerminalGoes \/ TerminalComes
           \/ HeartbeatDue \/ CoolDown \/ UNCHANGED vars
  BY <1>5 DEF BridgeHangs, BridgeDies, BridgeStarts, TerminalGoes, TerminalComes, HeartbeatDue,
     CoolDown, vars, orderVars, LateIsLost
<1> QED BY <1>2, <1>3, <1>4, <1>5 DEF Next

\* A step of t closes the call of the order it has, or of none.
LEMMA CallsClose ==
  ASSUME TypeOK, OrdersAreHeld, NEW t \in Threads, Moves(t)
  PROVE  /\ IF Idles(t) /\ proc[t].order # 0
            THEN Open' = Open \ {proc[t].order} ELSE Open' = Open
         /\ proc[t].order # 0 => proc[t].order \in Open /\ proc[t].order \in Orders
<1>1. proc'[t].order = IF Idles(t) THEN 0 ELSE proc[t].order
  BY DEF Moves, Idles, Prepares, Carries
<1>2. \A u \in Threads : u # t => proc'[u].order = proc[u].order
  BY DEF Moves, TypeOK
<1>3. proc[t].order # 0 => proc[t].order \in Open /\ proc[t].order \in Orders
  BY OrderFacts DEF Open, Orders
<1>4. CASE Idles(t) /\ proc[t].order # 0
  <2>1. \A u \in Threads : u # t => proc[u].order # proc[t].order
    BY <1>4 DEF OrdersAreHeld
  <2>2. Open' = Open \ {proc[t].order}
    BY <1>1, <1>2, <1>4, <2>1 DEF Open
  <2> QED BY <1>3, <1>4, <2>2
<1>5. CASE ~(Idles(t) /\ proc[t].order # 0)
  <2>1. \A u \in Threads : proc'[u].order = proc[u].order
    BY <1>1, <1>2, <1>5
  <2>2. Open' = Open
    BY <2>1 DEF Open
  <2> QED BY <1>3, <1>5, <2>2
<1> QED BY <1>4, <1>5

\* What t has on the line may be executed once more.
LEMMA RoomForOneMore ==
  ASSUME IInv, NEW t \in Threads, IsOrder(t), Executes(t),
         lost' = lost \/ lost' = lost \union {proc[t].order}
  PROVE  Fate!Execute(proc[t].order)
<1> DEFINE o == proc[t].order
<1>1. TypeOK /\ OrdersAreHeld /\ OrdersAreBudgeted
  BY DEF IInv
<1>2. o \in Orders /\ executed[o] \in Nat /\ HalfSpent(o)
  BY <1>1, OrderFacts, OnTheLine, DoneIsNat
<1>3. executed[o] <= IF o \in lost THEN 1 ELSE 0
  BY <1>2 DEF HalfSpent, Done
<1>4. executed[o] < IF o \in lost' THEN 2 ELSE 1
  BY <1>2, <1>3
<1> QED BY <1>4 DEF Fate!Execute, Executes

\* A step of a thread is the end of an order's call, the loss of its reply, or nothing.
LEMMA StepFate ==
  ASSUME IInv, NEW t \in Threads, Step(t)
  PROVE  [Fate!Next]_(Fate!vars)
<1> DEFINE o == proc[t].order
<1>1. TypeOK /\ LineIsHeld /\ OrdersAreHeld /\ OrdersAreBudgeted
  BY DEF IInv
<1>2. LineStep(t)
  BY <1>1, ThreadKeepsBudget
<1>3. /\ IF Idles(t) /\ o # 0 THEN Open' = Open \ {o} ELSE Open' = Open
      /\ o # 0 => o \in Open /\ o \in Orders
      /\ IsOrder(t) => o # 0
  BY <1>1, <1>2, CallsClose, OrderFacts DEF LineStep, Orders
<1>4. placed' = placed /\ 1..placed' = 1..placed
  BY <1>2 DEF LineStep
<1>5. \/ UNCHANGED orderVars
      \/ /\ UNCHANGED lost
         /\ IsOrder(t) => Idles(t)
         /\ UNCHANGED executed \/ (IsOrder(t) /\ Executes(t))
      \/ Loses(t)
  BY <1>1, <1>2, EnsureSteps, SendSteps, ResendSteps, AnswerSteps, LossSteps DEF Step
<1>6. CASE UNCHANGED <<executed, lost>>
  <2>1. CASE Idles(t) /\ o # 0
    <3>1. Fate!End(o)
      BY <1>3, <1>4, <1>6, <2>1 DEF Fate!End
    <3> QED BY <1>3, <2>1, <3>1 DEF Fate!Next
  <2>2. CASE ~(Idles(t) /\ o # 0)
    BY <1>3, <1>4, <1>6, <2>2 DEF Fate!vars
  <2> QED BY <2>1, <2>2
<1>7. CASE UNCHANGED lost /\ IsOrder(t) /\ Idles(t) /\ Executes(t)
  <2>1. Fate!Execute(o)
    BY <1>7, RoomForOneMore
  <2>2. Fate!End(o)
    BY <1>3, <1>4, <1>7, <2>1 DEF Fate!End
  <2> QED BY <1>3, <1>7, <2>2 DEF Fate!Next
<1>8. CASE Loses(t) /\ IsOrder(t)
  <2>1. lost' = lost \union {o} /\ (UNCHANGED executed \/ Executes(t))
    BY <1>8 DEF Loses
  <2>2. UNCHANGED executed \/ Fate!Execute(o)
    BY <1>8, <2>1, RoomForOneMore
  <2>3. o \in Open /\ o \in Orders /\ Open' \in {Open, Open \ {o}}
    BY <1>3, <1>8
  <2>4. Fate!Lose(o)
    BY <1>4, <2>1, <2>2, <2>3 DEF Fate!Lose
  <2> QED BY <2>3, <2>4 DEF Fate!Next
<1> QED BY <1>5, <1>6, <1>7, <1>8 DEF orderVars, Loses

\* A new call places the order it brings.
LEMMA CallFate ==
  ASSUME IInv, NEW t \in Threads, Read(t) \/ PlaceOrder(t)
  PROVE  [Fate!Next]_(Fate!vars)
<1>1. TypeOK /\ OrdersAreHeld /\ OrdersAreBudgeted
  BY DEF IInv
<1>2. placed \in 0..MaxOrders /\ proc[t] \in CallStates /\ MaxOrders \in Nat
  BY <1>1, ThreadTypes, LinkAssumption DEF TypeOK
<1>3. PICK c, n : Begin(t, c, n) /\ \/ n = 0 /\ placed' = placed
                                    \/ n = placed + 1 /\ placed' = placed + 1 /\ n \in Orders
  <2>1. placed < MaxOrders => placed + 1 \in Orders
    BY <1>2 DEF Orders
  <2> QED BY <2>1 DEF Read, PlaceOrder
<1>4. proc'[t].order = n /\ \A u \in Threads : u # t => proc'[u] = proc[u]
  BY <1>1, <1>2, <1>3 DEF Begin, Move, TypeOK, CallStates
<1>5. UNCHANGED <<executed, lost>>
  BY <1>3 DEF Begin, orderVars
<1>6. proc[t].order = 0
  BY <1>1, <1>3 DEF OrdersAreHeld, Begin, At
<1>7. CASE n = 0 /\ placed' = placed
  <2>1. \A u \in Threads : proc'[u].order = proc[u].order
    BY <1>4, <1>6, <1>7
  <2>2. Open' = Open
    BY <2>1 DEF Open
  <2> QED BY <1>5, <1>7, <2>2 DEF Fate!vars
<1>8. CASE n = placed + 1 /\ placed' = placed + 1 /\ n \in Orders
  <2>1. Open' = Open \union {n}
    BY <1>4, <1>6, <1>8 DEF Open, Orders
  <2>2. n \notin 1..placed /\ 1..placed' = (1..placed) \union {n}
    BY <1>2, <1>8
  <2>3. Fate!Place(n)
    BY <1>5, <2>1, <2>2 DEF Fate!Place
  <2> QED BY <1>8, <2>3 DEF Fate!Next
<1> QED BY <1>3, <1>7, <1>8

\* Whatever happens on either end of the line is one step of an order, or none.
LEMMA FateStep ==
  ASSUME IInv, LateIsLost, [Next]_vars
  PROVE  [Fate!Next]_(Fate!vars)
<1>1. ASSUME NEW o \in Orders, LateExecution(o) PROVE [Fate!Next]_(Fate!vars)
  <2>1. executed[o] \in Nat /\ o \in late /\ o \in lost /\ Done(o) <= 2
    BY <1>1 DEF LateExecution, LateIsLost, IInv, OrdersAreBudgeted, TypeOK
  <2>2. executed[o] < 2
    BY <2>1 DEF Done
  <2>3. UNCHANGED <<proc, placed, lost>> /\ executed' = [executed EXCEPT ![o] = @ + 1]
    BY <1>1 DEF LateExecution
  <2>4. Open' = Open
    BY <2>3 DEF Open
  <2>5. Fate!ExecuteLate(o)
    BY <2>1, <2>2, <2>3, <2>4 DEF Fate!ExecuteLate, Fate!Execute
  <2> QED BY <2>5 DEF Fate!Next
<1>2. CASE \/ BridgeHangs \/ BridgeDies \/ BridgeStarts \/ TerminalGoes \/ TerminalComes
           \/ HeartbeatDue \/ CoolDown \/ UNCHANGED vars
  <2>1. UNCHANGED <<proc, placed, executed, lost>>
    BY <1>2 DEF BridgeHangs, BridgeDies, BridgeStarts, TerminalGoes, TerminalComes,
       HeartbeatDue, CoolDown, vars, orderVars
  <2>2. Open' = Open
    BY <2>1 DEF Open
  <2> QED BY <2>1, <2>2 DEF Fate!vars
<1> QED BY <1>1, <1>2, StepFate, CallFate DEF Next

\* Every behaviour of the line is one of OrderFate: an order has one call, is
\* executed in the step that ends it or made doubtful by the loss of a reply, and
\* what retries, new connections and late handlers add stays within that.
THEOREM Refinement == Spec => ImplementsOrderFate
<1>1. Init => LateIsLost /\ Fate!Init
  <2> SUFFICES ASSUME Init PROVE LateIsLost /\ Fate!Init
    OBVIOUS
  <2>1. Open = {} /\ 1..placed = {}
    BY DEF Init, Idle, Open
  <2> QED BY <2>1 DEF Init, LateIsLost, Fate!Init
<1>2. IInv /\ LateIsLost /\ [Next]_vars => LateIsLost' /\ [Fate!Next]_(Fate!vars)
  BY NextLateIsLost, FateStep
<1> QED BY <1>1, <1>2, LinkInvariant, PTL DEF Spec, ImplementsOrderFate, Fate!Spec
=============================================================================
