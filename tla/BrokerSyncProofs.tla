-------------------------- MODULE BrokerSyncProofs --------------------------
(***************************************************************************)
(* Theorems about BrokerSync, for every number of assets, every limit of   *)
(* the sweep and every number of orders, faults and restarts.              *)
(***************************************************************************)
EXTENDS BrokerSync, SequenceTheorems, FiniteSetTheorems, TLAPS

-----------------------------------------------------------------------------
(* The invariants.                                                           *)

\* A ticket of the last snapshot belonged to a position of it, and was, like
\* every ticket in the book, an order of that position's asset.
SnapshotOwn ==
  \A a \in Assets : disk.ticket[a] # 0 =>
    /\ a \in disk.position /\ disk.ticket[a] \in DOMAIN owner
    /\ owner[disk.ticket[a]] = a

\* While its time to live lasts, and no call goes wrong, the cache holds every
\* living ticket but those of actors whose turn is over.
CacheCovers ==
  faults = 0 /\ fresh => \A t \in live : t \in cache \/ turn[owner[t]] = "done"

\* As long as no call goes wrong, the account holds one position of a symbol at
\* most.
NoTwin == faults = 0 => \A t, u \in live : owner[t] = owner[u] => t = u

\* The sweep has yet to count the fetch that did not show t.
Uncounted(t) == phase = "sweep" /\ t \notin view /\ at <= owner[t]

\* Every miss of a living ticket, counted or about to be, was a call that went
\* wrong, and nothing is counted against an order not yet sent.
MissesAreFaults ==
  /\ \A t \in live : missing[t] + (IF Uncounted(t) THEN 1 ELSE 0) <= faults
  /\ \A t \in Tickets : t > Len(owner) => missing[t] = 0

\* The first three are about the book and its snapshot.
Books == TypeOK /\ TicketsAreOwn /\ SnapshotOwn

\* All of them together, which no step breaks.
IInv == Books /\ CacheCovers /\ NoTwin /\ MissesAreFaults

-----------------------------------------------------------------------------
(* The account: orders are numbered as they fill.                            *)

\* The orders that have filled are those up to the last one.
LEMMA OrdersSoFar ==
  ASSUME TypeOK
  PROVE  /\ Len(owner) \in 0..MaxTickets /\ DOMAIN owner = 1..Len(owner)
         /\ \A t \in DOMAIN owner : owner[t] \in Assets /\ t \in Tickets /\ t \in Nat \ {0}
<1>1. owner \in Seq(Assets) /\ Len(owner) <= MaxTickets
  BY DEF TypeOK
<1>2. Len(owner) \in Nat /\ DOMAIN owner = 1..Len(owner)
  BY <1>1, LenProperties
<1>3. \A t \in 1..Len(owner) : owner[t] \in Assets
  BY <1>1, ElementOfSeq
<1> QED BY <1>1, <1>2, <1>3, SyncAssumption DEF Tickets

\* Orders that fill come after all others, and leave those what they were.
LEMMA FillingAppends ==
  ASSUME TypeOK, NEW a \in Assets, NEW k \in 1..2, Filled(a, k)
  PROVE  /\ owner' \in Seq(Assets) /\ Len(owner') = Len(owner) + k
         /\ Len(owner') <= MaxTickets
         /\ DOMAIN owner' = 1..(Len(owner) + k)
         /\ \A t \in DOMAIN owner : t \in DOMAIN owner' /\ owner'[t] = owner[t]
         /\ \A t \in (Len(owner) + 1)..(Len(owner) + k) : owner'[t] = a
         /\ live' = live \union ((Len(owner) + 1)..(Len(owner) + k))
<1> DEFINE new == [i \in 1..k |-> a]
<1>1. owner \in Seq(Assets) /\ Len(owner) \in Nat /\ DOMAIN owner = 1..Len(owner)
  BY OrdersSoFar DEF TypeOK
<1>2. new \in Seq(Assets) /\ Len(new) = k /\ \A i \in 1..k : new[i] = a
  OBVIOUS
<1>3. owner' = owner \o new
  BY DEF Filled
<1> HIDE DEF new
<1>4. /\ owner' \in Seq(Assets) /\ Len(owner') = Len(owner) + k
      /\ \A i \in 1..(Len(owner) + k) :
           owner'[i] = IF i <= Len(owner) THEN owner[i] ELSE new[i - Len(owner)]
  BY <1>1, <1>2, <1>3, ConcatProperties
<1>5. DOMAIN owner' = 1..(Len(owner) + k)
  BY <1>4, LenProperties
<1>6. \A t \in (Len(owner) + 1)..(Len(owner) + k) : t - Len(owner) \in 1..k
  BY <1>1
<1> QED BY <1>1, <1>2, <1>4, <1>5, <1>6 DEF Filled

-----------------------------------------------------------------------------
(* Types, and whose tickets the book holds.                                  *)

LEMMA InitBooks == Init => Books
<1> SUFFICES ASSUME Init PROVE Books
  OBVIOUS
<1> USE SyncAssumption DEF Init, Assets, Tickets, NoTickets
<1>1. owner \in Seq(Assets) /\ Len(owner) <= MaxTickets
  OBVIOUS
<1>2. missing \in [Tickets -> 0..(MaxStale - 1)] /\ at \in 1..(N + 1)
  OBVIOUS
<1>3. ticket \in [Assets -> 0..MaxTickets] /\ turn \in [Assets -> {"start", "closed", "done"}]
  OBVIOUS
<1>4. disk \in [position : SUBSET Assets, ticket : [Assets -> 0..MaxTickets]]
  OBVIOUS
<1>5. /\ phase \in {"trade", "portfolio", "sweep", "save"}
      /\ position \subseteq Assets /\ \A a \in Assets : ticket[a] = 0
      /\ live \subseteq DOMAIN owner /\ cache \subseteq DOMAIN owner
      /\ view \subseteq DOMAIN owner /\ fresh \in BOOLEAN
  OBVIOUS
<1>7. faults \in 0..MaxFaults /\ crashes \in 0..MaxCrashes
  OBVIOUS
<1>8. TypeOK
  BY <1>1, <1>2, <1>3, <1>4, <1>5, <1>7, Zenon DEF TypeOK
<1>6. TicketsAreOwn /\ SnapshotOwn
  BY DEF TicketsAreOwn, SnapshotOwn
<1> QED BY <1>8, <1>6 DEF Books

\* A fetch shows orders that have filled.
LEMMA FetchedOrders ==
  ASSUME TypeOK, NEW v, NEW n, Fetched(v, n) \/ Positions(v, n)
  PROVE  v \subseteq DOMAIN owner /\ cache' \subseteq DOMAIN owner /\ fresh' \in BOOLEAN
BY DEF TypeOK, Fetched, Positions, cacheVars

LEMMA SpentFaults ==
  ASSUME TypeOK, NEW n \in Nat, Spend(n)
  PROVE  faults' \in 0..MaxFaults
BY SyncAssumption DEF TypeOK, Spend

\* k orders of a have joined the others.
Grown(a, k) ==
  /\ Len(owner) + k <= MaxTickets
  /\ owner' \in Seq(Assets) /\ Len(owner') = Len(owner) + k
  /\ DOMAIN owner' = 1..(Len(owner) + k)
  /\ \A t \in DOMAIN owner : t \in DOMAIN owner' /\ owner'[t] = owner[t]
  /\ \A t \in (Len(owner) + 1)..(Len(owner) + k) : owner'[t] = a
  /\ live' = live \union ((Len(owner) + 1)..(Len(owner) + k))

\* An entry sends no order, one or two, and leaves the book alone or opens a
\* position whose ticket is the old one, the last order's or an orphan's of its
\* symbol.  When no call goes wrong it sends one order at most, and only if the
\* account, or the cache, shows nothing of its symbol.
LEMMA EntryOrders ==
  ASSUME TypeOK, NEW a \in Assets, Enter(a)
  PROVE  \E k \in 0..2 :
           /\ Grown(a, k)
           /\ \/ UNCHANGED bookVars
              \/ \E t : /\ OpenPaper(a, t)
                       /\ \/ t = ticket[a]
                          \/ k > 0 /\ t = Len(owner) + k
                          \/ t \in DOMAIN owner /\ owner[t] = a
           /\ cache' \subseteq DOMAIN owner /\ fresh' \in BOOLEAN
           /\ faults' \in 0..MaxFaults /\ faults' >= faults
           /\ faults' = 0 => /\ faults = 0 /\ k <= 1
                            /\ \E v : Positions(v, 0) /\ (k > 0 => ~Blocked(a, v))
<1>0. faults \in Nat
  BY DEF TypeOK
<1>1. ASSUME UNCHANGED accountVars
      PROVE  Grown(a, 0)
  BY <1>1, OrdersSoFar DEF accountVars, TypeOK, Grown
<1>2. ASSUME NEW k \in 1..2, Filled(a, k)
      PROVE  Grown(a, k)
  BY <1>2, FillingAppends DEF Filled, Grown
<1>3. CASE Inherit(a) /\ Spend(1) /\ UNCHANGED <<accountVars, cacheVars>>
  <2>1. faults' \in 0..MaxFaults /\ faults' >= faults /\ faults' # 0
    BY <1>0, <1>3, SpentFaults DEF Spend
  <2>2. cache' \subseteq DOMAIN owner /\ fresh' \in BOOLEAN
    BY <1>3 DEF cacheVars, TypeOK
  <2> QED BY <1>1, <1>3, <2>1, <2>2 DEF Inherit
<1>4. ASSUME NEW v \in SUBSET DOMAIN owner, NEW n \in 0..1, NEW m \in 0..1,
             Positions(v, n), Spend(n + m),
             \/ a \in TooSmall /\ Inherit(a) /\ m = 0 /\ UNCHANGED accountVars
             \/ a \notin TooSmall /\ ~Blocked(a, v) /\ Order(a, m)
             \/ /\ a \notin TooSmall /\ Blocked(a, v)
                /\ \E t \in Adoptable(a, v) : OpenPaper(a, t)
                /\ m = 0 /\ UNCHANGED accountVars
      PROVE  \E k \in 0..2 :
               /\ Grown(a, k)
               /\ m = 0 => k <= 1
               /\ k > 0 /\ m = 0 => ~Blocked(a, v)
               /\ \/ UNCHANGED bookVars
                  \/ \E t : /\ OpenPaper(a, t)
                           /\ \/ t = ticket[a]
                              \/ k > 0 /\ t = Len(owner) + k
                              \/ t \in DOMAIN owner /\ owner[t] = a
  <2>1. CASE Inherit(a) /\ UNCHANGED accountVars
    BY <1>1, <2>1 DEF Inherit
  <2>2. CASE (\E t \in Adoptable(a, v) : OpenPaper(a, t)) /\ UNCHANGED accountVars
    <3>1. \A t \in Adoptable(a, v) : t = ticket[a] \/ (t \in DOMAIN owner /\ owner[t] = a)
      BY DEF Adoptable, Of
    <3> QED BY <1>1, <2>2, <3>1
  <2>3. CASE ~Blocked(a, v) /\ Order(a, m)
    <3>1. CASE m = 0 /\ Filled(a, 1) /\ (OpenPaper(a, Len(owner) + 1) \/ UNCHANGED bookVars)
      BY <1>2, <2>3, <3>1
    <3>2. CASE m = 0 /\ UNCHANGED <<accountVars, bookVars>>
      BY <1>1, <3>2
    <3>3. CASE m = 1 /\ (\E k \in 1..2 : Filled(a, k)) /\ UNCHANGED bookVars
      BY <1>2, <3>3
    <3>4. CASE m = 1 /\ Filled(a, 2) /\ OpenPaper(a, Len(owner) + 2)
      BY <1>2, <3>4
    <3> QED BY <2>3, <3>1, <3>2, <3>3, <3>4 DEF Order
  <2> QED BY <1>4, <2>1, <2>2, <2>3
<1>5. ASSUME NEW v \in SUBSET DOMAIN owner, NEW n \in 0..1, NEW m \in 0..1,
             Positions(v, n), Spend(n + m)
      PROVE  /\ cache' \subseteq DOMAIN owner /\ fresh' \in BOOLEAN
             /\ faults' \in 0..MaxFaults /\ faults' >= faults
             /\ faults' = 0 => faults = 0 /\ n = 0 /\ m = 0
  <2>1. cache' \subseteq DOMAIN owner /\ fresh' \in BOOLEAN
    BY <1>5, FetchedOrders
  <2>2. n + m \in Nat
    OBVIOUS
  <2>3. faults' \in 0..MaxFaults
    BY <1>5, <2>2, SpentFaults
  <2>4. faults' = faults + (n + m)
    BY <1>5 DEF Spend
  <2> QED BY <1>0, <2>1, <2>3, <2>4
<1> QED BY <1>3, <1>4, <1>5 DEF Enter

\* A position opened with its old ticket, a new order of its asset or an orphan.
LEMMA EnterKeepsBooks ==
  ASSUME Books, NEW a \in Assets, Enter(a)
  PROVE  Books'
<1>1. TypeOK /\ TicketsAreOwn /\ SnapshotOwn
  BY DEF Books
<1>3. PICK k \in 0..2 :
        /\ Grown(a, k)
        /\ \/ UNCHANGED bookVars
           \/ \E t : /\ OpenPaper(a, t)
                    /\ \/ t = ticket[a]
                       \/ k > 0 /\ t = Len(owner) + k
                       \/ t \in DOMAIN owner /\ owner[t] = a
        /\ cache' \subseteq DOMAIN owner /\ fresh' \in BOOLEAN /\ faults' \in 0..MaxFaults
  BY <1>1, EntryOrders
<1>4. /\ Len(owner) \in 0..MaxTickets /\ DOMAIN owner = 1..Len(owner)
      /\ \A t \in DOMAIN owner : t \in Tickets
  BY <1>1, OrdersSoFar
<1>5. /\ position' \subseteq Assets /\ ticket' \in [Assets -> 0..MaxTickets]
      /\ \A b \in Assets : ticket'[b] # 0 =>
           /\ b \in position' /\ ticket'[b] \in DOMAIN owner'
           /\ owner'[ticket'[b]] = b
  <2>1. CASE UNCHANGED bookVars
    BY <1>1, <1>3, <2>1 DEF bookVars, Grown, TypeOK, TicketsAreOwn
  <2>2. ASSUME NEW new, OpenPaper(a, new),
               \/ new = ticket[a]
               \/ k > 0 /\ new = Len(owner) + k
               \/ new \in DOMAIN owner /\ owner[new] = a
        PROVE  /\ position' \subseteq Assets /\ ticket' \in [Assets -> 0..MaxTickets]
               /\ \A b \in Assets : ticket'[b] # 0 =>
                    /\ b \in position' /\ ticket'[b] \in DOMAIN owner'
                    /\ owner'[ticket'[b]] = b
    <3>1. new \in 0..MaxTickets /\ (new # 0 => new \in DOMAIN owner' /\ owner'[new] = a)
      <4>1. CASE new = ticket[a]
        BY <1>1, <1>3, <4>1 DEF TypeOK, TicketsAreOwn, Grown
      <4>2. CASE k > 0 /\ new = Len(owner) + k
        BY <1>3, <1>4, <4>2, SyncAssumption DEF Grown
      <4>3. CASE new \in DOMAIN owner /\ owner[new] = a
        <5>1. new \in Tickets /\ new \in DOMAIN owner' /\ owner'[new] = a
          BY <1>3, <1>4, <4>3 DEF Grown
        <5> QED BY <5>1, SyncAssumption DEF Tickets
      <4> QED BY <2>2, <4>1, <4>2, <4>3
    <3>2. position' = position \union {a} /\ ticket' = [ticket EXCEPT ![a] = new]
      BY <2>2 DEF OpenPaper
    <3> QED BY <1>1, <1>3, <3>1, <3>2 DEF Grown, TypeOK, TicketsAreOwn
  <2> QED BY <1>3, <2>1, <2>2
<1>6. SnapshotOwn'
  BY <1>1, <1>3 DEF Enter, SnapshotOwn, Grown
<1>7. live' \subseteq DOMAIN owner'
  BY <1>1, <1>3, <1>4 DEF TypeOK, Grown
<1>8. cache' \subseteq DOMAIN owner' /\ view' \subseteq DOMAIN owner' /\ fresh' \in BOOLEAN
  BY <1>1, <1>3 DEF Enter, sweepVars, TypeOK, Grown
<1>9. faults' \in 0..MaxFaults /\ turn' \in [Assets -> {"start", "closed", "done"}]
  <2>1. turn' = [turn EXCEPT ![a] = "done"]
    BY DEF Enter
  <2> QED BY <1>1, <1>3, <2>1 DEF TypeOK
<1>10. TypeOK'
  <2>1. owner' \in Seq(Assets) /\ Len(owner') <= MaxTickets
    BY <1>3 DEF Grown
  <2>2. UNCHANGED <<phase, at, missing, disk, crashes>>
    BY DEF Enter, sweepVars
  <2> QED BY <1>1, <1>5, <1>7, <1>8, <1>9, <2>1, <2>2 DEF TypeOK
<1> QED BY <1>5, <1>6, <1>10 DEF Books, TicketsAreOwn

\* An exit takes the ticket away with the position.
LEMMA CloseKeepsBooks ==
  ASSUME Books, NEW a \in Assets, Close(a)
  PROVE  Books'
<1>1. TypeOK /\ TicketsAreOwn /\ SnapshotOwn
  BY DEF Books
<1>2. position' = position \ {a} /\ ticket' = [ticket EXCEPT ![a] = 0]
  BY DEF Close, ClosePaper
<1>3. live' \subseteq DOMAIN owner /\ faults' \in 0..MaxFaults
  BY <1>1, SpentFaults DEF Close, TypeOK
<1>4. turn' \in [Assets -> {"start", "closed", "done"}]
  BY <1>1 DEF Close, TypeOK
<1>5. /\ position' \subseteq Assets /\ ticket' \in [Assets -> 0..MaxTickets]
      /\ \A b \in Assets : ticket'[b] # 0 => b \in position' /\ ticket'[b] \in DOMAIN owner
  BY <1>1, <1>2, SyncAssumption DEF TypeOK
<1>7. TypeOK'
  <2>1. UNCHANGED <<phase, owner, cache, fresh, view, at, missing, disk, crashes>>
    BY DEF Close, cacheVars, sweepVars
  <2> QED BY <1>1, <1>3, <1>4, <1>5, <2>1 DEF TypeOK
<1>6. TicketsAreOwn' /\ SnapshotOwn'
  BY <1>1, <1>2 DEF Close, TypeOK, TicketsAreOwn, SnapshotOwn
<1> QED BY <1>6, <1>7 DEF Books

\* What begins a cycle is well typed.
LEMMA NewCycleTypes ==
  ASSUME NewCycle
  PROVE  /\ phase' \in {"trade", "portfolio", "sweep", "save"}
         /\ turn' \in [Assets -> {"start", "closed", "done"}]
         /\ fresh' \in BOOLEAN /\ view' = {} /\ at' \in 1..(N + 1)
<1>1. turn' \in [Assets -> {"start", "closed", "done"}]
  BY DEF NewCycle
<1>2. at' \in 1..(N + 1)
  BY SyncAssumption DEF NewCycle
<1> QED BY <1>1, <1>2 DEF NewCycle

\* The sweep's look at one asset gives up a ticket or leaves the book alone.
LEMMA SweepKeepsBooks ==
  ASSUME Books, NEW a \in Assets, Sweep(a)
  PROVE  Books'
<1>1. TypeOK /\ TicketsAreOwn /\ SnapshotOwn
  BY DEF Books
<1>2. Sweeping(a) /\ at + 1 \in 1..(N + 1)
  BY SyncAssumption
     DEF Sweep, SweepUntracked, SweepFound, SweepGrace, SweepDeal, SweepRetire, Sweeping, Assets
<1>3. Tracked(a) => Key(a) \in Tickets /\ missing[Key(a)] \in 0..(MaxStale - 1)
  BY <1>1, OrdersSoFar DEF Tracked, Key, TypeOK
<1>4. missing' \in [Tickets -> 0..(MaxStale - 1)]
  <2>1. CASE missing' = missing
    BY <1>1, <2>1 DEF TypeOK
  <2>2. ASSUME NEW c \in 0..(MaxStale - 1), missing' = [missing EXCEPT ![Key(a)] = c]
        PROVE  missing' \in [Tickets -> 0..(MaxStale - 1)]
    BY <1>1, <2>2 DEF TypeOK
  <2>3. 0 \in 0..(MaxStale - 1)
    BY SyncAssumption
  <2>4. SweepGrace(a) => Missed(a) \in 0..(MaxStale - 1)
    BY <1>3, SyncAssumption DEF SweepGrace, Missed
  <2>5. SweepDeal(a) => Missed(a) \in 0..(MaxStale - 1)
    BY <1>3, SyncAssumption DEF SweepDeal, Missed
  <2> QED BY <2>1, <2>2, <2>3, <2>4, <2>5
          DEF Sweep, SweepUntracked, SweepFound, SweepGrace, SweepDeal, SweepRetire, Counted
<1>5. CASE SweepUntracked(a) \/ SweepFound(a) \/ SweepGrace(a)
  <2>1. UNCHANGED <<phase, turn, bookVars, accountVars, cacheVars, view, disk, faults, crashes>>
        /\ at' = at + 1
    BY <1>5, Zenon DEF SweepUntracked, SweepFound, SweepGrace, GoOn
  <2> QED BY <1>1, <1>2, <1>4, <2>1
          DEF bookVars, accountVars, cacheVars, Books, TypeOK, TicketsAreOwn, SnapshotOwn
<1>6. CASE SweepDeal(a)
  <2>1. UNCHANGED <<bookVars, accountVars, cache, disk, faults, crashes>> /\ NewCycle
    BY <1>6, Zenon DEF SweepDeal, Abort
  <2> QED BY <1>1, <1>4, <2>1, NewCycleTypes
          DEF bookVars, accountVars, Books, TypeOK, TicketsAreOwn, SnapshotOwn
<1>7. CASE SweepRetire(a)
  <2>1. /\ UNCHANGED <<phase, turn, accountVars, cacheVars, view, disk, crashes>> /\ at' = at + 1
        /\ ticket' = [ticket EXCEPT ![a] = 0] /\ position' \in {position, position \ {a}}
    BY <1>7, Zenon DEF SweepRetire, GoOn
  <2>2. faults' \in 0..MaxFaults
    BY <1>1, <1>7, SpentFaults DEF SweepRetire
  <2>3. /\ position' \subseteq Assets /\ ticket' \in [Assets -> 0..MaxTickets]
        /\ \A b \in Assets : ticket'[b] # 0 => ticket'[b] = ticket[b] /\ b \in position'
    BY <1>1, <2>1, SyncAssumption DEF TypeOK
  <2>4. TypeOK'
    BY <1>1, <1>2, <1>4, <2>1, <2>2, <2>3 DEF accountVars, cacheVars, TypeOK
  <2> QED BY <1>1, <2>1, <2>3, <2>4 DEF accountVars, Books, TicketsAreOwn, SnapshotOwn
<1> QED BY <1>5, <1>6, <1>7 DEF Sweep

\* An adopted ticket is one of the adopting asset's own symbol.
LEMMA AdoptKeepsBooks ==
  ASSUME Books, Adopt
  PROVE  Books'
<1>1. TypeOK /\ TicketsAreOwn /\ SnapshotOwn
  BY DEF Books
<1>2. ticket' \in [Assets -> 0..MaxTickets] /\ \A a \in Assets : ticket'[a] \in Adoptable(a, view)
  BY DEF Adopt
<1>3. \A a \in Assets : ticket'[a] = ticket[a]
                        \/ (a \in position /\ ticket'[a] \in view /\ owner[ticket'[a]] = a)
  BY <1>2 DEF Adoptable, Of
<1>4. UNCHANGED <<turn, position, accountVars, cacheVars, missing, disk, faults, crashes>>
      /\ phase' = "save" /\ view' = {} /\ at' \in 1..(N + 1)
  BY SyncAssumption DEF Adopt
<1>5. \A a \in Assets : ticket'[a] # 0 =>
        a \in position /\ ticket'[a] \in DOMAIN owner /\ owner[ticket'[a]] = a
  BY <1>1, <1>3 DEF TypeOK, TicketsAreOwn
<1>6. TypeOK'
  BY <1>1, <1>2, <1>4, <1>5 DEF accountVars, cacheVars, TypeOK
<1> QED BY <1>1, <1>4, <1>5, <1>6 DEF accountVars, Books, TicketsAreOwn, SnapshotOwn

\* What touches neither books nor tickets keeps the rest of Books.
LEMMA UntouchedBooks ==
  ASSUME Books, TypeOK', UNCHANGED <<bookVars, owner, disk>>
  PROVE  Books'
BY DEF Books, bookVars, TicketsAreOwn, SnapshotOwn

LEMMA NextBooks == Books /\ [Next]_vars => Books'
<1> SUFFICES ASSUME Books, [Next]_vars PROVE Books'
  OBVIOUS
<1>1. TypeOK /\ TicketsAreOwn /\ SnapshotOwn
  BY DEF Books
<1>2. ASSUME NEW a \in Assets, Turn(a) PROVE Books'
  <2>1. CASE Pass(a)
    <3>1. UNCHANGED <<bookVars, owner, disk>>
      BY <2>1 DEF Pass, accountVars
    <3>2. TypeOK'
      BY <1>1, <2>1 DEF Pass, bookVars, accountVars, cacheVars, sweepVars, TypeOK
    <3> QED BY <3>1, <3>2, UntouchedBooks
  <2> QED BY <1>2, <2>1, EnterKeepsBooks, CloseKeepsBooks DEF Turn
<1>3. CASE ReviewPasses \/ UNCHANGED vars
  <2>1. UNCHANGED <<bookVars, owner, disk>>
    BY <1>3 DEF ReviewPasses, vars, accountVars
  <2>2. TypeOK'
    BY <1>1, <1>3 DEF ReviewPasses, vars, bookVars, accountVars, cacheVars, sweepVars,
                      TypeOK
  <2> QED BY <2>1, <2>2, UntouchedBooks
<1>4. CASE ReviewRaises
  <2>1. UNCHANGED <<bookVars, owner, disk>>
    BY <1>4 DEF ReviewRaises, Abort, accountVars
  <2>2. TypeOK'
    BY <1>1, <1>4, NewCycleTypes DEF ReviewRaises, Abort, bookVars, accountVars, TypeOK
  <2> QED BY <2>1, <2>2, UntouchedBooks
<1>5. CASE Fetch
  <2>1. faults' \in 0..MaxFaults
    BY <1>1, <1>5, SpentFaults DEF Fetch
  <2>2. CASE /\ phase' = "sweep" /\ at' = 1
             /\ UNCHANGED <<turn, bookVars, accountVars, missing, disk, crashes>>
             /\ \E v \in SUBSET DOMAIN owner, n \in 0..1 :
                  Fetched(v, n) /\ Spend(n) /\ view' = v
    <3>1. view' \subseteq DOMAIN owner /\ cache' \subseteq DOMAIN owner /\ fresh' \in BOOLEAN
      BY <1>1, <2>2, FetchedOrders
    <3>2. at' \in 1..(N + 1)
      BY <2>2, SyncAssumption
    <3>3. TypeOK'
      BY <1>1, <2>1, <2>2, <3>1, <3>2 DEF bookVars, accountVars, TypeOK
    <3> QED BY <2>2, <3>3, UntouchedBooks DEF accountVars
  <2>3. CASE /\ phase' = "save"
             /\ UNCHANGED <<turn, bookVars, accountVars, cacheVars, sweepVars, disk, crashes>>
    <3>1. TypeOK'
      BY <1>1, <2>1, <2>3 DEF bookVars, accountVars, cacheVars, sweepVars, TypeOK
    <3> QED BY <2>3, <3>1, UntouchedBooks DEF accountVars
  <2>4. CASE Abort /\ UNCHANGED missing
    <3>1. TypeOK'
      BY <1>1, <2>1, <2>4, NewCycleTypes DEF Abort, bookVars, accountVars, TypeOK
    <3> QED BY <2>4, <3>1, UntouchedBooks DEF Abort, accountVars
  <2> QED BY <1>5, <2>2, <2>3, <2>4 DEF Fetch
<1>6. CASE SaveState
  <2>1. NewCycle /\ UNCHANGED <<bookVars, accountVars, cache, missing, crashes>>
        /\ faults' \in 0..MaxFaults
    BY <1>1, <1>6, SpentFaults DEF SaveState
  <2>2. disk' = [position |-> position, ticket |-> ticket] \/ disk' = disk
    BY <1>6 DEF SaveState
  <2>3. SnapshotOwn'
    <3>1. UNCHANGED <<position, ticket, owner>>
      BY <2>1 DEF bookVars, accountVars
    <3>2. CASE disk' = disk
      BY <1>1, <3>1, <3>2 DEF SnapshotOwn
    <3>3. CASE disk' = [position |-> position, ticket |-> ticket]
      BY <1>1, <3>1, <3>3 DEF TypeOK, TicketsAreOwn, SnapshotOwn
    <3> QED BY <2>2, <3>2, <3>3
  <2>4. TypeOK'
    <3>1. disk' \in [position : SUBSET Assets, ticket : [Assets -> 0..MaxTickets]]
      BY <1>1, <2>2 DEF TypeOK
    <3> QED BY <1>1, <2>1, <3>1, NewCycleTypes DEF bookVars, accountVars, TypeOK
  <2> QED BY <1>1, <2>1, <2>3, <2>4 DEF bookVars, accountVars, Books, TicketsAreOwn
<1>7. CASE BrokerCloses
  <2>1. UNCHANGED <<bookVars, owner, disk>>
    BY <1>7 DEF BrokerCloses
  <2>2. TypeOK'
    BY <1>1, <1>7 DEF BrokerCloses, bookVars, cacheVars, sweepVars, TypeOK
  <2> QED BY <2>1, <2>2, UntouchedBooks
<1>8. CASE Crash
  <2>1. /\ position' = disk.position /\ ticket' = disk.ticket /\ cache' = {}
        /\ UNCHANGED <<accountVars, disk, faults>> /\ NewCycle
    BY <1>8 DEF Crash
  <2>2. crashes' \in 0..MaxCrashes
    BY <1>1, <1>8, SyncAssumption DEF Crash, TypeOK
  <2>3. missing' \in [Tickets -> 0..(MaxStale - 1)]
    BY <1>8, SyncAssumption DEF Crash
  <2>4. position' \subseteq Assets /\ ticket' \in [Assets -> 0..MaxTickets]
    BY <1>1, <2>1 DEF TypeOK
  <2>5. \A a \in Assets : ticket'[a] # 0 =>
          a \in position' /\ ticket'[a] \in DOMAIN owner /\ owner[ticket'[a]] = a
    BY <1>1, <2>1 DEF SnapshotOwn
  <2>6. TypeOK'
    BY <1>1, <2>1, <2>2, <2>3, <2>4, <2>5, NewCycleTypes DEF accountVars, TypeOK
  <2> QED BY <1>1, <2>1, <2>5, <2>6 DEF accountVars, Books, TicketsAreOwn, SnapshotOwn
<1> QED BY <1>2, <1>3, <1>4, <1>5, <1>6, <1>7, <1>8, SweepKeepsBooks, AdoptKeepsBooks DEF Next

-----------------------------------------------------------------------------
(* One position of a symbol.                                                 *)

\* Nothing but an entry changes what an order is of, and nothing else adds to
\* the account.
LEMMA OnlyEntriesFill ==
  ASSUME TypeOK, [Next]_vars, \A a \in Assets : ~Enter(a)
  PROVE  owner' = owner /\ live' \subseteq live /\ faults' >= faults /\ faults \in Nat
<1>1. faults \in Nat
  BY DEF TypeOK
<1>2. ASSUME NEW n \in Nat, Spend(n)
      PROVE  faults' >= faults
  BY <1>1, <1>2 DEF Spend
<1>3. ASSUME NEW a \in Assets, Close(a) \/ Pass(a)
      PROVE  owner' = owner /\ live' \subseteq live /\ faults' >= faults
  BY <1>1, <1>2, <1>3 DEF Close, Pass, accountVars
<1>4. ASSUME NEW a \in Assets, Sweep(a)
      PROVE  owner' = owner /\ live' \subseteq live /\ faults' >= faults
  BY <1>1, <1>2, <1>4
     DEF Sweep, SweepUntracked, SweepFound, SweepGrace, SweepDeal, SweepRetire, Abort, accountVars
<1>5. CASE ReviewPasses \/ ReviewRaises \/ Fetch \/ Adopt \/ SaveState
           \/ BrokerCloses \/ Crash \/ UNCHANGED vars
  BY <1>1, <1>2, <1>5
     DEF ReviewPasses, ReviewRaises, Fetch, Adopt, SaveState, BrokerCloses, Crash,
         Abort, vars, accountVars
<1> QED BY <1>1, <1>3, <1>4, <1>5 DEF Next, Turn

\* The cache is out of date when a cycle begins, and every entry ends its
\* actor's turn.
LEMMA NextCovers ==
  ASSUME Books, CacheCovers, [Next]_vars
  PROVE  CacheCovers'
<1>1. TypeOK
  BY DEF Books
<1>2. ASSUME NEW a \in Assets, Enter(a)
      PROVE  CacheCovers'
  <2> SUFFICES ASSUME faults' = 0, fresh', NEW t \in live'
               PROVE  t \in cache' \/ turn'[owner'[t]] = "done"
    BY DEF CacheCovers
  <2>1. PICK k \in 0..2 : /\ Grown(a, k) /\ faults = 0
                         /\ \E v : Positions(v, 0)
    BY <1>1, <1>2, EntryOrders
  <2>2. PICK v : Positions(v, 0)
    BY <2>1
  <2>3. turn' = [turn EXCEPT ![a] = "done"]
    BY <1>2 DEF Enter
  <2>5. CASE t \in live
    <3>1. owner'[t] = owner[t] /\ owner[t] \in Assets
      BY <1>1, <2>1, <2>5, OrdersSoFar DEF TypeOK, Grown
    <3>2. CASE fresh /\ UNCHANGED cacheVars
      BY <1>1, <2>1, <2>3, <2>5, <3>1, <3>2 DEF CacheCovers, cacheVars, TypeOK
    <3>3. CASE Fetched(v, 0)
      BY <2>5, <3>3 DEF Fetched
    <3> QED BY <2>2, <3>2, <3>3 DEF Positions
  <2>6. CASE t \notin live
    BY <1>1, <2>1, <2>3, <2>6 DEF Grown, TypeOK
  <2> QED BY <2>5, <2>6
<1>3. CASE \A a \in Assets : ~Enter(a)
  <2>1. owner' = owner /\ live' \subseteq live /\ (faults' = 0 => faults = 0)
    BY <1>1, <1>3, OnlyEntriesFill DEF TypeOK
  <2>2. CASE fresh' = FALSE
    BY <2>2 DEF CacheCovers
  <2>3. CASE UNCHANGED cacheVars /\ \A b \in Assets : turn'[b] = turn[b] \/ turn[b] # "done"
                                                     \/ turn'[b] = "done"
    BY <1>1, <2>1, <2>3, OrdersSoFar DEF CacheCovers, cacheVars, TypeOK
  <2>4. ASSUME NEW a \in Assets, Close(a) \/ Pass(a)
        PROVE  CacheCovers'
    BY <1>1, <2>3, <2>4 DEF Close, Pass, TypeOK
  <2>5. ASSUME NEW a \in Assets, Sweep(a)
        PROVE  CacheCovers'
    BY <2>2, <2>3, <2>5
       DEF Sweep, SweepUntracked, SweepFound, SweepGrace, SweepDeal, SweepRetire, GoOn,
           Abort, NewCycle
  <2>6. CASE ReviewRaises \/ SaveState \/ Crash
    BY <2>2, <2>6 DEF ReviewRaises, SaveState, Crash, Abort, NewCycle
  <2>7. CASE ReviewPasses \/ Adopt \/ BrokerCloses \/ UNCHANGED vars
    BY <2>3, <2>7 DEF ReviewPasses, Adopt, BrokerCloses, vars
  <2>8. CASE Fetch
    <3>1. CASE phase' = "save" /\ UNCHANGED <<turn, cacheVars>>
      BY <2>3, <3>1
    <3>2. CASE Abort
      BY <2>2, <3>2 DEF Abort, NewCycle
    <3>3. CASE /\ UNCHANGED <<turn, accountVars>>
               /\ \E v \in SUBSET DOMAIN owner, n \in 0..1 : Fetched(v, n) /\ Spend(n)
      <4>1. PICK v \in SUBSET DOMAIN owner, n \in 0..1 : Fetched(v, n) /\ Spend(n)
        BY <3>3
      <4>2. faults' = 0 => n = 0
        BY <1>1, <4>1 DEF Spend, TypeOK
      <4> QED BY <3>3, <4>1, <4>2 DEF Fetched, CacheCovers, accountVars
    <3> QED BY <2>8, <3>1, <3>2, <3>3 DEF Fetch
  <2> QED BY <1>3, <2>4, <2>5, <2>6, <2>7, <2>8 DEF Next, Turn
<1> QED BY <1>2, <1>3

\* An actor that enters has looked at the account, or at a cache that covers it.
LEMMA NextNoTwin ==
  ASSUME Books, CacheCovers, NoTwin, [Next]_vars
  PROVE  NoTwin'
<1>1. TypeOK
  BY DEF Books
<1>2. ASSUME NEW a \in Assets, Enter(a)
      PROVE  NoTwin'
  <2> SUFFICES ASSUME faults' = 0
               PROVE  \A t, u \in live' : owner'[t] = owner'[u] => t = u
    BY DEF NoTwin
  <2>1. PICK k \in 0..2 : /\ Grown(a, k) /\ faults = 0 /\ k <= 1
                         /\ \E v : Positions(v, 0) /\ (k > 0 => ~Blocked(a, v))
    BY <1>1, <1>2, EntryOrders
  <2>2. PICK v : Positions(v, 0) /\ (k > 0 => ~Blocked(a, v))
    BY <2>1
  <2>4. \A t \in live : owner'[t] = owner[t]
    BY <1>1, <2>1 DEF TypeOK, Grown
  <2>5. CASE k = 0
    BY <1>1, <2>1, <2>4, <2>5, OrdersSoFar DEF Grown, NoTwin
  <2>6. CASE k = 1
    <3>1. live' = live \union {Len(owner) + 1} /\ owner'[Len(owner) + 1] = a
      BY <1>1, <2>1, <2>6, OrdersSoFar DEF Grown
    <3>2. \A t \in live : owner[t] # a
      <4>1. \A t \in v : owner[t] # a
        BY <2>2, <2>6 DEF Blocked, Of
      <4>2. CASE fresh /\ v = cache
        BY <1>2, <2>1, <4>1, <4>2 DEF CacheCovers, Enter
      <4>3. CASE Fetched(v, 0)
        BY <4>1, <4>3 DEF Fetched
      <4> QED BY <2>2, <4>2, <4>3 DEF Positions
    <3> QED BY <2>1, <2>4, <3>1, <3>2 DEF NoTwin
  <2> QED BY <2>1, <2>5, <2>6
<1>3. CASE \A a \in Assets : ~Enter(a)
  BY <1>1, <1>3, OnlyEntriesFill DEF NoTwin, TypeOK
<1> QED BY <1>2, <1>3

-----------------------------------------------------------------------------
(* A living ticket is given up only after as many calls went wrong.          *)

\* Entries send new orders, against which nothing is counted.
LEMMA EnterCountsNothing ==
  ASSUME Books, MissesAreFaults, NEW a \in Assets, Enter(a)
  PROVE  MissesAreFaults'
<1>1. TypeOK
  BY DEF Books
<1>3. PICK k \in 0..2 : Grown(a, k) /\ faults' \in 0..MaxFaults /\ faults' >= faults
  BY <1>1, EntryOrders
<1>4. faults' >= faults /\ faults \in Nat /\ faults' \in Nat
  BY <1>1, <1>3 DEF TypeOK
<1>5. phase' = "trade" /\ missing' = missing
  BY <1>1 DEF Enter, sweepVars
<1>6. \A t \in live' : t \in live \/ (t > Len(owner) /\ t \in Tickets)
  BY <1>1, <1>3, OrdersSoFar, SyncAssumption DEF Grown, Tickets
<1>7. \A t \in Tickets : missing[t] \in Nat
  BY <1>1 DEF TypeOK
<1>8. \A t \in live : t \in Tickets
  BY <1>1, OrdersSoFar DEF TypeOK
<1>9. \A t \in live' : missing'[t] <= faults'
  <2> TAKE t \in live'
  <2>1. CASE t \in live
    BY <1>4, <1>5, <1>7, <1>8, <2>1 DEF MissesAreFaults
  <2>2. CASE t > Len(owner) /\ t \in Tickets
    BY <1>4, <1>5, <2>2 DEF MissesAreFaults
  <2> QED BY <1>6, <2>1, <2>2
<1>10. \A t \in Tickets : t > Len(owner') => missing'[t] = 0
  BY <1>1, <1>3, <1>5, OrdersSoFar DEF Grown, MissesAreFaults, Tickets
<1>11. \A t \in live' : missing'[t] + 0 = missing'[t]
  BY <1>1, <1>3, <1>5, <1>7, <1>8, <1>6
<1> QED BY <1>5, <1>9, <1>10, <1>11 DEF MissesAreFaults, Uncounted

\* A sweep that passes an asset counts what it had yet to count.
LEMMA SweepCountsFaults ==
  ASSUME Books, MissesAreFaults, NEW a \in Assets, Sweep(a)
  PROVE  MissesAreFaults'
<1>1. TypeOK /\ TicketsAreOwn
  BY DEF Books
<1>2. phase = "sweep" /\ at = a /\ at \in Nat /\ owner' = owner /\ live' = live
      /\ faults \in Nat /\ faults' \in Nat /\ faults' >= faults
  BY <1>1, SpentFaults DEF TypeOK, Spend, Sweep, SweepUntracked, SweepFound, SweepGrace, SweepDeal,
     SweepRetire, Abort, accountVars, Sweeping, Assets
<1>3. /\ at' = at + 1 /\ phase' = phase /\ view' = view
      \/ phase' = "trade"
  BY DEF Sweep, SweepUntracked, SweepFound, SweepGrace, SweepDeal,
         SweepRetire, Abort, NewCycle, GoOn
<1>4. \A t \in Tickets : missing[t] \in Nat
  BY <1>1 DEF TypeOK
<1>5. /\ Len(owner) \in Nat
      /\ \A t \in live : t \in Tickets /\ t \in Nat /\ t <= Len(owner) /\ owner[t] \in Nat
  BY <1>1, OrdersSoFar DEF TypeOK, Assets
<1>6. \A t \in live : Uncounted(t)' => Uncounted(t)
  BY <1>2, <1>3, <1>5 DEF Uncounted
<1>7. ASSUME Tracked(a), NEW t, t = ticket[a]
      PROVE  t \in Tickets /\ t <= Len(owner) /\ owner[t] = a /\ ~Uncounted(t)'
  <2>1. t \in DOMAIN owner /\ owner[t] = a
    BY <1>1, <1>7 DEF Tracked, TypeOK, TicketsAreOwn
  <2>2. t \in Tickets /\ t <= Len(owner)
    BY <1>1, <2>1, OrdersSoFar
  <2>3. ~Uncounted(t)'
    BY <1>2, <1>3, <2>1 DEF Uncounted
  <2> QED BY <2>1, <2>2, <2>3
<1>8. CASE missing' = missing
  BY <1>2, <1>4, <1>5, <1>6, <1>8 DEF MissesAreFaults
<1>9. CASE Tracked(a) /\ missing' = [missing EXCEPT ![ticket[a]] = 0]
  <2>1. PICK t \in Tickets : t = ticket[a] /\ t <= Len(owner) /\ ~Uncounted(t)'
    BY <1>7, <1>9
  <2>2. \A u \in Tickets : missing'[u] = IF u = t THEN 0 ELSE missing[u]
    BY <1>1, <1>9, <2>1 DEF TypeOK
  <2> QED BY <1>2, <1>4, <1>5, <1>6, <2>1, <2>2 DEF MissesAreFaults
<1>10. CASE /\ Tracked(a) /\ ticket[a] \notin view
            /\ missing' = [missing EXCEPT ![ticket[a]] = missing[ticket[a]] + 1]
  <2>1. PICK t \in Tickets : t = ticket[a] /\ t <= Len(owner) /\ owner[t] = a /\ ~Uncounted(t)'
    BY <1>7, <1>10
  <2>2. Uncounted(t)
    BY <1>2, <1>10, <2>1 DEF Uncounted
  <2>3. \A u \in Tickets : missing'[u] = IF u = t THEN missing[t] + 1 ELSE missing[u]
    BY <1>1, <1>10, <2>1 DEF TypeOK
  <2>4. ASSUME NEW u \in live PROVE missing'[u] + (IF Uncounted(u)' THEN 1 ELSE 0) <= faults'
    <3>1. CASE u = t
      BY <1>2, <1>4, <1>5, <2>1, <2>2, <2>3, <3>1 DEF MissesAreFaults
    <3>2. CASE u # t
      BY <1>2, <1>4, <1>5, <1>6, <2>3, <3>2 DEF MissesAreFaults
    <3> QED BY <3>1, <3>2
  <2>5. \A u \in Tickets : u > Len(owner') => missing'[u] = 0
    BY <1>2, <1>5, <2>1, <2>3 DEF MissesAreFaults, Tickets
  <2> QED BY <1>2, <2>4, <2>5 DEF MissesAreFaults
<1> QED BY <1>8, <1>9, <1>10
        DEF Sweep, SweepUntracked, SweepFound, SweepGrace, SweepDeal, SweepRetire,
            Counted, Missed, Key

LEMMA NextCountsFaults ==
  ASSUME Books, MissesAreFaults, [Next]_vars
  PROVE  MissesAreFaults'
<1>1. TypeOK
  BY DEF Books
<1>2. CASE (\E a \in Assets : Enter(a)) \/ (\E a \in Assets : Sweep(a))
  BY <1>2, EnterCountsNothing, SweepCountsFaults
<1>3. CASE \A a \in Assets : ~Enter(a) /\ ~Sweep(a)
  <2>1. owner' = owner /\ live' \subseteq live /\ faults' >= faults /\ faults \in Nat
    BY <1>1, <1>3, OnlyEntriesFill
  <2>2. faults' \in Nat
    BY NextBooks DEF Books, TypeOK
  <2>3. /\ \A t \in Tickets : missing[t] \in Nat
        /\ \A t \in live : t \in Tickets
    <3>1. \A t \in Tickets : missing[t] \in Nat
      BY <1>1 DEF TypeOK
    <3>2. live \subseteq DOMAIN owner
      BY <1>1 DEF TypeOK
    <3> QED BY <1>1, <3>1, <3>2, OrdersSoFar
  <2>4. CASE missing' = missing /\ \A t \in live' : Uncounted(t)' => Uncounted(t)
    BY <2>1, <2>2, <2>3, <2>4 DEF MissesAreFaults
  <2>5. CASE Crash
    <3>1. missing' = [t \in Tickets |-> 0] /\ phase' = "trade"
      BY <2>5 DEF Crash, NewCycle
    <3> QED BY <2>1, <2>2, <2>3, <3>1 DEF MissesAreFaults, Uncounted
  <2>6. CASE Fetch /\ phase' = "sweep"
    <3>1. PICK v \in SUBSET DOMAIN owner, n \in 0..1 :
            Fetched(v, n) /\ Spend(n) /\ view' = v
      BY <2>6 DEF Fetch, Abort, NewCycle
    <3>2. missing' = missing /\ live' = live /\ phase = "portfolio"
      BY <2>6 DEF Fetch, Abort, NewCycle, accountVars
    <3>3. CASE n = 0
      BY <2>1, <2>2, <2>3, <3>1, <3>2, <3>3 DEF Fetched, MissesAreFaults, Uncounted
    <3>4. CASE n = 1
      BY <2>1, <2>2, <2>3, <3>1, <3>2, <3>4 DEF Spend, MissesAreFaults, Uncounted
    <3> QED BY <3>3, <3>4
  <2>7. CASE /\ ~Crash /\ phase' # "sweep"
    BY <1>3, <2>4, <2>7 DEF Next, Turn, Close, Pass, ReviewPasses, ReviewRaises, Fetch, Adopt,
       SaveState, BrokerCloses, vars, sweepVars, Uncounted
  <2>8. CASE /\ ~Crash /\ ~Fetch /\ phase' = "sweep"
    <3>1. UNCHANGED <<phase, owner, sweepVars>>
      BY <1>3, <2>8 DEF Next, Turn, Close, Pass, ReviewPasses, ReviewRaises, Adopt,
         SaveState, BrokerCloses, Abort, NewCycle, vars, accountVars, sweepVars
    <3> QED BY <2>4, <3>1 DEF Uncounted, sweepVars
  <2> QED BY <2>5, <2>6, <2>7, <2>8
<1> QED BY <1>2, <1>3

-----------------------------------------------------------------------------
(* The theorems.                                                             *)

\* What holds of book, snapshot, account, cache and counters at all times.
THEOREM MirrorInvariant == Spec => []IInv
<1>1. Init => IInv
  <2> SUFFICES ASSUME Init PROVE IInv
    OBVIOUS
  <2>1. live = {} /\ fresh = FALSE /\ missing = [t \in Tickets |-> 0]
    BY DEF Init
  <2>2. CacheCovers /\ NoTwin /\ MissesAreFaults
    BY <2>1 DEF CacheCovers, NoTwin, MissesAreFaults
  <2> QED BY <2>2, InitBooks DEF IInv
<1>2. IInv /\ [Next]_vars => IInv'
  BY NextBooks, NextCovers, NextNoTwin, NextCountsFaults DEF IInv
<1> QED BY <1>1, <1>2, PTL DEF Spec

\* Every variable keeps its type, whatever the account, the bridge and the
\* restarts do.
THEOREM TypeCorrect == Spec => []TypeOK
<1>1. IInv => TypeOK
  BY DEF IInv, Books
<1> QED BY <1>1, MirrorInvariant, PTL

\* No asset ever holds, closes or retires another one's order: whichever
\* tickets are adopted, sent twice, or come back with an older snapshot.
THEOREM TicketsStayOwn == Spec => []TicketsAreOwn
<1>1. IInv => TicketsAreOwn
  BY DEF IInv, Books
<1> QED BY <1>1, MirrorInvariant, PTL

\* As long as no call goes wrong, no symbol is held twice: though the book may
\* come back without the order it sent, or close on an order it does not know.
THEOREM NoSymbolTwice == Spec => []LoneTicket
<1>1. IInv => LoneTicket
  <2> SUFFICES ASSUME NoTwin, faults = 0, NEW a \in Assets
               PROVE  Cardinality(Of(a, live)) <= 1
    BY DEF IInv, LoneTicket
  <2>1. \A t, u \in Of(a, live) : t = u
    BY DEF NoTwin, Of
  <2>2. CASE Of(a, live) = {}
    BY <2>2, FS_EmptySet
  <2>3. CASE Of(a, live) # {}
    <3>1. PICK t \in Of(a, live) : Of(a, live) = {t}
      BY <2>1, <2>3
    <3>2. Cardinality({t}) = 1
      BY FS_Singleton
    <3> QED BY <3>1, <3>2
  <2> QED BY <2>2, <2>3
<1> QED BY <1>1, MirrorInvariant, PTL

\* A sweep takes the ticket of a living position only after as many fetches
\* that went wrong for that ticket as the limits ask for: no miss of an earlier
\* ticket, or of another asset's, is held against it.
THEOREM LivingTicketsStay == Spec => LiveTicketsAreKept
<1>1. IInv /\ [Next]_vars =>
        [\A a \in Assets : phase = "sweep" /\ ticket[a] \in live /\ ticket'[a] = 0
           => faults' > DealCheck \/ crashes' # crashes]_vars
  <2> SUFFICES ASSUME IInv, Next, NEW a \in Assets,
                      phase = "sweep", ticket[a] \in live, ticket'[a] = 0,
                      crashes' = crashes
               PROVE  faults' > DealCheck
    OBVIOUS
  <2>1. TypeOK /\ TicketsAreOwn /\ MissesAreFaults
    BY DEF IInv, Books
  <2>2. ticket[a] \in Tickets /\ ticket[a] # 0 /\ owner[ticket[a]] = a /\ a \in Nat
    BY <2>1, OrdersSoFar DEF TypeOK, TicketsAreOwn, Assets
  <2>3. ~Crash
    BY <2>1 DEF Crash, TypeOK
  <2>4. ~Adopt
    BY <2>2 DEF Adopt, Adoptable
  <2>5. PICK b \in Assets : SweepRetire(b)
    BY <2>2, <2>3, <2>4
       DEF Next, Turn, Close, Enter, Pass, Sweep, SweepUntracked, SweepFound, SweepGrace, SweepDeal,
           ReviewPasses, ReviewRaises, Fetch, SaveState, BrokerCloses, Abort, bookVars
  <2>6. b = a
    BY <2>1, <2>2, <2>5 DEF SweepRetire, TypeOK
  <2>7. Uncounted(ticket[a])
    BY <2>2, <2>5, <2>6 DEF SweepRetire, Sweeping, Uncounted
  <2>8. missing[ticket[a]] + 1 <= faults /\ missing[ticket[a]] \in Nat /\ faults \in Nat
    BY <2>1, <2>2, <2>7 DEF MissesAreFaults, TypeOK
  <2> QED BY <2>5, <2>6, <2>8, SyncAssumption DEF SweepRetire, Missed, Key, Spend
<1> QED BY <1>1, MirrorInvariant, PTL DEF Spec, LiveTicketsAreKept
=============================================================================
