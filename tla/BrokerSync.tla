------------------------------ MODULE BrokerSync ------------------------------
(***************************************************************************)
(* The paper book and the real account behind it: entries and exits that   *)
(* mirror themselves through MT5Broker (services/entry_service.py,         *)
(* services/position_service.py, execution/mt5_broker.py) and the sweep of *)
(* orchestrator/engine.py, _reconcile_mt5_orphans, that looks every cycle  *)
(* for tickets the account has lost and for positions the book has lost.   *)
(*                                                                         *)
(* A ticket is the number of an order that filled; owner says for which    *)
(* asset.  Assets map to broker symbols one to one, as the portfolio's do. *)
(* _mt5_cleanup_queue, which phase A drains, is never filled.  Stacked     *)
(* layers are left out: their orders bypass the guard.                     *)
(***************************************************************************)
EXTENDS Integers, SequencesExt

CONSTANTS N,          \* assets, numbered in the order of the configuration
          TooSmall,   \* the assets whose volume rounds to nothing
          MaxStale,   \* MAX_STALE_TICKET_CYCLES (10)
          DealCheck,  \* STALE_TICKET_DEAL_CHECK_CYCLES (3)
          MaxTickets, \* bound: orders that fill
          MaxFaults,  \* bound: calls to the broker that go wrong
          MaxCrashes  \* bound: restarts

ASSUME SyncAssumption ==
  /\ N \in Nat \ {0} /\ TooSmall \subseteq 1..N
  /\ DealCheck \in Nat \ {0} /\ MaxStale \in Nat /\ DealCheck < MaxStale
  /\ MaxTickets \in Nat /\ MaxFaults \in Nat /\ MaxCrashes \in Nat

VARIABLES
  phase,    \* "trade", "portfolio", "sweep" or "save"
  turn,     \* what each actor has done in this cycle
  position, \* the assets with a paper position
  ticket,   \* its mt5_ticket, 0 for None
  owner,    \* the asset of every order that has filled
  live,     \* the tickets the account holds
  cache,    \* _position_cache
  fresh,    \* _position_cache_time is of this cycle
  view,     \* mt5_positions, while a sweep goes on
  at,       \* the asset the sweep looks at next
  missing,  \* _stale_ticket_cycles
  disk,     \* the positions in the last snapshot
  faults, crashes

bookVars == <<position, ticket>>
accountVars == <<owner, live>>
cacheVars == <<cache, fresh>>
sweepVars == <<view, at, missing>>
vars == <<phase, turn, bookVars, accountVars, cacheVars, sweepVars, disk, faults,
          crashes>>

-----------------------------------------------------------------------------
Assets == 1..N
Tickets == 1..MaxTickets

\* Tickets in S of the symbol of a.
Of(a, S) == {t \in S : owner[t] = a}

NoTickets == [a \in Assets |-> 0]

\* The cycle is over when every actor had its turn.
AllDone == \A a \in Assets : turn[a] = "done"

TypeOK ==
  /\ phase \in {"trade", "portfolio", "sweep", "save"}
  /\ turn \in [Assets -> {"start", "closed", "done"}]
  /\ position \subseteq Assets /\ ticket \in [Assets -> 0..MaxTickets]
  /\ \A a \in Assets : ticket[a] # 0 => a \in position /\ ticket[a] \in DOMAIN owner
  /\ owner \in Seq(Assets) /\ Len(owner) <= MaxTickets
  /\ live \subseteq DOMAIN owner /\ cache \subseteq DOMAIN owner
  /\ view \subseteq DOMAIN owner
  /\ fresh \in BOOLEAN /\ at \in 1..(N + 1)
  /\ missing \in [Tickets -> 0..(MaxStale - 1)]
  /\ disk \in [position : SUBSET Assets, ticket : [Assets -> 0..MaxTickets]]
  /\ faults \in 0..MaxFaults /\ crashes \in 0..MaxCrashes

Init ==
  /\ phase = "trade" /\ turn = [a \in Assets |-> "start"]
  /\ position = {} /\ ticket = NoTickets
  /\ owner = <<>> /\ live = {}
  /\ cache = {} /\ fresh = FALSE
  /\ view = {} /\ at = 1 /\ missing = [t \in Tickets |-> 0]
  /\ disk = [position |-> {}, ticket |-> NoTickets]
  /\ faults = 0 /\ crashes = 0

\* n calls of this step go wrong.
Spend(n) == faults + n <= MaxFaults /\ faults' = faults + n

-----------------------------------------------------------------------------
(* MT5Broker.get_positions.                                                  *)

\* A call to the bridge that returns v.  A terminal that cannot answer looks
\* like an empty account; an exception returns whatever is cached.
Fetched(v, n) ==
  \/ n = 0 /\ v = live /\ cache' = live /\ fresh' = TRUE
  \/ n = 1 /\ v = {} /\ cache' = {} /\ fresh' = TRUE
  \/ n = 1 /\ v = cache /\ UNCHANGED cacheVars

\* An empty cache is never used, nor is one whose time to live has run out in
\* the meantime.
Positions(v, n) ==
  \/ fresh /\ cache # {} /\ n = 0 /\ v = cache /\ UNCHANGED cacheVars
  \/ Fetched(v, n)

\* The account's own stop, target or an operator closes a position.
BrokerCloses ==
  /\ \E t \in live : live' = live \ {t}
  /\ UNCHANGED <<phase, turn, bookVars, owner, cacheVars, sweepVars, disk, faults,
                 crashes>>

-----------------------------------------------------------------------------
(* An actor's turn: it may leave its position and, in the same turn, enter   *)
(* the opposite one.                                                         *)

\* The mutant leaves the ticket behind.
CloseKeepsTicket(a) == position' = position \ {a} /\ ticket' = ticket
ClosePaper(a) == position' = position \ {a} /\ ticket' = [ticket EXCEPT ![a] = 0]

\* PositionService.close_position: the paper close proceeds whatever the
\* broker says, and nothing reads what it said.  Once every turn is over it is
\* a flattening trip that closes.
Close(a) ==
  /\ phase \in {"trade", "portfolio"} /\ a \in position
  /\ phase = "trade" => turn[a] = "start"
  /\ ClosePaper(a)
  /\ \/ live' = live \ {ticket[a]} /\ Spend(0)
     \/ ticket[a] \in live /\ live' = live /\ Spend(1)
  /\ turn' = IF phase = "portfolio" THEN turn ELSE [turn EXCEPT ![a] = "closed"]
  /\ UNCHANGED <<phase, owner, cacheVars, sweepVars, disk, crashes>>

OpenPaper(a, t) == position' = position \union {a} /\ ticket' = [ticket EXCEPT ![a] = t]

\* k orders of a reach the account and fill.
Filled(a, k) ==
  /\ Len(owner) + k <= MaxTickets
  /\ owner' = owner \o [i \in 1..k |-> a]
  /\ live' = live \union ((Len(owner) + 1)..(Len(owner) + k))

\* The order that _submit_mt5_order sends, the fates OrderFate has for it: filled,
\* which place_order takes for a rejection when the return code is not 10009 but,
\* say, that of a partial fill; rejected; and after a lost reply filled, once or
\* twice, without the caller's knowing, or filled again by the retry, whose ticket
\* the caller gets, since the bridge's _placed_orders stays empty.
Order(a, n) ==
  \/ n = 0 /\ Filled(a, 1) /\ (OpenPaper(a, Len(owner) + 1) \/ UNCHANGED bookVars)
  \/ n = 0 /\ UNCHANGED <<accountVars, bookVars>>
  \/ n = 1 /\ (\E k \in 1..2 : Filled(a, k)) /\ UNCHANGED bookVars
  \/ n = 1 /\ Filled(a, 2) /\ OpenPaper(a, Len(owner) + 2)

\* _submit_mt5_order refuses an order for a symbol the account holds; the
\* mutant asks the book and not the account.
BlockedByBook(a, v) == \E t \in Of(a, v) : t = ticket[a]
Blocked(a, v) == Of(a, v) # {}

\* What a's ticket may become: an orphan of its own symbol in v when it has a
\* position without one.  One mutant does not ask for the symbol, the other asks
\* for a position that has a ticket.
AdoptsAny(a, v) == IF a \in position /\ ticket[a] = 0 /\ v # {} THEN v ELSE {ticket[a]}
AdoptsTracked(a, v) ==
  IF a \in position /\ ticket[a] # 0 /\ Of(a, v) # {} THEN Of(a, v) ELSE {ticket[a]}
Adoptable(a, v) ==
  IF a \in position /\ ticket[a] = 0 /\ Of(a, v) # {} THEN Of(a, v) ELSE {ticket[a]}

\* _record_position_state without a ticket: the new position inherits that of the
\* one it replaces, if there is one.
Inherit(a) == OpenPaper(a, ticket[a])

\* EntryService.open_position: whether or not an order is sent, a paper position
\* is opened unless the order failed.  A flip that the conviction gate refuses
\* comes here with the old position still held, and no order is sent when the
\* account cannot be priced.
Enter(a) ==
  /\ phase = "trade" /\ turn[a] # "done"
  /\ turn' = [turn EXCEPT ![a] = "done"]
  /\ \/ Inherit(a) /\ Spend(1) /\ UNCHANGED <<accountVars, cacheVars>>
     \/ \E v \in SUBSET DOMAIN owner, n, m \in 0..1 :
          /\ Positions(v, n) /\ Spend(n + m)
          /\ \/ a \in TooSmall /\ Inherit(a) /\ m = 0 /\ UNCHANGED accountVars
             \/ a \notin TooSmall /\ ~Blocked(a, v) /\ Order(a, m)
             \/ /\ a \notin TooSmall /\ Blocked(a, v)
                /\ \E t \in Adoptable(a, v) : OpenPaper(a, t)
                /\ m = 0 /\ UNCHANGED accountVars
  /\ UNCHANGED <<phase, sweepVars, disk, crashes>>

\* Nothing, or nothing more, to do: no signal, a gate that holds, or a bridge
\* that refuses the connection and so fails the actor's cycle.
Pass(a) ==
  /\ phase = "trade" /\ turn[a] # "done"
  /\ turn' = [turn EXCEPT ![a] = "done"]
  /\ UNCHANGED <<phase, bookVars, accountVars, cacheVars, sweepVars, disk, faults,
                 crashes>>

-----------------------------------------------------------------------------
(* The phases after the actors' turns, of which 3g is                        *)
(* _reconcile_mt5_orphans.                                                   *)

\* The next cycle begins, the cache long out of date.
NewCycle ==
  /\ phase' = "trade" /\ turn' = [a \in Assets |-> "start"]
  /\ fresh' = FALSE /\ view' = {} /\ at' = 1

\* An exception ends the cycle without a save.
Abort == NewCycle /\ UNCHANGED <<bookVars, accountVars, cache, disk, crashes>>

\* Phase 1b changes nothing here, and raises when a signal passes its filter.
ReviewPasses ==
  /\ phase = "trade" /\ AllDone /\ phase' = "portfolio"
  /\ UNCHANGED <<turn, bookVars, accountVars, cacheVars, sweepVars, disk, faults,
                 crashes>>
ReviewRaises ==
  /\ phase = "trade" /\ AllDone
  /\ Abort /\ UNCHANGED <<missing, faults>>

\* The sweep fetches past the cache, or does without when the bridge does not
\* answer: either the connection is refused, which raises, or it is not there.
Fetch ==
  /\ phase = "portfolio"
  /\ \/ /\ \E v \in SUBSET DOMAIN owner, n \in 0..1 :
             Fetched(v, n) /\ Spend(n) /\ view' = v
        /\ phase' = "sweep" /\ at' = 1
        /\ UNCHANGED <<turn, bookVars, accountVars, missing, disk, crashes>>
     \/ /\ phase' = "save" /\ Spend(1)
        /\ UNCHANGED <<turn, bookVars, accountVars, cacheVars, sweepVars, disk, crashes>>
     \/ Abort /\ Spend(1) /\ UNCHANGED missing

\* The counter of a's ticket in _stale_ticket_cycles; the mutant keeps one per
\* asset.
KeyByAsset(a) == a
Key(a) == ticket[a]

Missed(a) == missing[Key(a)] + 1
Sweeping(a) == phase = "sweep" /\ at = a
Tracked(a) == a \in position /\ ticket[a] # 0
GoOn == at' = at + 1 /\ UNCHANGED <<phase, turn, cacheVars>>

SweepUntracked(a) ==
  /\ Sweeping(a) /\ ~Tracked(a)
  /\ GoOn
  /\ UNCHANGED <<bookVars, accountVars, view, missing, disk, faults, crashes>>

SweepFound(a) ==
  /\ Sweeping(a) /\ Tracked(a) /\ ticket[a] \in view
  /\ missing' = [missing EXCEPT ![Key(a)] = 0]
  /\ GoOn
  /\ UNCHANGED <<bookVars, accountVars, view, disk, faults, crashes>>

\* The ticket has been away for less than DealCheck cycles.
SweepGrace(a) ==
  /\ Sweeping(a) /\ Tracked(a) /\ ticket[a] \notin view
  /\ Missed(a) < DealCheck
  /\ missing' = [missing EXCEPT ![Key(a)] = Missed(a)]
  /\ GoOn
  /\ UNCHANGED <<bookVars, accountVars, view, disk, faults, crashes>>

\* The count once a deal was found, kept before it is read; the mutant counts
\* afterwards, which the exception prevents.
CountedLater(a) == missing[Key(a)]
Counted(a) == Missed(a)

\* The ticket has been away for DealCheck cycles and its deal is found: reading
\* it raises a KeyError, which ends the sweep, the cycle and its save.
SweepDeal(a) ==
  /\ Sweeping(a) /\ Tracked(a) /\ ticket[a] \notin view
  /\ Missed(a) \in DealCheck..(MaxStale - 1)
  /\ missing' = [missing EXCEPT ![Key(a)] = Counted(a)]
  /\ Abort /\ UNCHANGED faults

\* The paper position is closed without its ticket, so that the broker is not
\* asked to close anything; without a usable price it stays, untracked.  That
\* is the end of a ticket away for MaxStale cycles, or for DealCheck cycles
\* when the lookup of its deal fails.
SweepRetire(a) ==
  /\ Sweeping(a) /\ Tracked(a) /\ ticket[a] \notin view
  /\ \/ Missed(a) >= MaxStale /\ Spend(0)
     \/ Missed(a) \in DealCheck..(MaxStale - 1) /\ Spend(1)
  /\ missing' = [missing EXCEPT ![Key(a)] = 0]
  /\ ticket' = [ticket EXCEPT ![a] = 0]
  /\ position' \in {position, position \ {a}}
  /\ GoOn
  /\ UNCHANGED <<accountVars, view, disk, crashes>>

\* Phase D: positions without a ticket get an orphan's.
Adopt ==
  /\ phase = "sweep" /\ at = N + 1
  /\ ticket' \in {f \in [Assets -> 0..MaxTickets] : \A a \in Assets : f[a] \in Adoptable(a, view)}
  /\ phase' = "save" /\ view' = {} /\ at' = 1
  /\ UNCHANGED <<turn, position, accountVars, cacheVars, missing, disk, faults, crashes>>

\* The monitor loop saves, or logs that it could not, and starts over.
SaveState ==
  /\ phase = "save"
  /\ \/ disk' = [position |-> position, ticket |-> ticket] /\ Spend(0)
     \/ disk' = disk /\ Spend(1)
  /\ NewCycle
  /\ UNCHANGED <<bookVars, accountVars, cache, missing, crashes>>

\* The process dies and comes back with the book of its last snapshot; the
\* account has not noticed.
Crash ==
  /\ crashes < MaxCrashes /\ crashes' = crashes + 1
  /\ position' = disk.position /\ ticket' = disk.ticket
  /\ cache' = {} /\ missing' = [t \in Tickets |-> 0]
  /\ NewCycle
  /\ UNCHANGED <<accountVars, disk, faults>>

-----------------------------------------------------------------------------
Turn(a) == Close(a) \/ Enter(a) \/ Pass(a)
Sweep(a) ==
  \/ SweepUntracked(a) \/ SweepFound(a) \/ SweepGrace(a) \/ SweepDeal(a)
  \/ SweepRetire(a)

\* What the process does on its own.
Cycle ==
  \/ ReviewPasses \/ ReviewRaises \/ Fetch \/ Adopt \/ SaveState
  \/ \E a \in Assets : Pass(a) \/ Sweep(a)

Next == (\E a \in Assets : Turn(a) \/ Sweep(a)) \/ ReviewPasses \/ ReviewRaises
        \/ Fetch \/ Adopt \/ SaveState
        \/ BrokerCloses \/ Crash

Spec == Init /\ [][Next]_vars

\* The monitor loop never stops, every actor's turn ends, and at night the
\* session gate lets no signal of any asset pass the review.
FairSpec == Spec /\ WF_vars(Cycle) /\ SF_vars(ReviewPasses)

-----------------------------------------------------------------------------
(* What the mirror promises.                                                 *)

\* A ticket in the book is a ticket of that asset's own symbol, so no asset
\* ever closes, or is retired for, another one's order: through adoption,
\* retries and restarts from an older book.
TicketsAreOwn == \A a \in Assets : ticket[a] # 0 => owner[ticket[a]] = a

\* As long as no call goes wrong the account holds one position of a symbol at
\* most, though the book may have been restored from before the order, have
\* closed on an order it does not know or taken a fill for a rejection: the guard
\* asks the account.
LoneTicket == faults = 0 => \A a \in Assets : Cardinality(Of(a, live)) <= 1

\* A sweep takes away the ticket of a living position only after DealCheck
\* fetches that went wrong for that ticket and a failed lookup, or MaxStale
\* of them: no miss of an earlier ticket is held against it.
LiveTicketsAreKept ==
  [][\A a \in Assets : phase = "sweep" /\ ticket[a] \in live /\ ticket'[a] = 0
       => faults' > DealCheck \/ crashes' # crashes]_vars

\* The book gives up a ticket that the account has lost.
LostTicketsAreRetired ==
  \A a \in Assets, t \in Tickets : ticket[a] = t /\ t \notin live ~> ticket[a] # t

\* A position without a ticket gets the one the account holds for its symbol.
OrphansAreAdopted ==
  \A a \in Assets :
    a \in position /\ ticket[a] = 0 /\ Of(a, live) # {}
      ~> a \notin position \/ ticket[a] # 0 \/ Of(a, live) = {}

\* No lost ticket keeps the loop from saving for ever: a sweep that aborts its
\* cycle aborts less than MaxStale of them.
CyclesAreSaved == []<>(phase = "save")

=============================================================================
