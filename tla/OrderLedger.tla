----------------------------- MODULE OrderLedger ------------------------------
(***************************************************************************)
(* What of one desk's book is durable: the capture handlers that run on    *)
(* the node's thread with every order and position event, the snapshot     *)
(* they rewrite, the cycles and evaluations they insert, and the           *)
(* restoration that reads the snapshot back at the next node start         *)
(* (trade.rs, node.rs).  One instrument, so one netting position, in lots. *)
(*                                                                         *)
(* A fill is two events, the order's and then the position's, each handled *)
(* in a unit of its own; the node's thread does nothing else in between,   *)
(* but the daemon may die there.                                           *)
(***************************************************************************)
EXTENDS Integers, Sequences, FiniteSets, Bags, SequencesExt

CONSTANTS
  Buys, Sells,  \* the desk's orders, by side
  Lots,         \* lots of every order: it may fill in as many parts
  MaxCrashes,   \* bound: deaths of the node
  MaxFailures   \* bound: capture units that fail (they are only logged)

Orders == Buys \cup Sells

ASSUME LedgerAssumption ==
  /\ Buys \cap Sells = {}
  /\ Lots \in Nat \ {0}
  /\ MaxCrashes \in Nat /\ MaxFailures \in Nat

VARIABLES
  \* the node
  up,          \* it runs
  chain,       \* order -> the events its cached order carries, <<>> when not cached
  position,    \* lots of the cached netting position
  due,         \* the position event still to be handled, or NotDue
  rehand,      \* restored orders the sandbox has not taken back yet
  \* SQLite
  stored,      \* order_events (and, for a fill, fills): order -> bag of its rows
  snapshot,    \* book_snapshots: the open orders' chains and the position
  cycles,      \* position_cycles, each with the fills its evaluation prompt names
  \* history and bounds
  crashes, failures

vars == <<up, chain, position, due, rehand, stored, snapshot, cycles, crashes, failures>>

NotDue == [position |-> 0, fill |-> <<>>]

Event(kind, order, n) == [kind |-> kind, order |-> order, life |-> crashes, n |-> n]
Kinds(E)   == {e.kind : e \in E}
Fills(E)   == {e \in E : e.kind = "OrderFilled"}
Filled(E)  == Cardinality(Fills(E))
IsOpen(E)  == "OrderAccepted" \in Kinds(E) /\ Filled(E) < Lots

\* snapshot_payload: only open orders and an open position are in it
Book(chains, lots) ==
  [orders |-> [o \in Orders |-> IF IsOpen(ToSet(chains[o])) THEN chains[o] ELSE <<>>],
   position |-> lots]

Init ==
  /\ up = TRUE
  /\ chain = [o \in Orders |-> <<>>]
  /\ position = 0
  /\ due = NotDue
  /\ rehand = {}
  /\ stored = [o \in Orders |-> EmptyBag]
  /\ snapshot = Book([o \in Orders |-> <<>>], 0)
  /\ cycles = <<>>
  /\ crashes = 0 /\ failures = 0

-------------------------------------------------------------------------------
(* Capture. *)

AcceptedOnce == {"OrderSubmitted", "OrderAccepted"}

\* The rows of the events of a chain that are in new.
RowsOf(events, new) == [e \in new |-> Cardinality({i \in DOMAIN events : events[i] = e})]

\* A second submission or acceptance of an order whose rows are these
Repeats(e, rows) == e.kind \in AcceptedOnce /\ e.kind \in Kinds(BagToSet(rows))

\* (mutant) the rule against a second acceptance alone, rows not told apart by id
UnstoredAnyFill(events, rows) ==
  RowsOf(events, {e \in ToSet(events) : /\ ~Repeats(e, rows)
                                        /\ e.kind = "OrderInitialized" => ~BagIn(e, rows)})

\* (mutant) no rule against a second acceptance
UnstoredRepeated(events, rows) == RowsOf(events, {e \in ToSet(events) : ~BagIn(e, rows)})

\* capture_order's rows: the order's own chain, less what is stored already by
\* event id and less a second submission or acceptance
Unstored(events, rows) ==
  RowsOf(events, {e \in ToSet(events) : ~Repeats(e, rows) /\ ~BagIn(e, rows)})

\* (mutant) the snapshot in a unit of its own, which may be the one that fails
CaptureOrderApart(o, chains, lots) ==
  \/ /\ stored' = [stored EXCEPT ![o] = @ (+) Unstored(chains[o], @)]
     /\ snapshot' = Book(chains, lots)
     /\ UNCHANGED failures
  \/ /\ stored' = [stored EXCEPT ![o] = @ (+) Unstored(chains[o], @)]
     /\ UNCHANGED <<snapshot, failures>>

\* One event of order o is published: its rows and the snapshot in one unit, or,
\* when the unit fails, neither.
CaptureOrder(o, chains, lots) ==
  \/ /\ stored' = [stored EXCEPT ![o] = @ (+) Unstored(chains[o], @)]
     /\ snapshot' = Book(chains, lots)
     /\ UNCHANGED failures
  \/ /\ failures < MaxFailures
     /\ failures' = failures + 1
     /\ UNCHANGED <<stored, snapshot>>

Idle == up /\ due = NotDue

\* The cached order takes an event; published ones are captured.
Apply(o, kind) ==
  /\ chain' = [chain EXCEPT ![o] = Append(@, Event(kind, o, Len(@)))]
  /\ CaptureOrder(o, chain', position)

-------------------------------------------------------------------------------
(* The sandbox's events (external). *)

\* hand_to_node, announcing a new order; the order id is never used again
HandToNode(o) ==
  /\ Idle /\ chain[o] = <<>> /\ stored[o] = EmptyBag
  /\ Apply(o, "OrderInitialized")
  /\ UNCHANGED <<up, position, due, rehand, cycles, crashes>>

Submitted(o) ==
  /\ Idle /\ Kinds(ToSet(chain[o])) = {"OrderInitialized"}
  /\ Apply(o, "OrderSubmitted")
  /\ UNCHANGED <<up, position, due, rehand, cycles, crashes>>

Accepted(o) ==
  /\ Idle /\ Kinds(ToSet(chain[o])) = {"OrderInitialized", "OrderSubmitted"}
  /\ Apply(o, "OrderAccepted")
  /\ UNCHANGED <<up, position, due, rehand, cycles, crashes>>

\* Marketable on arrival: the cached order is replaced by the engine's accepted
\* copy, and the two events are never published.
Matched(o) ==
  /\ Idle /\ Kinds(ToSet(chain[o])) = {"OrderInitialized"}
  /\ chain' = [chain EXCEPT ![o] = @ \o <<Event("OrderSubmitted", o, Len(@)),
                                          Event("OrderAccepted", o, Len(@) + 1)>>]
  /\ UNCHANGED <<up, position, due, rehand, stored, snapshot, cycles, crashes, failures>>

\* One lot fills.  The order's event is published first; whether the cached
\* position has moved by then is the engine's affair, and either is allowed.
Fill(o) ==
  LET after == IF o \in Buys THEN position + 1 ELSE position - 1
      fill  == Event("OrderFilled", o, Len(chain[o])) IN
  /\ Idle /\ IsOpen(ToSet(chain[o])) /\ o \notin rehand
  /\ o \in Sells => position > 0
  /\ chain' = [chain EXCEPT ![o] = Append(@, fill)]
  /\ \E lots \in {position, after} : position' = lots /\ CaptureOrder(o, chain', lots)
  /\ due' = [position |-> after, fill |-> <<fill>>]
  /\ UNCHANGED <<up, rehand, cycles, crashes>>

\* capture_position: a closing event inserts the cycle and its evaluation prompt,
\* naming the fills rows it finds, in the unit that rewrites the snapshot.
CapturePosition ==
  LET closes == due.position = 0 IN
  /\ up /\ due # NotDue
  /\ position' = due.position
  /\ due' = NotDue
  /\ \/ /\ cycles' = IF closes
                     THEN Append(cycles, ToSet(due.fill) \cap BagToSet(stored[due.fill[1].order]))
                     ELSE cycles
        /\ snapshot' = Book(chain, due.position)
        /\ UNCHANGED failures
     \/ /\ failures < MaxFailures
        /\ failures' = failures + 1
        /\ UNCHANGED <<cycles, snapshot>>
  /\ UNCHANGED <<up, chain, rehand, stored, crashes>>

-------------------------------------------------------------------------------
(* The node dies and starts again. *)

Crash ==
  /\ up /\ crashes < MaxCrashes
  /\ up' = FALSE
  /\ crashes' = crashes + 1
  /\ chain' = [o \in Orders |-> <<>>]
  /\ position' = 0
  /\ due' = NotDue /\ rehand' = {}
  /\ UNCHANGED <<stored, snapshot, cycles, failures>>

\* restore and apply: the open orders with their own history, then handed back
Restore ==
  /\ ~up
  /\ up' = TRUE
  /\ chain' = snapshot.orders
  /\ position' = snapshot.position
  /\ rehand' = {o \in Orders : snapshot.orders[o] # <<>>}
  /\ UNCHANGED <<due, stored, snapshot, cycles, crashes, failures>>

\* The sandbox accepts a re-handed order.  After a partial fill that is a legal
\* transition, applied and published once more; otherwise it is dropped.
Reaccepted(o) ==
  /\ Idle /\ o \in rehand
  /\ rehand' = rehand \ {o}
  /\ IF Filled(ToSet(chain[o])) > 0
     THEN Apply(o, "OrderAccepted")
     ELSE UNCHANGED <<chain, stored, snapshot, failures>>
  /\ UNCHANGED <<up, position, due, cycles, crashes>>

Next ==
  \/ \E o \in Orders : \/ HandToNode(o) \/ Submitted(o) \/ Accepted(o) \/ Matched(o)
                       \/ Fill(o) \/ Reaccepted(o)
  \/ CapturePosition \/ Crash \/ Restore

Spec == Init /\ [][Next]_vars

-------------------------------------------------------------------------------
(* Properties. *)

EventKinds == {"OrderInitialized", "OrderSubmitted", "OrderAccepted", "OrderFilled"}
Events == [kind : EventKinds, order : Orders, life : 0 .. MaxCrashes, n : Nat]

TypeOK ==
  /\ up \in BOOLEAN
  /\ chain \in [Orders -> Seq(Events)]
  /\ stored = [o \in Orders |-> stored[o]]
  /\ \A o \in Orders : IsABag(stored[o]) /\ BagToSet(stored[o]) \subseteq Events
  /\ position \in Nat
  /\ due \in [position : Nat, fill : Seq(Events)]
  /\ rehand \subseteq {o \in Orders : IsOpen(ToSet(chain[o]))}
  /\ snapshot \in [orders : [Orders -> Seq(Events)], position : Nat]
  /\ cycles \in Seq(SUBSET Events)
  /\ crashes \in 0 .. MaxCrashes /\ failures \in 0 .. MaxFailures

\* The order history_orders reads an order's rows in: as they occurred.
Before(e, f) == e.life < f.life \/ (e.life = f.life /\ e.n < f.n)

\* The order of events OrderAny::from_events can replay: one submission, one
\* acceptance right after it, and every fill after that.
Replays(E) ==
  /\ E # {} => \E e \in E : e.kind = "OrderInitialized" /\ \A f \in E \ {e} : Before(e, f)
  /\ \A e, f \in E : e.kind = f.kind => e = f \/ e.kind = "OrderFilled"
  /\ \A e \in E : e.kind = "OrderAccepted" =>
       \E s \in E : /\ s.kind = "OrderSubmitted" /\ Before(s, e)
                   /\ \A f \in E : ~(Before(s, f) /\ Before(f, e))
  /\ \A e \in E : e.kind = "OrderFilled" =>
       \E a \in E : a.kind = "OrderAccepted" /\ Before(a, e)

\* Every captured order can be rebuilt from its stored events, through
\* acceptances never published, capture units that fail and are made up for by
\* the next, and restorations that repeat an acceptance (R1 SPEC 5).  A failed
\* unit and a restoration together are left to AcceptedOnceStored.
HistoryReplays ==
  failures = 0 \/ crashes = 0 => \A o \in Orders : Replays(BagToSet(stored[o]))

\* The comment on ACCEPTED_ONCE: an acceptance repeated by restoration is never
\* stored beside the one it repeats.
AcceptedOnceStored ==
  \A o \in Orders : \A e, f \in BagToSet(stored[o]) :
    e.kind = "OrderAccepted" /\ f.kind = "OrderAccepted" => e = f

\* The book a restart reads and the history agree on every open order's fills:
\* restoration neither forgets a fill the history has nor holds one it lacks.
SnapshotMatchesHistory ==
  failures = 0 => \A o \in Orders : IsOpen(BagToSet(stored[o])) =>
    Fills(ToSet(snapshot.orders[o])) = Fills(BagToSet(stored[o]))

\* One event is stored once, so one trade never lands two fills rows, however
\* often the order's chain is captured again (R1 SPEC 5).
StoredOnce == \A o \in Orders : \A e \in BagToSet(stored[o]) : stored[o][e] = 1

\* The stored fills net to a position that was closed, and R1 SPEC 6 (and R1-5)
\* have a cycle, with its evaluation, for every close.
NetStored == Cardinality(UNION {Fills(BagToSet(stored[o])) : o \in Buys})
               - Cardinality(UNION {Fills(BagToSet(stored[o])) : o \in Sells})
CloseRecorded ==
  failures = 0 /\ Idle /\ rehand = {} /\ NetStored = 0
    /\ (\E o \in Sells : Fills(BagToSet(stored[o])) # {}) => cycles # <<>>
===============================================================================
