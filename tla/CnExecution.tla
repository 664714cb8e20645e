----------------------------- MODULE CnExecution ------------------------------
(***************************************************************************)
(* A-share execution of one instrument on one node, under the sampled      *)
(* HiThink feed (cn.rs, node.rs): the polling task that turns a received   *)
(* snapshot into books, the admissions that hand orders or publish a sized *)
(* book, the session alert, and the sandbox that reads what they publish.  *)
(*                                                                         *)
(* Publications reach the sandbox in order through one queue; orders and   *)
(* cancels through another, so the two race.  A step ends at an await, at  *)
(* the end of a job on the node's thread, or at one event of the sandbox.  *)
(* The clock runs through the four phases of a day, and may skip some.     *)
(* Orders are of one lot; a side of a book is sized or is not.             *)
(***************************************************************************)
EXTENDS Integers, FiniteSets, SequencesExt

CONSTANTS
  Buys, Sells,     \* order ids, by side
  Markets,         \* the MARKET orders among them; the others are LIMIT
  Limit,           \* LIMIT order -> its price
  Prices,          \* an interval; its ends are the day's lower and upper limit
  Held,            \* lots the desk holds from before
  MaxVolume,       \* bound: cumulative volumes of a day
  Times,           \* bound: phases the clock stops at, counted from a morning
  MaxRestarts      \* bound: restarts of the node

Orders == Buys \cup Sells
Limits == Orders \ Markets

ASSUME CnAssumption ==
  /\ Buys \cap Sells = {} /\ IsFiniteSet(Orders) /\ {"poll", "none"} \cap Orders = {}
  /\ Markets \subseteq Orders
  /\ Prices \subseteq Nat \ {0} /\ IsFiniteSet(Prices) /\ Prices # {}
  /\ Limit \in [Limits -> Prices]
  /\ Held \in Nat /\ MaxVolume \in Nat /\ Times \subseteq Nat /\ 0 \in Times /\ MaxRestarts \in Nat

VARIABLES
  now, alert,      \* the phase the clock is in; the boundary alert is due
  boot,            \* the node is starting, with the instant its start has read
  inst,            \* Inst, of the one instrument
  wire,            \* publications the runner has not delivered yet
  engine,          \* the sandbox: the gate and the standing book
  order,           \* the node's cache: order -> status and the day it was admitted
  cancels,         \* orders with a CancelOrder on the sandbox's way
  poll,            \* the polling task: where it is, the snapshot it holds
  req,             \* order -> where its route call is; a taken section is lost
  bought, sold,    \* lots filled today, and the opening position
  opening,
  \* history and bounds
  overslept,       \* a boundary passed in the start before its alert was armed; none fired since
  peak,            \* the largest volume accepted since evidence was last discarded
  early,           \* LIMITs filled by a book older than their admission, and whether excused
  torn,            \* the idle book that was to replace the standing one is lost
  crowded,         \* the section was taken while a MARKET that had lost it was in it
  restarts

vars == <<now, alert, boot, overslept, inst, wire, engine, order, cancels, poll, req, bought, sold, opening,
          peak, early, torn, crowded, restarts>>
clock == <<now, alert, boot, overslept>>
position == <<bought, sold, opening>>
-------------------------------------------------------------------------------
(* Time. *)

Phases == <<"MORNING", "LUNCH", "AFTERNOON", "CLOSED">>
Phase(t) == Phases[(t % 4) + 1]
Day(t) == t \div 4

InSession(t) == Phase(t) \in {"MORNING", "AFTERNOON"}

StatusFor(t, ready) ==
  CASE InSession(t) -> IF ready THEN "Trading" ELSE "Pause"
    [] Phase(t) = "LUNCH" -> "Pause"
    [] OTHER -> "Close"

Expired(o, t) == order[o].day < Day(t) \/ Phase(t) = "CLOSED"
-------------------------------------------------------------------------------
(* What the daemon knows of the instrument, and what it publishes. *)

NoVolume == -1     \* no accepted observation
NoSnapshot == [volume |-> 0, last |-> 0, ok |-> FALSE, known |-> {}]
NoInst == [busy |-> FALSE, ready |-> FALSE, day |-> 0, status |-> "none", last |-> 0,
           prev |-> NoVolume, base |-> [o \in {} |-> 0]]
Idling == [pc |-> "idle", snap |-> NoSnapshot, released |-> {}, books |-> <<>>]
NoReq == [pc |-> "idle", lost |-> FALSE]

ReadyAt == inst.ready /\ inst.day = Day(now)

Forgotten(i) == [i EXCEPT !.prev = NoVolume, !.base = [o \in {} |-> 0]]

Lower == Min(Prices)
Upper == Max(Prices)

Compatible(o, last) == IF o \in Buys THEN last <= Limit[o] ELSE last >= Limit[o]

Admitted == {o \in Orders : order[o].st # "NEW"}
Unclosed == {o \in Orders : order[o].st \in {"HANDED", "RESTING"}}
Resting  == Unclosed \cap Limits      \* resting_limits

Gate(s) == [kind |-> "status", status |-> s]
\* want: who waits to see this very quote in the cache; known: the orders
\* admitted when it was published
Quote(last, bid, ask, want) ==
  [kind |-> "quote", last |-> last, bid |-> bid, ask |-> ask, want |-> want, known |-> Admitted]
\* zero sizes: its price and its age are of no consequence
IdleQuote(want) == [Quote(0, FALSE, FALSE, want) EXCEPT !.known = {}]

\* Only the latest quote one waits for answers the wait: the stamps increase. A status
\* is nobody's ("none").
Unwanted(w, q) == IF q.kind = "quote" /\ q.want = w THEN [q EXCEPT !.want = "none"] ELSE q
Publish(items, w) ==
  /\ wire' = [i \in DOMAIN wire |-> Unwanted(w, wire[i])] \o items
  /\ engine' = [engine EXCEPT !.book = Unwanted(w, @)]
Landed(w) == engine.book.want = w
\* WAIT_TIMEOUT, two seconds, outlasts what the runner still has to deliver
TimedOut(w) == ~Landed(w) /\ wire = <<>>

\* a status is published on change only
StatusChange(s) == IF inst.status = s THEN <<>> ELSE <<Gate(s)>>

\* Every MARKET in its critical section loses what it holds; crowded remembers that
\* somebody took the section while such a MARKET was still on its way through it.
Section == {"confirm", "place", "settle", "restoring"}
Losing == [o \in Orders |-> [req[o] EXCEPT !.lost = (@ \/ req[o].pc \in Section)]]
Taken  == crowded' = (crowded \/ \E m \in Markets : req[m].lost /\ req[m].pc \in Section)
Done   == [pc |-> "done", lost |-> FALSE]

\* fail_local: unready, paused, evidence discarded, and the section released
FailLocal ==
  /\ inst' = Forgotten([inst EXCEPT !.ready = FALSE, !.busy = FALSE, !.status = "Pause"])
  /\ Publish(StatusChange("Pause"), "none")
  /\ peak' = NoVolume
-------------------------------------------------------------------------------
Init ==
  /\ now = 0 /\ alert = FALSE
  /\ boot = [on |-> FALSE, at |-> 0] /\ overslept = FALSE
  /\ inst = [NoInst EXCEPT !.status = "Pause"]
  /\ wire = <<Gate("Pause")>>
  /\ order = [o \in Orders |-> [st |-> "NEW", day |-> 0]]
  /\ engine = [status |-> "Trading", book |-> IdleQuote("none")]
  /\ cancels = {}
  /\ poll = Idling
  /\ req = [o \in Orders |-> NoReq]
  /\ bought = 0 /\ sold = 0 /\ opening = Held
  /\ peak = NoVolume /\ early = {} /\ torn = FALSE /\ crowded = FALSE /\ restarts = 0
-------------------------------------------------------------------------------
(* The clock and the session alert. *)

\* The day turns with its first phase; a sleeping machine skips phases.  Phases
\* last hours: the runner's queue is empty when one ends, but the alert is a
\* timer that anything else may still overtake.  A node that is starting has none.
Tick ==
  /\ wire = <<>>
  /\ \E t \in Times :
       /\ t > now
       /\ now' = t
       /\ IF Day(t) = Day(now)
          THEN UNCHANGED position
          ELSE bought' = 0 /\ sold' = 0 /\ opening' = opening + bought - sold
  /\ alert' = ~boot.on /\ overslept' = (overslept \/ boot.on)
  /\ UNCHANGED <<boot, inst, wire, engine, order, cancels, poll, req, peak, early, torn, crowded, restarts>>

\* (mutant) the sweep asks which boundary fired, not what each order outlived
BoundaryAtClose ==
  LET s == StatusFor(now, ReadyAt) IN
  /\ alert /\ alert' = FALSE /\ overslept' = FALSE
  /\ inst' = [inst EXCEPT !.status = s]
  /\ Publish(StatusChange(s), "none")
  /\ cancels' = cancels \cup {o \in Unclosed : Phase(now) = "CLOSED"}
  /\ UNCHANGED <<now, boot, order, poll, req, position, peak, early, torn, crowded, restarts>>

Boundary ==
  LET s == StatusFor(now, ReadyAt) IN
  /\ alert /\ alert' = FALSE /\ overslept' = FALSE
  /\ inst' = [inst EXCEPT !.status = s]
  /\ Publish(StatusChange(s), "none")
  /\ cancels' = cancels \cup {o \in Unclosed : Expired(o, now)}
  /\ UNCHANGED <<now, boot, order, poll, req, position, peak, early, torn, crowded, restarts>>
-------------------------------------------------------------------------------
(* The polling task. *)

\* A snapshot is received; its bars are still to be asked for.  Two polls are
\* ten seconds apart, so the runner has drained its queue in between, and an
\* admission a failed cycle interrupted has given up waiting for its book (2 s).
Receive ==
  /\ ~boot.on /\ poll.pc = "idle" /\ wire = <<>> /\ Phase(now) # "LUNCH"
  /\ ~ \E o \in Markets : req[o].lost /\ req[o].pc \in {"confirm", "place"}
  /\ \/ poll' = [Idling EXCEPT !.pc = "held"]
     \/ \E v \in 0 .. MaxVolume, last \in Prices :
          poll' = [Idling EXCEPT !.pc = "held",
                                 !.snap = [volume |-> v, last |-> last, ok |-> TRUE, known |-> Admitted]]
  /\ UNCHANGED <<clock, inst, wire, engine, order, cancels, req, position, peak, early, torn, crowded, restarts>>

\* feed_failed: the key is gone, or the poll failed
FeedFailed ==
  /\ ~boot.on /\ poll.pc = "idle"
  /\ FailLocal
  /\ req' = Losing
  /\ UNCHANGED <<clock, order, cancels, poll, position, early, torn, crowded, restarts>>

\* cycle_observation: the rule is not run on an instrument a MARKET owns
SitOut ==
  /\ poll.pc = "held" /\ inst.busy
  /\ poll' = Idling
  /\ UNCHANGED <<clock, inst, wire, engine, order, cancels, req, position, peak, early, torn, crowded, restarts>>

\* (mutant) a cycle does not ask whose the instrument is
MayObserveAlways == poll.pc = "held"

MayObserve == poll.pc = "held" /\ ~inst.busy

\* observe (a): unready; nothing but the gate is published
ObserveUnready ==
  LET s == StatusFor(now, FALSE) IN
  /\ MayObserve /\ ~poll.snap.ok
  /\ inst' = Forgotten([inst EXCEPT !.ready = FALSE, !.status = s])
  /\ Publish(StatusChange(s), "none")
  /\ poll' = Idling
  /\ peak' = NoVolume
  /\ UNCHANGED <<clock, order, cancels, req, position, early, torn, crowded, restarts>>

Established ==
  [inst EXCEPT !.ready = TRUE, !.day = Day(now), !.last = poll.snap.last]

Decreased == inst.prev # NoVolume /\ poll.snap.volume < inst.prev

\* (c): the volume went back; the next observation only re-establishes
ObserveDecrease ==
  /\ MayObserve /\ poll.snap.ok /\ Decreased
  /\ inst' = Forgotten([Established EXCEPT !.status = "Pause"])
  /\ Publish(<<IdleQuote("poll")>> \o StatusChange("Pause"), "poll")
  /\ poll' = Idling
  /\ peak' = NoVolume
  /\ UNCHANGED <<clock, order, cancels, req, position, early, torn, crowded, restarts>>

\* (b): out of session an observation is awareness only
ObserveOutside ==
  LET s == StatusFor(now, TRUE) IN
  /\ MayObserve /\ poll.snap.ok /\ ~Decreased /\ ~InSession(now)
  /\ inst' = [Established EXCEPT !.status = s]
  /\ Publish(<<IdleQuote("poll")>> \o StatusChange(s), "poll")
  /\ poll' = Idling
  /\ UNCHANGED <<clock, order, cancels, req, position, peak, early, torn, crowded, restarts>>

\* (mutant) an observation with nothing before it counts as growth
ReleasedFromNothing ==
  {o \in Resting : /\ poll.snap.volume > inst.prev
                   /\ o \in DOMAIN inst.base => poll.snap.volume > inst.base[o]
                   /\ Compatible(o, poll.snap.last)}

\* The order's sequence baseline is below any later observation's by counting,
\* so the volumes decide.
Released ==
  {o \in Resting : /\ inst.prev # NoVolume /\ poll.snap.volume > inst.prev
                   /\ o \in DOMAIN inst.base /\ poll.snap.volume > inst.base[o]
                   /\ Compatible(o, poll.snap.last)}

\* direction suppression, then one crossing book per side
Crossings ==
  (IF poll.snap.last # Upper /\ Released \cap Buys # {} THEN <<"BUY">> ELSE <<>>) \o
  (IF poll.snap.last # Lower /\ Released \cap Sells # {} THEN <<"SELL">> ELSE <<>>)

Crossing(side) == Quote(poll.snap.last, side = "SELL", side = "BUY", "poll")

\* every resting order has a baseline after an accepted observation
Accepted ==
  [Established EXCEPT
     !.status = "Trading",
     !.prev = poll.snap.volume,
     !.base = [o \in Resting |-> IF o \in DOMAIN inst.base THEN inst.base[o] ELSE poll.snap.volume]]

\* (d): accepted; the gate goes out before a crossing book and after an idle one
Observe ==
  /\ MayObserve /\ poll.snap.ok /\ ~Decreased /\ InSession(now)
  /\ peak' = IF poll.snap.volume > peak THEN poll.snap.volume ELSE peak
  /\ IF Crossings = <<>>
     THEN /\ inst' = Accepted
          /\ Publish(<<IdleQuote("poll")>> \o StatusChange("Trading"), "poll")
          /\ poll' = Idling
          /\ UNCHANGED crowded
     ELSE /\ inst' = [Accepted EXCEPT !.busy = TRUE]
          /\ Publish(StatusChange("Trading") \o <<Crossing(Head(Crossings))>>, "poll")
          /\ poll' = [poll EXCEPT !.pc = "crossing", !.released = Released, !.books = Tail(Crossings)]
          /\ Taken
  /\ UNCHANGED <<clock, order, cancels, req, position, early, torn, restarts>>

\* execute: the crossing book has been seen, the idle one goes back up
CrossingLanded ==
  /\ poll.pc = "crossing" /\ Landed("poll")
  /\ Publish(<<IdleQuote("poll")>>, "poll")
  /\ poll' = [poll EXCEPT !.pc = "restoring"]
  /\ UNCHANGED <<clock, inst, order, cancels, req, position, peak, early, torn, crowded, restarts>>

\* the idle book has been seen: the other side's book, or the section is released
IdleLanded ==
  /\ poll.pc = "restoring" /\ Landed("poll")
  /\ IF poll.books = <<>>
     THEN /\ inst' = [inst EXCEPT !.busy = FALSE]
          /\ poll' = Idling
          /\ UNCHANGED <<wire, engine>>
     ELSE /\ Publish(<<Crossing(Head(poll.books))>>, "poll")
          /\ poll' = [poll EXCEPT !.pc = "crossing", !.books = Tail(@)]
          /\ UNCHANGED inst
  /\ UNCHANGED <<clock, order, cancels, req, position, peak, early, torn, crowded, restarts>>

\* WAIT_TIMEOUT
CrossingLost ==
  /\ poll.pc \in {"crossing", "restoring"} /\ TimedOut("poll")
  /\ FailLocal
  /\ poll' = Idling
  /\ UNCHANGED <<clock, order, cancels, req, position, early, torn, crowded, restarts>>
-------------------------------------------------------------------------------
(* Admissions.  One that finds the instrument busy waits; one that is refused *)
(* changes nothing here.                                                      *)

\* (mutant) orders_open: what was handed over and not accepted yet is not counted
ReservedOpen == {o \in Sells : order[o].st = "RESTING"}

\* sellable, T+1: not what was bought today, nor what other sells may still take
Reserved == Unclosed \cap Sells
Sellable == opening - sold > Cardinality(Reserved)

\* (mutant) admission does not wait for the section
AdmissibleBusy(o) == ReadyAt /\ InSession(now) /\ (o \in Sells => Sellable)

Admissible(o) ==
  /\ ~inst.busy
  /\ ReadyAt /\ InSession(now)
  /\ o \in Sells => Sellable

Handed(o) == [order EXCEPT ![o] = [st |-> "HANDED", day |-> Day(now)]]

\* the volume of the last accepted observation, or zero
Baselined(o) ==
  LET volume == IF inst.prev = NoVolume THEN 0 ELSE inst.prev IN
  [inst EXCEPT !.base = [l \in DOMAIN inst.base \cup {o} |-> IF l = o THEN volume ELSE inst.base[l]]]

\* A LIMIT is baselined and handed over in the closure that checked it.
AdmitLimit(o) ==
  /\ o \in Limits /\ req[o].pc = "idle" /\ order[o].st = "NEW"
  /\ Admissible(o)
  /\ inst' = Baselined(o)
  /\ order' = Handed(o)
  /\ req' = [req EXCEPT ![o] = Done]
  /\ Taken
  /\ UNCHANGED <<clock, wire, engine, cancels, poll, position, peak, early, torn, restarts>>

\* size_for_market: sized for the order and every compatible resting LIMIT
SizedBook(o) ==
  LET wanted(side) == o \in side \/ \E l \in Resting \cap side : Compatible(l, inst.last)
  IN Quote(inst.last,
           inst.last # Lower /\ wanted(Sells),
           inst.last # Upper /\ wanted(Buys), o)

AdmitMarket(o) ==
  /\ o \in Markets /\ req[o].pc = "idle" /\ order[o].st = "NEW"
  /\ Admissible(o)
  /\ inst' = [inst EXCEPT !.busy = TRUE]
  /\ Publish(<<SizedBook(o)>>, o)
  /\ req' = [req EXCEPT ![o] = [pc |-> "confirm", lost |-> FALSE]]
  /\ Taken
  /\ UNCHANGED <<clock, order, cancels, poll, position, peak, early, torn, restarts>>

SizedLanded(o) ==
  /\ req[o].pc = "confirm" /\ Landed(o)
  /\ req' = [req EXCEPT ![o].pc = "place"]
  /\ UNCHANGED <<clock, inst, wire, engine, order, cancels, poll, position, peak, early, torn, crowded, restarts>>

\* confirm timed out, mark_failed
SizedLost(o) ==
  /\ req[o].pc = "confirm" /\ TimedOut(o)
  /\ FailLocal
  /\ req' = [Losing EXCEPT ![o] = Done]
  /\ UNCHANGED <<clock, order, cancels, poll, position, early, torn, crowded, restarts>>

PlaceMarket(o) ==
  /\ req[o].pc = "place"
  /\ order' = Handed(o)
  /\ req' = [req EXCEPT ![o].pc = "settle"]
  /\ UNCHANGED <<clock, inst, wire, engine, cancels, poll, position, peak, early, torn, crowded, restarts>>

\* settled, or its ten seconds are over: the idle book goes back whatever it was
RestoreIdle(o) ==
  /\ req[o].pc = "settle"
  /\ Publish(<<IdleQuote(o)>>, o)
  /\ req' = [req EXCEPT ![o].pc = "restoring"]
  /\ UNCHANGED <<clock, inst, order, cancels, poll, position, peak, early, torn, crowded, restarts>>

\* the flag is cleared whether the idle book landed or not, and mark_failed
\* follows in a job of its own
Release(o) ==
  /\ req[o].pc = "restoring" /\ (Landed(o) \/ TimedOut(o))
  /\ inst' = [inst EXCEPT !.busy = FALSE]
  /\ req' = [req EXCEPT ![o] = IF Landed(o) THEN Done ELSE [@ EXCEPT !.pc = "failed"]]
  /\ UNCHANGED <<clock, wire, engine, order, cancels, poll, position, peak, early, torn, crowded, restarts>>

MarkFailed(o) ==
  /\ req[o].pc = "failed"
  /\ FailLocal
  /\ req' = [Losing EXCEPT ![o] = Done]
  /\ UNCHANGED <<clock, order, cancels, poll, position, early, torn, crowded, restarts>>
-------------------------------------------------------------------------------
(* The sandbox (external): the gate stops matching and refuses new orders; a  *)
(* quote matches what rests, an order what stands.                            *)

Takes(o, book) ==
  /\ IF o \in Buys THEN book.ask ELSE book.bid
  /\ o \in Limits => Compatible(o, book.last)

Fill(os, book) ==
  /\ bought' = bought + Cardinality(os \cap Buys)
  /\ sold' = sold + Cardinality(os \cap Sells)
  /\ early' = early \cup ((os \cap Limits) \ book.known) \X {torn \/ crowded}

Deliver ==
  /\ wire # <<>>
  /\ wire' = Tail(wire)
  /\ LET item == Head(wire) IN
     \/ /\ item.kind = "status"
        /\ engine' = [engine EXCEPT !.status = item.status]
        /\ UNCHANGED <<order, bought, sold, early, torn>>
     \* a quote the engine drops
     \/ /\ item.kind = "quote"
        /\ torn' = (torn \/ ~(item.bid \/ item.ask))
        /\ UNCHANGED <<engine, order, bought, sold, early>>
     \/ /\ item.kind = "quote"
        /\ torn' = FALSE
        /\ engine' = [engine EXCEPT !.book = item]
        /\ LET filled == {o \in Limits : /\ engine.status = "Trading" /\ order[o].st = "RESTING"
                                         /\ Takes(o, item)}
           IN /\ order' = [o \in Orders |-> IF o \in filled
                                            THEN [order[o] EXCEPT !.st = "FILLED"] ELSE order[o]]
              /\ Fill(filled, item)
  /\ UNCHANGED <<clock, inst, cancels, poll, req, opening, peak, crowded, restarts>>

\* A submitted order reaches the sandbox, which may refuse it for cash or holdings.
Arrive(o) ==
  /\ order[o].st = "HANDED"
  /\ \/ /\ order' = [order EXCEPT ![o].st = "REJECTED"]
        /\ UNCHANGED <<bought, sold, early>>
     \/ /\ engine.status = "Trading" /\ Takes(o, engine.book)
        /\ order' = [order EXCEPT ![o].st = "FILLED"]
        /\ Fill({o}, engine.book)
     \/ /\ engine.status = "Trading" /\ o \in Limits /\ ~Takes(o, engine.book)
        /\ order' = [order EXCEPT ![o].st = "RESTING"]
        /\ UNCHANGED <<bought, sold, early>>
  /\ UNCHANGED <<clock, inst, wire, engine, cancels, poll, req, opening, peak, torn, crowded, restarts>>

CancelArrives(o) ==
  /\ o \in cancels /\ order[o].st # "HANDED"
  /\ cancels' = cancels \ {o}
  /\ order' = IF order[o].st = "RESTING" THEN [order EXCEPT ![o].st = "CANCELED"] ELSE order
  /\ UNCHANGED <<clock, inst, wire, engine, poll, req, position, peak, early, torn, crowded, restarts>>

\* The node stops and starts again: reconcile_cn reads the clock, and sends a cancel for
\* what has expired by then.  What never was accepted is gone.
Restart ==
  /\ restarts < MaxRestarts
  /\ restarts' = restarts + 1
  /\ boot' = [on |-> TRUE, at |-> now]
  /\ order' = [o \in Orders |-> IF order[o].st = "HANDED" THEN [order[o] EXCEPT !.st = "CANCELED"] ELSE order[o]]
  /\ cancels' = {o \in Orders : order[o].st = "RESTING" /\ Expired(o, now)}
  /\ inst' = NoInst /\ wire' = <<>>
  /\ engine' = [status |-> "Trading", book |-> IdleQuote("none")]
  /\ alert' = FALSE /\ overslept' = FALSE
  /\ poll' = Idling
  /\ req' = [o \in Orders |-> IF req[o].pc = "idle" THEN NoReq ELSE Done]
  /\ peak' = NoVolume
  /\ torn' = FALSE
  /\ UNCHANGED <<now, position, early, crowded>>

\* Once these are closed the gate is published, for the instant that was read, and the
\* alert is armed, for the next boundary after the present one.
Armed ==
  LET s == StatusFor(boot.at, FALSE) IN
  /\ boot.on /\ cancels \cap Resting = {}
  /\ boot' = [boot EXCEPT !.on = FALSE]
  /\ inst' = [inst EXCEPT !.status = s]
  /\ Publish(<<Gate(s)>>, "none")
  /\ UNCHANGED <<now, alert, overslept, order, cancels, poll, req, position,
                 peak, early, torn, crowded, restarts>>

Polling ==
  \/ SitOut \/ ObserveUnready \/ ObserveDecrease \/ ObserveOutside \/ Observe
  \/ CrossingLanded \/ IdleLanded \/ CrossingLost
Placing(o) ==
  \/ SizedLanded(o) \/ SizedLost(o) \/ PlaceMarket(o)
  \/ RestoreIdle(o) \/ Release(o) \/ MarkFailed(o)

Next ==
  \/ Tick \/ Boundary \/ Receive \/ FeedFailed \/ Polling \/ Deliver \/ Restart \/ Armed
  \/ \E o \in Orders : AdmitLimit(o) \/ AdmitMarket(o) \/ Placing(o) \/ Arrive(o) \/ CancelArrives(o)

Spec == Init /\ [][Next]_vars
-------------------------------------------------------------------------------
(* Properties. *)

TypeOK ==
  /\ now \in Times /\ alert \in BOOLEAN /\ overslept \in BOOLEAN
  /\ boot.on \in BOOLEAN /\ boot.at \in Times
  /\ inst.busy \in BOOLEAN /\ inst.ready \in BOOLEAN /\ inst.day \in {Day(t) : t \in Times}
  /\ inst.status \in {"Trading", "Pause", "Close", "none"}
  /\ inst.last \in {0} \cup Prices /\ inst.prev \in NoVolume .. MaxVolume
  /\ DOMAIN inst.base \subseteq Limits
  /\ engine.status \in {"Trading", "Pause", "Close"}
  /\ \A o \in Orders : order[o].st \in {"NEW", "HANDED", "RESTING", "FILLED", "CANCELED", "REJECTED"}
  /\ cancels \subseteq Orders /\ early \subseteq Limits \X BOOLEAN
  /\ torn \in BOOLEAN /\ crowded \in BOOLEAN /\ peak \in NoVolume .. MaxVolume
  /\ poll.pc \in {"idle", "held", "crossing", "restoring"}
  /\ \A o \in Orders : req[o].pc \in {"idle", "confirm", "place", "settle", "restoring", "failed", "done"}

\* AE-9: a LIMIT rests at its submission, even at a compatible price: it is never
\* filled by a book published before it was admitted (the critical section of
\* admit, execute and size_for_market), unless the idle book that was to replace
\* that one was lost, or the section was taken from a MARKET still in it (crowded).
RestsAtSubmission == \A e \in early : e[2]

\* T+1: however sells race each other, the sandbox and the fills, a day never
\* sells more than it opened with (sellable, check). The exception is again a section
\* taken from a MARKET that is still to be placed: what it sells is not reserved yet.
NothingBoughtTodayIsSold == crowded \/ sold <= opening

\* The critical section.  The book a MARKET was sized for is the one it meets: unless
\* its section was lost to a failure, no publication replaces it before the order is
\* settled; where a lost section was taken again, the two who act in it may publish
\* over each other.  And nobody waits for a section that nobody will release: while admission
\* is shut out, a crossing or a MARKET's route call is under way (fail_local,
\* restore_idle and the early returns of place_and_settle).
SectionOwned ==
  /\ crowded \/ \A m \in Markets :
       req[m].pc \in {"place", "settle"} /\ ~req[m].lost
       => Landed(m) /\ \A i \in DOMAIN wire : wire[i].kind # "quote"
  /\ inst.busy => \/ poll.pc \in {"crossing", "restoring"}
                  \/ \E m \in Markets : req[m].pc \in Section

\* AE-9: re-baselining never fills, and neither does equal volume: a cycle only
\* publishes a crossing book for more volume than everything accepted since the
\* evidence was last discarded, by a restart, a failure or a decrease.
CrossesOnGrowth ==
  [][poll.pc = "held" /\ poll'.pc = "crossing"
     => peak # NoVolume /\ poll.snap.volume > peak]_vars

\* An order that outlived its day is on its way out, although no quote arrives and
\* whatever boundaries a sleeping machine skipped or a restart missed: the alert is due,
\* or its cancel has been sent (boundary, reconcile_cn). The exception is a boundary that
\* passes while the node starts, after the start has read the clock: it is neither swept
\* nor alerted, and the order goes at the next boundary. A MARKET does not rest: the
\* sandbox answers it when it arrives.
DayEnds == \A o \in Resting : Expired(o, now) => alert \/ o \in cancels \/ overslept

\* node.rs:562: reconcile_cn is to "terminate every restored CN order that has outlived its
\* trading day"; node.rs:624: the alert is armed "so 11:30, 13:00 and 14:57 act without a quote".
NoDayMissed == \A o \in Resting : Expired(o, now) => alert \/ o \in cancels \/ boot.on

\* a-share-engine SPEC 2.5: the restored idle book is confirmed before admission
\* is released, and a failure leaves the instrument non-executable.  So no LIMIT
\* is filled by a book older than its admission, whatever failed.
NeverFilledAtSubmission == early = {}

\* a-share-engine SPEC 2.5: "Keep one per-node critical section around observation
\* publication, confirmation, idle-book restoration, and every admission/approval".
\* A failure releases the section under the MARKET that is still to place its order,
\* and the next one in may be in it together with that MARKET.
OneInSection ==
  /\ Cardinality({m \in Markets : req[m].pc \in Section}) <= 1
  /\ poll.pc \in {"crossing", "restoring"} => \A m \in Markets : req[m].pc \notin Section

\* a-share-engine SPEC 2.5: a snapshot already received before an order's
\* admission, including one still queued for delivery, cannot trigger it.
NotTriggeredByHeldSnapshot == poll.released \subseteq poll.snap.known
===============================================================================
