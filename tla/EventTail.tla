------------------------------ MODULE EventTail -------------------------------
(***************************************************************************)
(* The event tail: units that commit operational events, the publisher and *)
(* its cursor, the sockets that replay and follow, and a client that comes *)
(* back with the cursor it last saw.                                       *)
(*                                                                         *)
(* An event is its cursor: (occurred_at_ns, id) is a total order, here the *)
(* order of the instants, which a unit's caller reads before the unit runs.*)
(* A page of rows is a set: it is taken in the order of its cursors.       *)
(***************************************************************************)
EXTENDS Naturals, SequencesExt, FiniteSetsExt

CONSTANTS
  Clients,     \* sockets on WS /events, each with the client that keeps reopening it
  MaxInstant,  \* bound: the last instant
  InFlight,    \* bound: units between their instant and their commit
  DeskRows,    \* the events that belong to the one desk that may be deleted
  Page,        \* PAGE: rows of one read of the tail
  Queue,       \* QUEUE: frames a subscriber's queue holds
  Wire,        \* bound: frames a socket has in flight before a send waits
  MaxDrops,    \* bound: connections lost
  MaxRestarts  \* bound: deaths of the daemon

ASSUME TailAssumption ==
  /\ MaxInstant \in Nat \ {0} /\ DeskRows \subseteq 2 .. MaxInstant
  /\ {InFlight, Page, Queue, Wire} \subseteq Nat \ {0}
  /\ {MaxDrops, MaxRestarts} \subseteq Nat

VARIABLES
  clock,   \* the last instant read
  units,   \* instants read, their units not yet committed
  rows,    \* operational_events
  cursor,  \* Inner.cursor
  page,    \* rows the publisher has read and not yet pushed
  pushing, \* it is inside push, under the lock
  sub,     \* per client: the queue, and whether the publisher still holds its sender
  conn,    \* per client: the daemon's task on its socket
  wire,    \* per client: frames on their way to it
  client,  \* per client: the cursor it will come back with
  \* history and bounds
  seen,    \* per client: the events it handled, in order
  base,    \* per client: the position it was last told to start from
  late,    \* events that committed behind the publisher
  drops, restarts

store     == <<clock, units, rows, late>>
publisher == <<cursor, page, pushing>>
bounds    == <<drops, restarts>>
vars == <<store, publisher, sub, conn, wire, client, seen, base, bounds>>

None    == 0                   \* no cursor
Frame(kind, at) == [kind |-> kind, at |-> at]
NoSub   == [open |-> FALSE, queue |-> <<>>]
Closed  == [pc |-> "closed", after |-> None, tail |-> None, at |-> None,
            batch |-> {}, short |-> FALSE]

\* The recovery row is always there before the publisher starts.
Init ==
  /\ clock = 1 /\ units = {} /\ rows = {1} /\ late = {}
  /\ cursor = 1 /\ page = {} /\ pushing = FALSE
  /\ sub = [c \in Clients |-> NoSub]
  /\ conn = [c \in Clients |-> Closed]
  /\ wire = [c \in Clients |-> <<>>]
  /\ client = [c \in Clients |-> None]
  /\ seen = [c \in Clients |-> <<>>]
  /\ base = [c \in Clients |-> MaxInstant]
  /\ drops = 0 /\ restarts = 0

\* page: the first rows after a position, at most one page of them
PageOf(after, among) ==
  {r \in among : after < r /\ Cardinality({s \in among : after < s /\ s < r}) < Page}

-------------------------------------------------------------------------------
(* The store. *)

\* A unit's caller reads the clock.
ReadsClock ==
  /\ clock < MaxInstant /\ Cardinality(units) < InFlight
  /\ clock' = clock + 1
  /\ units' = units \cup {clock'}
  /\ UNCHANGED <<rows, late, publisher, sub, conn, wire, client, seen, base, bounds>>

\* The unit commits its event, which the publisher may already have passed.
Commit(t) ==
  /\ t \in units
  /\ units' = units \ {t} /\ rows' = rows \cup {t}
  /\ late' = IF \E r \in {cursor} \cup page : t < r THEN late \cup {t} ELSE late
  /\ UNCHANGED <<clock, publisher, sub, conn, wire, client, seen, base, bounds>>

\* A desk is deleted with its events; a unit of it that comes later is refused.
DeleteDesk ==
  /\ DeskRows \cap rows # {}
  /\ rows' = rows \ DeskRows /\ units' = units \ DeskRows
  /\ UNCHANGED <<clock, late, publisher, sub, conn, wire, client, seen, base, bounds>>

-------------------------------------------------------------------------------
(* The publisher. *)

\* drain: one page after the cursor
ReadPage ==
  /\ page = {}
  /\ page' = PageOf(cursor, rows) /\ page' # {}
  /\ UNCHANGED <<store, cursor, pushing, sub, conn, wire, client, seen, base, bounds>>

\* (mutant) a full queue only misses the frame
OfferedLossy(s, r) ==
  IF s.open /\ Len(s.queue) < Queue THEN [s EXCEPT !.queue = Append(@, Frame("event", r))] ELSE s

\* A full queue loses its sender; what it holds can still be received.
Offered(s, r) ==
  IF ~s.open THEN s
  ELSE IF Len(s.queue) < Queue THEN [s EXCEPT !.queue = Append(@, Frame("event", r))]
  ELSE [s EXCEPT !.open = FALSE]

\* push: one row to every queue, and the cursor with it, the lock held to the end
\* of the page
Push ==
  /\ page # {}
  /\ cursor' = Min(page)
  /\ sub' = [c \in Clients |-> Offered(sub[c], cursor')]
  /\ page' = page \ {cursor'} /\ pushing' = (page' # {})
  /\ UNCHANGED <<store, conn, wire, client, seen, base, bounds>>

-------------------------------------------------------------------------------
(* A socket's task: first frame, subscription, replay, tail, live frames. *)

At(c, pc) == conn[c].pc = pc
Room(c)   == Len(wire[c]) < Wire
Send(c, frame) == wire' = [wire EXCEPT ![c] = Append(@, frame)]

\* handshake: an `after` that names no row is ignored
Handshake(c) ==
  /\ At(c, "hello")
  /\ conn' = [conn EXCEPT ![c].pc = "subscribe",
                          ![c].after = IF @ \in rows THEN @ ELSE None]
  /\ UNCHANGED <<store, publisher, sub, wire, client, seen, base, bounds>>

\* subscribe: the queue and the tail under one lock
Subscribe(c) ==
  /\ At(c, "subscribe") /\ ~pushing
  /\ sub' = [sub EXCEPT ![c] = [open |-> TRUE, queue |-> <<>>]]
  /\ conn' = [conn EXCEPT ![c].tail = cursor, ![c].at = conn[c].after,
                          ![c].pc = IF conn[c].after = None THEN "tail" ELSE "replay"]
  /\ UNCHANGED <<store, publisher, wire, client, seen, base, bounds>>

\* (mutant) a replay that reads to the end of the table
ReplayableAll(c) == rows

\* what a replay may read: nothing beyond the tail it was given
Replayable(c) == {r \in rows : r <= conn[c].tail}

\* one page of the replay; a short page is the last
ReadReplay(c) ==
  LET batch == PageOf(conn[c].at, Replayable(c)) IN
  /\ At(c, "replay")
  /\ conn' = [conn EXCEPT ![c].batch = batch, ![c].short = Cardinality(batch) < Page,
                          ![c].pc = IF batch = {} THEN "tail" ELSE "send"]
  /\ UNCHANGED <<store, publisher, sub, wire, client, seen, base, bounds>>

SendReplay(c) ==
  LET first == Min(conn[c].batch)
      rest  == conn[c].batch \ {first} IN
  /\ At(c, "send") /\ Room(c)
  /\ Send(c, Frame("event", first))
  /\ conn' = [conn EXCEPT ![c].at = first, ![c].batch = rest,
                          ![c].pc = IF rest # {} THEN "send"
                                    ELSE IF conn[c].short THEN "tail" ELSE "replay"]
  /\ UNCHANGED <<store, publisher, sub, client, seen, base, bounds>>

\* The tail frame; to a connection without a position it is where it starts.
SendTail(c) ==
  /\ At(c, "tail") /\ Room(c)
  /\ Send(c, Frame(IF conn[c].after = None THEN "start" ELSE "tail", conn[c].tail))
  /\ conn' = [conn EXCEPT ![c].pc = "live"]
  /\ UNCHANGED <<store, publisher, sub, client, seen, base, bounds>>

SendLive(c) ==
  /\ At(c, "live") /\ Room(c) /\ sub[c].queue # <<>>
  /\ Send(c, Head(sub[c].queue))
  /\ sub' = [sub EXCEPT ![c].queue = Tail(@)]
  /\ UNCHANGED <<store, publisher, conn, client, seen, base, bounds>>

\* (mutant) a socket that goes on waiting for a queue without a sender
CloseSlowNever(c) == FALSE

\* The queue is drained and its sender gone: 4408.
CloseSlow(c) ==
  /\ At(c, "live") /\ Room(c) /\ sub[c] = NoSub
  /\ Send(c, Frame("close", None))
  /\ conn' = [conn EXCEPT ![c] = Closed]
  /\ UNCHANGED <<store, publisher, sub, client, seen, base, bounds>>

-------------------------------------------------------------------------------
(* The client (useEvents) *)

\* open, and again after every close, with the cursor if there is one
Open(c) ==
  /\ At(c, "closed") /\ wire[c] = <<>>
  /\ conn' = [conn EXCEPT ![c] = [Closed EXCEPT !.pc = "hello", !.after = client[c]]]
  /\ UNCHANGED <<store, publisher, sub, wire, client, seen, base, bounds>>

\* the cursor a frame leaves: its own
Position(c, frame) == IF frame.kind = "close" THEN client[c] ELSE frame.at

Receive(c) ==
  LET frame == Head(wire[c]) IN
  /\ wire[c] # <<>>
  /\ wire' = [wire EXCEPT ![c] = Tail(@)]
  /\ client' = [client EXCEPT ![c] = Position(c, frame)]
  /\ seen' = IF frame.kind = "event" THEN [seen EXCEPT ![c] = Append(@, frame.at)] ELSE seen
  /\ base' = IF frame.kind = "start" THEN [base EXCEPT ![c] = frame.at] ELSE base
  /\ UNCHANGED <<store, publisher, sub, conn, bounds>>

\* A connection is lost with what was on its way.
Drop(c) ==
  /\ ~At(c, "closed") /\ drops < MaxDrops
  /\ drops' = drops + 1
  /\ conn' = [conn EXCEPT ![c] = Closed] /\ wire' = [wire EXCEPT ![c] = <<>>]
  /\ sub' = [sub EXCEPT ![c] = NoSub]
  /\ UNCHANGED <<store, publisher, client, seen, base, restarts>>

\* The daemon dies; its successor's recovery row is committed before the publisher
\* takes the last row for its cursor.
Restart ==
  /\ restarts < MaxRestarts /\ clock < MaxInstant
  /\ restarts' = restarts + 1
  /\ clock' = clock + 1 /\ units' = {} /\ rows' = rows \cup {clock'}
  /\ cursor' = Max(rows') /\ page' = {} /\ pushing' = FALSE
  /\ conn' = [c \in Clients |-> Closed] /\ wire' = [c \in Clients |-> <<>>]
  /\ sub' = [c \in Clients |-> NoSub]
  /\ UNCHANGED <<late, client, seen, base, drops>>

Serves(c) ==
  \/ Handshake(c) \/ Subscribe(c) \/ ReadReplay(c) \/ SendReplay(c)
  \/ SendTail(c) \/ SendLive(c) \/ CloseSlow(c)

Next ==
  \/ ReadsClock \/ DeleteDesk \/ ReadPage \/ Push \/ Restart
  \/ \E t \in units : Commit(t)
  \/ \E c \in Clients : Serves(c) \/ Open(c) \/ Receive(c) \/ Drop(c)

\* The publisher wakes on a commit or after IDLE; the sockets' tasks and the clients
\* run, and a client reopens after its backoff.
Fairness ==
  /\ WF_vars(ReadPage) /\ WF_vars(Push)
  /\ \A c \in Clients : WF_vars(Serves(c)) /\ WF_vars(Open(c)) /\ WF_vars(Receive(c))

Spec == Init /\ [][Next]_vars
FairSpec == Spec /\ Fairness

-------------------------------------------------------------------------------
(* Properties. *)

Rows == 1 .. MaxInstant

TypeOK ==
  /\ clock \in Rows /\ units \subseteq Rows /\ rows \subseteq Rows /\ late \subseteq Rows
  /\ cursor \in Rows /\ page \subseteq Rows /\ Cardinality(page) <= Page /\ pushing \in BOOLEAN
  /\ \A c \in Clients :
       /\ sub[c].open \in BOOLEAN /\ Len(sub[c].queue) <= Queue
       /\ \A i \in DOMAIN sub[c].queue : sub[c].queue[i] \in {Frame("event", r) : r \in Rows}
       /\ conn[c].pc \in {"closed", "hello", "subscribe", "replay", "send", "tail", "live"}
       /\ conn[c].pc = "send" <=> conn[c].batch # {}
       /\ {conn[c].after, conn[c].tail, conn[c].at} \subseteq {None} \cup Rows
       /\ \A i \in DOMAIN wire[c] :
            wire[c][i].kind \in {"event", "tail", "start", "close"} /\ wire[c][i].at \in {None} \cup Rows
       /\ Len(wire[c]) <= Wire
       /\ client[c] \in {None} \cup Rows /\ seen[c] \in Seq(Rows) /\ base[c] \in Rows

\* No client handles an event twice, though it comes back at any point, while the
\* publisher is inside a page, after a restart, or with a position whose row is gone:
\* a replay ends where the live frames start (subscribe, page's upper bound).
SeenOnce == \A c \in Clients : IsInjective(seen[c])

\* The gapless reconnect: of the events between where a client started and where it
\* is, it has handled every one that the publisher had not passed when it committed,
\* whether it came by replay or live, was dropped for a full queue, or lost a socket.
Gapless ==
  \A c \in Clients : \A r \in rows \ late :
    base[c] < r /\ r <= client[c] => r \in ToSet(seen[c])

\* Such an event also arrives in the end, if its desk is not deleted and the client
\* is not told to start later.
ArrivesAt(c, r) == r \in ToSet(seen[c]) \/ r \notin rows \/ base[c] >= r
Arrives ==
  \A c \in Clients : \A r \in Rows :
    r \in rows \ late /\ base[c] < r ~> ArrivesAt(c, r)

\* r5-desktop-approval-controls SPEC 4.2: the frames are "one per row".
OnePerRow ==
  \A c \in Clients : \A r \in Rows :
    r \in rows /\ base[c] < r ~> ArrivesAt(c, r)
===============================================================================
