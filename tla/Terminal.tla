------------------------------- MODULE Terminal -------------------------------
(***************************************************************************)
(* One desk's terminal: the manager's entry and the child in its PTY, the  *)
(* ring and the one current attachment, the sockets that carry it, and the *)
(* desktop panes that reattach and skip what they already show.            *)
(*                                                                         *)
(* A byte of a child's output is its position, counted from one.           *)
(***************************************************************************)
EXTENDS Naturals, Sequences, FiniteSets, SequencesExt, FiniteSetsExt

CONSTANTS
  Panes,       \* desktop windows with a pane for the desk
  Sockets,     \* connections to /desks/{desk}/terminal
  Threads,     \* those in Manager::spawn or Manager::shutdown
  MaxTerms,    \* bound: children spawned
  MaxBytes,    \* bound: bytes the children write, together
  Ring,        \* RING: bytes kept for a replay
  SendBuffer,  \* SEND_BUFFER: unsent bytes after which a consumer is dropped
  Wire,        \* bound: frames a socket has in flight before a send waits
  MaxKeys,     \* bound: keys in flight on a socket
  MaxReloads   \* bound: windows reloaded, together

None == 0

ASSUME TerminalAssumption ==
  /\ {MaxTerms, Ring, SendBuffer, Wire} \subseteq Nat \ {0}
  /\ {MaxBytes, MaxKeys, MaxReloads} \subseteq Nat
  /\ None \notin Sockets

VARIABLES
  entry,   \* Manager.terminals[desk]: a terminal, or None
  term,    \* per terminal: its child, what the child wrote, the sink, whose keys it took
  thread,  \* per thread: where it is, and the terminal it holds
  sock,    \* per socket: the daemon's task and its attachment
  wire,    \* per socket: frames on their way to the desktop
  keys,    \* per socket: keys on their way to the daemon
  pane,    \* per window: the pane
  reloads

daemon == <<entry, term, thread>>
net    == <<sock, wire, keys>>
terminalVars == <<daemon, net, pane, reloads>>

Terms == 1 .. MaxTerms
NoTerm   == [child |-> "none", written |-> 0, out |-> 0, gen |-> 0, sender |-> None, took |-> {}]
NoCall   == [pc |-> "idle", term |-> None, spawns |-> FALSE]
Free     == [pc |-> "free", term |-> None, gen |-> 0, from |-> 0, to |-> 0,
             queue |-> <<>>, buffered |-> 0]
NewPane  == [socket |-> None, due |-> TRUE, again |-> FALSE, term |-> None,
             offset |-> 0, stream |-> 0, shown |-> <<>>, end |-> "none"]

TerminalInit ==
  /\ entry = None /\ term = [t \in Terms |-> NoTerm]
  /\ thread = [a \in Threads |-> NoCall]
  /\ sock = [s \in Sockets |-> Free]
  /\ wire = [s \in Sockets |-> <<>>] /\ keys = [s \in Sockets |-> 0]
  /\ pane = [v \in Panes |-> NewPane]
  /\ reloads = 0

Byte(n)           == [kind |-> "byte", at |-> n]
Signal(kind)      == [kind |-> kind, at |-> 0]

\* Sink::send: nothing without a sender
Sent(t, frame, cost) ==
  LET s == term[t].sender IN
  IF s = None THEN sock
  ELSE [sock EXCEPT ![s].queue = Append(@, frame), ![s].buffered = @ + cost]
\* a sender over its budget is dropped after the frame
StillSending(t, cost) ==
  LET s == term[t].sender IN
  IF s # None /\ sock[s].buffered + cost > SendBuffer THEN None ELSE s

-------------------------------------------------------------------------------
(* The manager: spawn and shutdown, and the child. *)

\* Both take the desk's entry out of the map first.
TakeEntry(a, spawns) ==
  /\ thread[a] = NoCall
  /\ spawns \/ entry # None
  /\ thread' = [thread EXCEPT ![a] =
       [pc |-> IF entry = None THEN "open" ELSE "drain", term |-> entry, spawns |-> spawns]]
  /\ entry' = None
  /\ UNCHANGED <<term, net, pane, reloads>>

\* shutdown waits for the exit thread, after two seconds of grace
Drained(a) ==
  /\ thread[a].pc = "drain" /\ term[thread[a].term].child = "ended"
  /\ thread' = [thread EXCEPT ![a] = IF @.spawns THEN [@ EXCEPT !.pc = "open", !.term = None] ELSE NoCall]
  /\ UNCHANGED <<entry, term, net, pane, reloads>>

OpenChild(a, t) ==
  /\ thread[a].pc = "open"
  /\ t = 1 + Cardinality({u \in Terms : term[u].child # "none"}) /\ t \in Terms
  /\ term' = [term EXCEPT ![t].child = "running"]
  /\ thread' = [thread EXCEPT ![a].pc = "insert", ![a].term = t]
  /\ UNCHANGED <<entry, net, pane, reloads>>

OpenFails(a) ==
  /\ thread[a].pc = "open"
  /\ thread' = [thread EXCEPT ![a] = NoCall]
  /\ UNCHANGED <<entry, term, net, pane, reloads>>

\* Whatever the map holds by now is overwritten.
Insert(a) ==
  /\ thread[a].pc = "insert"
  /\ entry' = thread[a].term
  /\ thread' = [thread EXCEPT ![a] = NoCall]
  /\ UNCHANGED <<term, net, pane, reloads>>

Writes(t) ==
  /\ term[t].child = "running" /\ FoldSet(LAMBDA u, n : n + term[u].written, 0, Terms) < MaxBytes
  /\ term' = [term EXCEPT ![t].written = @ + 1]
  /\ UNCHANGED <<entry, thread, net, pane, reloads>>

\* The reader pushes what it has read: ring, offset and the attachment's queue under
\* one lock.
Push(t) ==
  /\ term[t].child \in {"running", "exited"} /\ term[t].out < term[t].written
  /\ sock' = Sent(t, Byte(term[t].out + 1), 1)
  /\ term' = [term EXCEPT ![t].out = @ + 1, ![t].sender = StillSending(t, 1)]
  /\ UNCHANGED <<entry, thread, wire, keys, pane, reloads>>

\* By itself, of a closed input, or killed with its tree.
ChildExits(t) ==
  /\ term[t].child = "running"
  /\ term' = [term EXCEPT ![t].child = "exited"]
  /\ UNCHANGED <<entry, thread, net, pane, reloads>>

\* (mutant) the exit is reported before the reader was joined
JoinedAnyway(t) == TRUE

Joined(t) == term[t].out = term[t].written

ReportExit(t) ==
  /\ term[t].child = "exited" /\ Joined(t)
  /\ sock' = Sent(t, Signal("exited"), 0)
  /\ term' = [term EXCEPT ![t].child = "ended"]
  /\ UNCHANGED <<entry, thread, wire, keys, pane, reloads>>

-------------------------------------------------------------------------------
(* A socket's task. *)

Room(s) == Len(wire[s]) < Wire
Put(s, frame) == wire' = [wire EXCEPT ![s] = Append(@, frame)]

\* The task is over: its receiver is gone, which the sink finds at its next send.
Dropped(s) == [t \in Terms |-> IF term[t].sender = s THEN [term[t] EXCEPT !.sender = None] ELSE term[t]]
CloseWith(s, code) ==
  /\ Put(s, [kind |-> "close", code |-> code])
  /\ sock' = [sock EXCEPT ![s] = Free] /\ keys' = [keys EXCEPT ![s] = 0]
  /\ term' = Dropped(s)
  /\ UNCHANGED <<entry, thread, pane, reloads>>

NextGeneration(t) == term[t].gen + 1

RingStart(t) == IF term[t].out > Ring THEN term[t].out - Ring ELSE 0

\* attach: the one before is told, and this one gets the ring and what follows it
Attach(s) ==
  /\ sock[s].pc = "hello" /\ entry # None
  /\ LET g == NextGeneration(entry) IN
     /\ sock' = [Sent(entry, Signal("superseded"), 0) EXCEPT ![s] =
          [Free EXCEPT !.pc = "info", !.term = entry, !.gen = g,
                       !.from = RingStart(entry), !.to = term[entry].out]]
     /\ term' = [term EXCEPT ![entry].gen = g, ![entry].sender = s]
  /\ UNCHANGED <<entry, thread, wire, keys, pane, reloads>>

NoLiveTerminal(s) ==
  /\ sock[s].pc = "hello" /\ entry = None /\ Room(s)
  /\ CloseWith(s, "gone")

SendInfo(s) ==
  /\ sock[s].pc = "info" /\ Room(s)
  /\ Put(s, [kind |-> "attached", term |-> sock[s].term, from |-> sock[s].from, to |-> sock[s].to])
  /\ sock' = [sock EXCEPT ![s].pc = IF sock[s].from = sock[s].to THEN "live" ELSE "replay"]
  /\ UNCHANGED <<daemon, keys, pane, reloads>>

Bytes(s, from, to) == [kind |-> "bytes", term |-> sock[s].term, from |-> from, to |-> to]

SendReplay(s) ==
  /\ sock[s].pc = "replay" /\ Room(s)
  /\ Put(s, Bytes(s, sock[s].from, sock[s].to))
  /\ sock' = [sock EXCEPT ![s].pc = "live"]
  /\ UNCHANGED <<daemon, keys, pane, reloads>>

SendByte(s) ==
  LET frame == Head(sock[s].queue) IN
  /\ sock[s].pc = "live" /\ Room(s) /\ sock[s].queue # <<>> /\ frame.kind = "byte"
  /\ Put(s, Bytes(s, frame.at - 1, frame.at))
  /\ sock' = [sock EXCEPT ![s].queue = Tail(@), ![s].buffered = @ - 1]
  /\ UNCHANGED <<daemon, keys, pane, reloads>>

\* A terminal nobody holds: taken out of the map, its child ended, shutdown returned.
Released(t) ==
  term[t].child = "ended" /\ entry # t /\ \A a \in Threads : thread[a].term # t

\* (mutant) a dropped consumer's task waits on
NoSenderNever(s) == FALSE

\* frames.recv() has nothing and never will
NoSender(s) ==
  sock[s].queue = <<>> /\ (term[sock[s].term].sender # s \/ Released(sock[s].term))

SendEnd(s) ==
  /\ sock[s].pc = "live" /\ Room(s)
  /\ \/ /\ NoSender(s)
        /\ CloseWith(s, "superseded")
     \/ /\ sock[s].queue # <<>> /\ Head(sock[s].queue).kind # "byte"
        /\ CloseWith(s, Head(sock[s].queue).kind)

\* write and resize: the desk's entry, if its generation is this attachment's
ReadKey(s) ==
  /\ sock[s].pc = "live" /\ keys[s] > 0
  /\ keys' = [keys EXCEPT ![s] = @ - 1]
  /\ term' = IF entry # None /\ term[entry].gen = sock[s].gen
             THEN [term EXCEPT ![entry].took = @ \cup {sock[s].term}] ELSE term
  /\ UNCHANGED <<entry, thread, sock, wire, pane, reloads>>

Unowned(s) == \A v \in Panes : pane[v].socket # s

\* The task finds its peer gone, at a send or after the keys that were still to read.
PeerGone(s) ==
  /\ sock[s].pc # "free" /\ Unowned(s)
  /\ sock' = [sock EXCEPT ![s] = Free] /\ keys' = [keys EXCEPT ![s] = 0]
  /\ wire' = [wire EXCEPT ![s] = <<>>] /\ term' = Dropped(s)
  /\ UNCHANGED <<entry, thread, pane, reloads>>

-------------------------------------------------------------------------------
(* A pane (useTerminal). *)

OpenSocket(v, s) ==
  /\ pane[v].due /\ pane[v].socket = None
  /\ sock[s] = Free /\ Unowned(s)
  /\ pane' = [pane EXCEPT ![v].socket = s, ![v].due = FALSE, ![v].stream = 0]
  /\ sock' = [sock EXCEPT ![s].pc = "hello"]
  /\ wire' = [wire EXCEPT ![s] = <<>>]
  /\ UNCHANGED <<daemon, keys, reloads>>

Stopped(p) == [p EXCEPT !.socket = None, !.again = TRUE]

\* A new terminal, a gap, or a replay that ends behind what is shown.
Discontinuous(p, info) ==
  p.term # None /\ (p.term # info.term \/ info.from > p.offset \/ info.to < p.offset)

Attached(p, info) ==
  IF Discontinuous(p, info) THEN Stopped(p)
  ELSE IF p.term # None THEN [p EXCEPT !.stream = info.from]
  ELSE [p EXCEPT !.stream = info.from, !.term = info.term, !.offset = info.from]

\* (mutant) a replay shown whole
SkipNothing(p) == 0

\* what of a frame the pane already shows
Skip(p) == IF p.offset > p.stream THEN p.offset - p.stream ELSE 0

Shown(p, frame) ==
  LET fresh == [i \in 1 .. (frame.to - frame.from) - Skip(p) |-> <<frame.term, frame.from + Skip(p) + i>>] IN
  [p EXCEPT !.stream = @ + (frame.to - frame.from), !.offset = @ + Len(fresh), !.shown = @ \o fresh]

\* A refused attachment disposes of the pane.
Closed(p, code) ==
  IF code = "gone" THEN [NewPane EXCEPT !.due = FALSE]
  ELSE [p EXCEPT !.socket = None, !.end = code]

Receive(v) ==
  LET s == pane[v].socket
      frame == Head(wire[s]) IN
  /\ s # None /\ wire[s] # <<>>
  /\ wire' = [wire EXCEPT ![s] = Tail(@)]
  /\ \/ /\ frame.kind = "attached"
        /\ pane' = [pane EXCEPT ![v] = Attached(@, frame)]
     \/ /\ frame.kind = "bytes"
        /\ \/ pane' = [pane EXCEPT ![v] = Shown(@, frame)]
           \/ pane' = [pane EXCEPT ![v] = Stopped(@)]      \* the parser's queue is full
     \/ /\ frame.kind = "close"
        /\ pane' = [pane EXCEPT ![v] = Closed(@, frame.code)]
  /\ UNCHANGED <<daemon, sock, keys, reloads>>

Types(v) ==
  LET s == pane[v].socket IN
  /\ s # None /\ sock[s].pc # "free" /\ keys[s] < MaxKeys
  /\ keys' = [keys EXCEPT ![s] = @ + 1]
  /\ UNCHANGED <<daemon, sock, wire, pane, reloads>>

\* A connection that breaks is opened once more.
Lost(v) ==
  /\ pane[v].socket # None
  /\ pane' = [pane EXCEPT ![v].socket = None, ![v].due = ~pane[v].again, ![v].again = TRUE]
  /\ UNCHANGED <<daemon, net, reloads>>

\* The window is reloaded, or the pane disposed of and made again for the next session.
Reload(v) ==
  /\ reloads < MaxReloads
  /\ reloads' = reloads + 1
  /\ pane' = [pane EXCEPT ![v] = NewPane]
  /\ UNCHANGED <<daemon, net>>

Sends(s) == NoLiveTerminal(s) \/ Attach(s) \/ SendInfo(s) \/ SendReplay(s) \/ SendByte(s) \/ SendEnd(s)

TerminalNext ==
  \/ \E a \in Threads :
       \/ \E spawns \in BOOLEAN : TakeEntry(a, spawns)
       \/ Drained(a) \/ OpenFails(a) \/ Insert(a)
       \/ \E t \in Terms : OpenChild(a, t)
  \/ \E t \in Terms : Writes(t) \/ Push(t) \/ ChildExits(t) \/ ReportExit(t)
  \/ \E s \in Sockets : Sends(s) \/ ReadKey(s) \/ PeerGone(s)
  \/ \E v \in Panes :
       \/ Receive(v) \/ Types(v) \/ Lost(v) \/ Reload(v)
       \/ \E s \in Sockets : OpenSocket(v, s)

TerminalSpec == TerminalInit /\ [][TerminalNext]_terminalVars
-------------------------------------------------------------------------------
(* Properties. *)

TerminalTypeOK ==
  /\ entry \in {None} \cup Terms
  /\ \A t \in Terms :
       /\ term[t].child \in {"none", "running", "exited", "ended"}
       /\ term[t].out \in 0 .. term[t].written /\ term[t].written \in 0 .. MaxBytes
       /\ term[t].gen \in Nat /\ term[t].took \subseteq Terms
       /\ term[t].sender \in {None} \cup {s \in Sockets : sock[s].term = t /\ sock[s].gen = term[t].gen}
  /\ \A a \in Threads : thread[a].pc \in {"idle", "drain", "open", "insert"} /\ thread[a].term \in {None} \cup Terms
  /\ \A s \in Sockets :
       /\ sock[s].pc \in {"free", "hello", "info", "replay", "live"}
       /\ sock[s].buffered = Len(SelectSeq(sock[s].queue, LAMBDA f : f.kind = "byte"))
       /\ Len(wire[s]) <= Wire /\ keys[s] \in 0 .. MaxKeys
  /\ \A r, s \in Sockets :
       r # s /\ sock[r].gen > 0 => <<sock[r].term, sock[r].gen>> # <<sock[s].term, sock[s].gen>>
  /\ \A v \in Panes :
       /\ pane[v].socket \in {None} \cup Sockets
       /\ pane[v].term \in {None} \cup Terms /\ {pane[v].due, pane[v].again} \subseteq BOOLEAN

\* What a pane shows is one unbroken stretch of one child's output, whatever it went
\* through: a ring that lost its oldest bytes, a reattachment while the child writes, a
\* session that ended and another that began (Sink's lock, useTerminal's offsets).
Contiguous ==
  \A v \in Panes : \A i \in DOMAIN pane[v].shown :
    pane[v].shown[i] = <<pane[v].term, pane[v].offset - (Len(pane[v].shown) - i)>>

\* A pane that was told of its child's exit has everything the child wrote: on Unix the
\* exit thread joins the reader before it sends the frame. (On Windows, which is not
\* modelled, the reader is left behind, terminal.rs:279.)
ExitLast ==
  \A v \in Panes :
    pane[v].end = "exited" => pane[v].term # None /\ pane[v].offset = term[pane[v].term].written

\* No viewer is left waiting: when nothing is under way to an attached pane, it shows all
\* that was read from its child, or its task has an end to send, because it was too slow
\* (and held no more than its budget and one read), superseded, or outlived its terminal.
NeverLeftWaiting ==
  \A v \in Panes : LET s == pane[v].socket IN
    s # None =>
      /\ sock[s].buffered <= SendBuffer + 1
      /\ sock[s].pc = "live" /\ sock[s].queue = <<>> /\ wire[s] = <<>>
           => NoSender(s) \/ pane[v].offset = term[sock[s].term].out

\* r3-runtime-delivery SPEC 3: input of a stale attachment is rejected. The generation
\* that is compared starts again with each terminal.
InputOwned == \A t \in Terms : term[t].took \subseteq {t}

\* terminal.rs:145: "one live terminal per desk": a running child is the desk's
\* terminal, or in the hands of a thread that starts or ends it.
OneTerminal ==
  \A t \in Terms : term[t].child = "running" => entry = t \/ \E a \in Threads : thread[a].term = t
===============================================================================
