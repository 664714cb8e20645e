------------------------------- MODULE Dispatch -------------------------------
(***************************************************************************)
(* Session activation and prompt delivery: marketrigd's dispatcher task,   *)
(* the session routes that race it, the rows both write, and what the two  *)
(* runtime adapters and the terminal manager do around them (dispatch.rs,  *)
(* session.rs, codex.rs, claude.rs, terminal.rs, the session routes of     *)
(* api.rs).                                                                *)
(*                                                                         *)
(* A step is what runs between two awaits, cut further wherever a durable  *)
(* write is followed by something another task, a child or a crash can     *)
(* tell apart (the attempt, the handover, its outcome; the old terminal's  *)
(* end, the new child, its place in the map, the row, the live entry).     *)
(* Between two steps any other task of the daemon may run, children may    *)
(* report or die, and the daemon may be lost.                              *)
(***************************************************************************)
EXTENDS Integers, Sequences, FiniteSets

CONSTANTS
  Desks,       \* the installation's desks
  Routes,      \* HTTP handlers that may run activate / switch concurrently
  Installed,   \* the runtimes discovery finds on this machine
  MaxProcs,    \* bound: runtime children started, over all daemon lives
  MaxResults,  \* bound: TRIGGER_RESULT and EVALUATION prompts produced
  MaxEvents,   \* bound: adapter events waiting when a thread reports itself idle
  MaxLosses,   \* bound: losses of the Codex control plane, over all daemon lives
  MaxCrashes   \* bound: daemon deaths, by crash or Quit

Dispatcher == "dispatcher"
Runtimes   == {"codex", "claude"}

ASSUME DispatchAssumption ==
  /\ IsFiniteSet(Desks)
  /\ Dispatcher \notin Routes
  /\ Installed \subseteq Runtimes
  /\ MaxProcs \in Nat /\ MaxResults \in Nat /\ MaxEvents \in Nat
  /\ MaxLosses \in Nat /\ MaxCrashes \in Nat

Actors == Routes \cup {Dispatcher}
NoProc == 0     \* no child, no process row
NoSid  == 0     \* NULL native_session_id; a session is named by the child that minted it

VARIABLES
  \* SQLite
  selected,    \* desks.selected_runtime
  available,   \* runtimes.state = 'AVAILABLE'
  pointer,     \* native_sessions: desk -> runtime -> session
  prompts,     \* prompts rows, in insertion order
  procs,       \* children in start order, each with its agent_processes row
  \* the terminal manager and the adapters
  term,        \* Manager.terminals: desk -> child on the desk's terminal
  codex,       \* desk -> the Codex adapter's Threads entry
  chan,        \* Channels.live: desk -> Claude child whose bridge is connected
  restarts,    \* Codex control-plane losses since the last retry
  events,      \* the AdapterEvent channel, oldest first
  exits,       \* the TerminalExit channel, oldest first
  \* the dispatcher's memory
  up,          \* the daemon runs
  live,        \* Dispatcher.live: desk -> activation waited on, or NoLive
  activating,  \* Dispatcher.activating: desk -> held events, or NotActivating
  act,         \* one activate / switch call, or the events still to handle, per actor
  disp,        \* the dispatcher loop
  \* history and bounds
  handed,      \* every prompt a runtime really received, in order
  overlapped,  \* desks for which two terminal spawns of this daemon's life overlapped
  losses, crashes

adapterVars == <<term, codex, chan, restarts, exits>>
history     == <<handed, overlapped, losses, crashes>>
vars == <<selected, available, pointer, prompts, procs, term, codex, chan, restarts,
          events, exits, up, live, activating, act, disp, handed, overlapped, losses, crashes>>

NoLive        == [proc |-> NoProc, runtime |-> "codex", resume |-> NoSid,
                  explicit |-> FALSE, ready |-> FALSE]
NotActivating == <<[kind |-> "NotActivating"]>>
NoThread      == [live |-> NoProc, thread |-> NoSid, awaiting |-> FALSE,
                  ready |-> FALSE, gate |-> FALSE, loaded |-> FALSE]

\* An actor that is inside no call: it holds the events it has yet to handle.
Holding(inbox) == [pc |-> "drain", desk |-> "none", caller |-> "none", runtime |-> "none",
                   resume |-> NoSid, explicit |-> FALSE, proc |-> NoProc, inbox |-> inbox]
Idle(a)        == act[a] = Holding(<<>>)

\* The dispatcher loop outside a delivery.
At(pc, todo) == [pc |-> pc, todo |-> todo, prompt |-> 0, proc |-> NoProc,
                 named |-> {}, outcome |-> "none"]

-----------------------------------------------------------------------------
(* The rows *)

\* prompts WHERE desk_id = d AND state = 'QUEUED'
Queued(d) == {p \in DOMAIN prompts : prompts[p].desk = d /\ prompts[p].state = "QUEUED"}

\* ORDER BY created_at_ns, id
Before_ById(p, q) == p < q   \* mutant: the order of insertion
Before(p, q) == \/ prompts[p].created < prompts[q].created
                \/ prompts[p].created = prompts[q].created /\ p < q
Heads(d) == {p \in Queued(d) : \A q \in Queued(d) : p = q \/ Before(p, q)}

\* state = 'FAILED' AND disclosed_at_ns IS NULL
\* mutant: disclosed_at_ns is not looked at
Undisclosed_Again(d) == {p \in DOMAIN prompts :
  prompts[p].desk = d /\ prompts[p].state = "FAILED"}
Undisclosed(d) == {p \in DOMAIN prompts :
  prompts[p].desk = d /\ prompts[p].state = "FAILED" /\ prompts[p].disclosed = 0}

\* ended_at_ns IS NULL, over a given state of the table
OpenRows(rows, d) == {p \in DOMAIN rows : rows[p].desk = d /\ rows[p].row = "OPEN"}
LiveProcess(rows, d) ==
  IF OpenRows(rows, d) = {} THEN NoProc ELSE CHOOSE p \in OpenRows(rows, d) : TRUE

NewPrompt(d, kind, at) ==
  [desk |-> d, kind |-> kind, state |-> "QUEUED", created |-> at,
   attempted |-> FALSE, failure |-> "none", disclosed |-> 0]

\* Every QUEUED prompt of the desk fails with the same code, its attempt cleared.
FailQueued(d, code) ==
  prompts' = [p \in DOMAIN prompts |->
    IF p \in Queued(d)
      THEN [prompts[p] EXCEPT !.state = "FAILED", !.failure = code, !.attempted = FALSE]
      ELSE prompts[p]]

\* close_process: a row already closed is left alone.  Of the reasons a row is closed for
\* (EXITED, INTERRUPTED, QUIT, DAEMON_LOST, CONTROL_PLANE_LOST) only the last is told apart.
Close(rows, p, reason) ==
  [q \in DOMAIN rows |->
    IF q = p /\ rows[q].row = "OPEN" THEN [rows[q] EXCEPT !.row = reason] ELSE rows[q]]

\* Manager::shutdown: the child on the desk's terminal is ended; one that was
\* still running reports its exit on the stream.
Shutdown_Detaches(d) == procs   \* mutant: the child is let go, not ended
Shutdown(d) ==
  [q \in DOMAIN procs |-> IF q = term[d] THEN [procs[q] EXCEPT !.alive = FALSE] ELSE procs[q]]
ShutdownExits_Silent(d) == <<>>   \* mutant: a child that was shut down is not reported
ShutdownExits(d) ==
  IF term[d] # NoProc /\ procs[term[d]].alive
    THEN <<[desk |-> d, proc |-> term[d]]>> ELSE <<>>

\* The session a child runs: the one it resumed, or the one it minted.
SessionOf(p) == IF procs[p].resume # NoSid THEN procs[p].resume ELSE p

-----------------------------------------------------------------------------
(* activate: admission, spawn, the row, the live entry and the held events *)

Admission(rows, ptr, d, mode) ==
  IF OpenRows(rows, d) # {} THEN "SESSION_LIVE"
  ELSE IF ~available[selected[d]] THEN "RUNTIME_UNAVAILABLE"
  ELSE IF mode = "CONTINUE" /\ ptr[d][selected[d]] = NoSid THEN "NO_NATIVE_SESSION"
  ELSE "ADMITTED"

\* What each caller does with an activation that failed: a route answers, the
\* queue pass fails the desk's prompts for two of the errors, the restart of an
\* unresumable session for all of them.
ActivationFailed(caller, d, error) ==
  CASE caller = "retry" -> FailQueued(d, "ACTIVATION_FAILED")
    [] caller = "queue" /\ error = "RUNTIME_UNAVAILABLE" -> FailQueued(d, "RUNTIME_UNAVAILABLE")
    [] caller = "queue" /\ error = "SPAWN" -> FailQueued(d, "ACTIVATION_FAILED")
    [] OTHER -> UNCHANGED prompts

\* activate up to the spawn; the actor keeps the events it has yet to handle.
Activate(a, inbox, rows, ptr, d, mode, caller) ==
  LET error == Admission(rows, ptr, d, mode) IN
  IF error = "ADMITTED"
    THEN /\ act' = [act EXCEPT ![a] =
              [pc |-> "spawn", desk |-> d, caller |-> caller, runtime |-> selected[d],
               resume |-> IF mode = "NEW" THEN NoSid ELSE ptr[d][selected[d]],
               explicit |-> mode = "CONTINUE", proc |-> NoProc, inbox |-> inbox]]
         /\ activating' = [activating EXCEPT ![d] = <<>>]
         /\ UNCHANGED prompts
    ELSE /\ ActivationFailed(caller, d, error)
         /\ act' = [act EXCEPT ![a] = Holding(inbox)]
         /\ UNCHANGED activating

\* adapter.spawn, in the steps that another spawn of the desk can fall between: the
\* Codex maps are reset and the terminal in the manager's map is taken out and ended,
InSpawn(a, d) == act[a].desk = d /\ act[a].pc \in {"start", "insert"}

EndPrevious(a) ==
  /\ up /\ act[a].pc = "spawn"
  /\ LET d == act[a].desk
         resume == act[a].resume
     IN
     /\ procs' = Shutdown(d)
     /\ exits' = exits \o ShutdownExits(d)
     /\ term' = [term EXCEPT ![d] = NoProc]
     /\ codex' = IF act[a].runtime = "codex"
          THEN [codex EXCEPT ![d] = [@ EXCEPT !.ready = FALSE, !.gate = FALSE, !.thread = resume,
                                              !.awaiting = codex[d].awaiting \/ resume = NoSid]]
          ELSE codex
     /\ overlapped' = IF \E b \in Actors : InSpawn(b, d) THEN overlapped \cup {d} ELSE overlapped
  /\ act' = [act EXCEPT ![a] = [@ EXCEPT !.pc = "start"]]
  /\ UNCHANGED <<selected, available, pointer, prompts, chan, restarts, events, up, live,
                 activating, disp, handed, losses, crashes>>

\* the child is started,
StartChild(a) ==
  /\ up /\ act[a].pc = "start" /\ Len(procs) < MaxProcs
  /\ procs' = Append(procs,
       [desk |-> act[a].desk, runtime |-> act[a].runtime, resume |-> act[a].resume,
        alive |-> TRUE, reported |-> FALSE, row |-> "NONE", ready |-> FALSE, native |-> NoSid])
  /\ act' = [act EXCEPT ![a] = [@ EXCEPT !.pc = "insert", !.proc = Len(procs) + 1]]
  /\ UNCHANGED <<selected, available, pointer, prompts, adapterVars, events, up, live,
                 activating, disp, history>>

\* and its terminal is inserted over whatever the map holds by then.
InsertTerminal(a) ==
  /\ up /\ act[a].pc = "insert"
  /\ LET d == act[a].desk IN
     /\ term' = [term EXCEPT ![d] = act[a].proc]
     /\ codex' = IF act[a].runtime = "codex"
          THEN [codex EXCEPT ![d] = [@ EXCEPT !.live = act[a].proc]] ELSE codex
  /\ act' = [act EXCEPT ![a] = [@ EXCEPT !.pc = "open"]]
  /\ UNCHANGED <<selected, available, pointer, prompts, procs, chan, restarts, events, exits, up,
                 live, activating, disp, history>>

\* activate's two late failures: the window closes and the held events are dropped.
GiveUp(a, error) ==
  /\ activating' = [activating EXCEPT ![act[a].desk] = NotActivating]
  /\ ActivationFailed(act[a].caller, act[a].desk, error)
  /\ act' = [act EXCEPT ![a] = Holding(act[a].inbox)]
  /\ UNCHANGED <<selected, available, pointer, procs, adapterVars, events, up, live, disp,
                 history>>

\* Before the old terminal was ended, or after.
SpawnFails(a) == up /\ act[a].pc \in {"spawn", "start"} /\ GiveUp(a, "SPAWN")

\* The partial unique index refuses a second open row of the desk.
OpenRefused(a) ==
  /\ up /\ act[a].pc = "open" /\ OpenRows(procs, act[a].desk) # {}
  /\ GiveUp(a, "STORE")

\* The session id known at spawn: Claude's is minted by the daemon, a resume's is
\* the pointer, a new Codex thread is discovered later.
KnownSession(p) == IF procs[p].runtime = "claude" THEN SessionOf(p) ELSE procs[p].resume

\* The prompts a new session is headed with, given the oldest instant waiting.
ActivationPrompts(d, at) ==
  (IF Undisclosed(d) = {} THEN <<>> ELSE <<NewPrompt(d, "DISCLOSURE", at - 2)>>)
    \o <<NewPrompt(d, "ORIENTATION", at - 1)>>

\* MIN(created_at_ns) of what is QUEUED, or the unit's own instant.
Oldest(d) == IF Queued(d) = {} THEN {Len(prompts) + 1} ELSE {prompts[p].created : p \in Heads(d)}

\* session::open_process: the row and, for a new session, its prompts in one unit.
OpenProcess(a) ==
  /\ up /\ act[a].pc = "open" /\ OpenRows(procs, act[a].desk) = {}
  /\ LET p == act[a].proc IN
     procs' = [procs EXCEPT ![p].row = "OPEN", ![p].native = KnownSession(p)]
  /\ IF act[a].resume = NoSid
       THEN \E at \in Oldest(act[a].desk) :
              prompts' = prompts \o ActivationPrompts(act[a].desk, at)
       ELSE UNCHANGED prompts
  /\ act' = [act EXCEPT ![a].pc = "install"]
  /\ UNCHANGED <<selected, available, pointer, adapterVars, events, up, live, activating,
                 disp, history>>

\* repoint, the live entry, and the held events taken over by the actor.
Install(a) ==
  /\ up /\ act[a].pc = "install"
  /\ LET d == act[a].desk
         r == act[a].runtime
         known == KnownSession(act[a].proc)
         held == IF activating[d] = NotActivating THEN <<>> ELSE activating[d]
     IN
     /\ pointer' = IF known = NoSid THEN pointer ELSE [pointer EXCEPT ![d][r] = known]
     /\ live' = [live EXCEPT ![d] =
          [proc |-> act[a].proc, runtime |-> r, resume |-> act[a].resume,
           explicit |-> act[a].explicit, ready |-> FALSE]]
     /\ activating' = [activating EXCEPT ![d] = NotActivating]
     /\ act' = [act EXCEPT ![a] = Holding(held \o act[a].inbox)]
  /\ UNCHANGED <<selected, available, prompts, procs, adapterVars, events, up, disp, history>>

-----------------------------------------------------------------------------
(* ended and event: evidence about a desk's session *)

\* Closes the row the live entry names, or the open row when there is no entry.
\* A session that was ready leaves its queue alone; a resume that never got ready
\* loses its pointer and is started new, unless it was an explicit Continue.
Ended(a, inbox, d, reason) ==
  LET l == live[d]
      rows == Close(procs, IF l = NoLive THEN LiveProcess(procs, d) ELSE l.proc, reason)
      early == l # NoLive /\ ~l.ready
  IN
  /\ live' = [live EXCEPT ![d] = NoLive]
  /\ procs' = rows
  /\ \/ /\ early /\ l.resume # NoSid /\ ~l.explicit
        /\ pointer' = [pointer EXCEPT ![d][l.runtime] = NoSid]
        /\ Activate(a, inbox, rows, [pointer EXCEPT ![d][l.runtime] = NoSid], d, "NEW", "retry")
     \/ /\ early /\ l.resume = NoSid
        /\ FailQueued(d, "ACTIVATION_FAILED")
        /\ act' = [act EXCEPT ![a] = Holding(inbox)]
        /\ UNCHANGED <<pointer, activating>>
     \/ /\ ~early \/ (l.resume # NoSid /\ l.explicit)
        /\ act' = [act EXCEPT ![a] = Holding(inbox)]
        /\ UNCHANGED <<pointer, activating, prompts>>

\* Readiness: the live entry, and the open row's ready_at_ns.
Readied(a, inbox, d) ==
  /\ live' = IF live[d] = NoLive THEN live ELSE [live EXCEPT ![d].ready = TRUE]
  /\ procs' = [q \in DOMAIN procs |->
       IF q \in OpenRows(procs, d) THEN [procs[q] EXCEPT !.ready = TRUE] ELSE procs[q]]
  /\ act' = [act EXCEPT ![a] = Holding(inbox)]
  /\ UNCHANGED <<pointer, prompts, activating>>

\* The pointer of the live entry's runtime moves; an open row without a session
\* id adopts this one.
Discovered(a, inbox, d, sid) ==
  /\ LET r == IF live[d] = NoLive THEN selected[d] ELSE live[d].runtime IN
     pointer' = [pointer EXCEPT ![d][r] = sid]
  /\ procs' = [q \in DOMAIN procs |->
       IF q \in OpenRows(procs, d) /\ procs[q].native = NoSid
         THEN [procs[q] EXCEPT !.native = sid] ELSE procs[q]]
  /\ act' = [act EXCEPT ![a] = Holding(inbox)]
  /\ UNCHANGED <<prompts, live, activating>>

\* event: held while the desk's spawn is in flight, else handled.
Event(a, inbox, e) ==
  /\ IF activating[e.desk] # NotActivating
       THEN /\ activating' = [activating EXCEPT ![e.desk] = Append(@, e)]
            /\ act' = [act EXCEPT ![a] = Holding(inbox)]
            /\ UNCHANGED <<pointer, prompts, procs, live>>
       ELSE \/ e.kind = "Ready" /\ Readied(a, inbox, e.desk)
            \/ e.kind = "PointerDiscovered" /\ Discovered(a, inbox, e.desk, e.sid)
            \/ e.kind = "Exited" /\ Ended(a, inbox, e.desk, "CONTROL_PLANE_LOST")
  /\ UNCHANGED <<selected, available, adapterVars, up, history>>

\* The events held during a spawn are handled by whoever ran it.
Drain(a) ==
  /\ up /\ act[a].pc = "drain" /\ act[a].inbox # <<>>
  /\ Event(a, Tail(act[a].inbox), Head(act[a].inbox))
  /\ UNCHANGED <<events, disp>>

-----------------------------------------------------------------------------
(* The dispatcher loop: one pass, the deadlines, then one wake *)

Looping(pc) == up /\ Idle(Dispatcher) /\ disp.pc = pc

\* pass: the desks with something queued.
Pass ==
  /\ Looping("pass")
  /\ disp' = At("queue", {d \in Desks : Queued(d) # {}})
  /\ UNCHANGED <<selected, available, pointer, prompts, procs, adapterVars, events, up, live,
                 activating, act, history>>

\* One desk of the pass: no session, start one; a ready one, read the head prompt
\* and what a disclosure would name; one that is not ready yet, move on.
Visit(d) ==
  /\ Looping("queue") /\ d \in disp.todo
  /\ LET p == LiveProcess(procs, d)
         rest == At("queue", disp.todo \ {d})
     IN
     \/ /\ p = NoProc /\ disp' = rest
        /\ Activate(Dispatcher, <<>>, procs, pointer, d, "AUTO", "queue")
     \/ /\ p # NoProc /\ procs[p].ready
        /\ \E head \in Heads(d) :
             disp' = [rest EXCEPT !.pc = "attempt", !.proc = p, !.prompt = head,
                        !.named = IF prompts[head].kind = "DISCLOSURE"
                                    THEN Undisclosed(d) ELSE {}]
        /\ UNCHANGED <<prompts, activating, act>>
     \/ /\ p # NoProc /\ (~procs[p].ready \/ Queued(d) = {}) /\ disp' = rest
        /\ UNCHANGED <<prompts, activating, act>>
  /\ UNCHANGED <<selected, available, pointer, procs, adapterVars, events, up, live, history>>

\* mutant: the adapter is called without the attempt on record
MarkAttempted_Skipped ==
  /\ Looping("attempt") /\ disp' = [disp EXCEPT !.pc = "call"]
  /\ UNCHANGED <<selected, available, pointer, prompts, procs, adapterVars, events, up, live,
                 activating, act, history>>
\* mark_attempted, before the adapter is called.
MarkAttempted ==
  /\ Looping("attempt")
  /\ prompts' = [prompts EXCEPT ![disp.prompt].attempted = TRUE]
  /\ disp' = [disp EXCEPT !.pc = "call"]
  /\ UNCHANGED <<selected, available, pointer, procs, adapterVars, events, up, live,
                 activating, act, history>>

\* The runtime the prompt is being handed to receives it.  Codex takes it on the
\* thread the adapter knows for the desk, Claude on the connected bridge.
Receiver(d, r) ==
  IF r = "codex" THEN (IF codex[d].loaded THEN codex[d].thread ELSE NoSid)
  ELSE (IF chan[d] = NoProc THEN NoSid ELSE SessionOf(chan[d]))

\* The Codex adapter's first look: a thread it knows, whose last status may be idle.
GateOpen(d, r) == r = "codex" => codex[d].thread # NoSid /\ codex[d].gate

HandOver(runtimes, received, outcome) ==
  /\ Looping("call") /\ procs[disp.proc].runtime \in runtimes
  /\ GateOpen(prompts[disp.prompt].desk, procs[disp.proc].runtime)
  /\ LET to == Receiver(prompts[disp.prompt].desk, procs[disp.proc].runtime) IN
     IF received
       THEN /\ to # NoSid
            /\ handed' = Append(handed, [prompt |-> disp.prompt, proc |-> disp.proc, to |-> to])
       ELSE UNCHANGED handed
  /\ disp' = [disp EXCEPT !.pc = "resolve", !.outcome = outcome]
  /\ UNCHANGED <<selected, available, pointer, prompts, procs, adapterVars, events, up, live,
                 activating, act, overlapped, losses, crashes>>

Delivers        == HandOver(Runtimes, TRUE, "DELIVERED")
DeliveryRefused == HandOver({"codex"}, FALSE, "DELIVERY_REFUSED")
\* mutant: a call that timed out counts as refused
HandoffUnknown_AsRefused ==
  \E received \in BOOLEAN : HandOver({"codex"}, received, "DELIVERY_REFUSED")
HandoffUnknown  == \E received \in BOOLEAN : HandOver({"codex"}, received, "HANDOFF_UNKNOWN")
ChannelUnavailable ==
  /\ HandOver({"claude"}, FALSE, "CHANNEL_UNAVAILABLE")
  /\ chan[prompts[disp.prompt].desk] = NoProc

\* The Codex gate is closed: clear_attempt, and the prompt stays at the head.
Waiting ==
  /\ Looping("call") /\ procs[disp.proc].runtime = "codex"
  /\ prompts' = [prompts EXCEPT ![disp.prompt].attempted = FALSE]
  /\ disp' = At("queue", disp.todo)
  /\ UNCHANGED <<selected, available, pointer, procs, adapterVars, events, up, live,
                 activating, act, history>>

\* resolve: the outcome and, for a delivered disclosure, the rows it named.
Resolve ==
  /\ Looping("resolve")
  /\ LET delivered == disp.outcome = "DELIVERED" IN
     prompts' = [p \in DOMAIN prompts |->
       IF p = disp.prompt
         THEN [prompts[p] EXCEPT !.state = IF delivered THEN "DELIVERED" ELSE "FAILED",
                                 !.failure = IF delivered THEN "none" ELSE disp.outcome]
       ELSE IF delivered /\ p \in disp.named
         THEN [prompts[p] EXCEPT !.disclosed = @ + 1]
       ELSE prompts[p]]
  /\ disp' = At("queue", disp.todo)
  /\ UNCHANGED <<selected, available, pointer, procs, adapterVars, events, up, live,
                 activating, act, history>>

\* mutant: no activation ever expires
CheckDeadlines_Never ==
  /\ Looping("queue") /\ disp.todo = {} /\ disp' = At("deadlines", {})
  /\ UNCHANGED <<selected, available, pointer, prompts, procs, adapterVars, events, up, live,
                 activating, act, history>>
\* check_deadlines: any activation still not ready may be past its 120 seconds.
CheckDeadlines ==
  /\ Looping("queue") /\ disp.todo = {}
  /\ \E expired \in SUBSET {d \in Desks : live[d] # NoLive /\ ~live[d].ready} :
       disp' = At("deadlines", expired)
  /\ UNCHANGED <<selected, available, pointer, prompts, procs, adapterVars, events, up, live,
                 activating, act, history>>

Expire(d) ==
  /\ Looping("deadlines") /\ d \in disp.todo
  /\ Ended(Dispatcher, <<>>, d, "ENDED")
  /\ disp' = At("deadlines", disp.todo \ {d})
  /\ UNCHANGED <<selected, available, adapterVars, events, up, history>>

Select == Looping("deadlines") /\ disp.todo = {}

\* notified, or the 30-second poll.
Wake ==
  /\ Select /\ disp' = At("pass", {})
  /\ UNCHANGED <<selected, available, pointer, prompts, procs, adapterVars, events, up, live,
                 activating, act, history>>

RecvEvent ==
  /\ Select /\ events # <<>>
  /\ events' = Tail(events)
  /\ Event(Dispatcher, <<>>, Head(events))
  /\ disp' = At("pass", {})

\* A terminal that is no longer the desk's live process is stale evidence.
RecvExit ==
  /\ Select /\ exits # <<>>
  /\ LET e == Head(exits) IN
     IF LiveProcess(procs, e.desk) = e.proc
       THEN Ended(Dispatcher, <<>>, e.desk, "ENDED")
       ELSE UNCHANGED <<pointer, prompts, procs, live, activating, act>>
  /\ exits' = Tail(exits)
  /\ disp' = At("pass", {})
  /\ UNCHANGED <<selected, available, term, codex, chan, restarts, events, up, history>>

-----------------------------------------------------------------------------
(* The session routes *)

SessionActivate(r, d, mode) ==
  /\ up /\ Idle(r)
  /\ Admission(procs, pointer, d, mode) = "ADMITTED"   \* a refusal changes nothing
  /\ Activate(r, <<>>, procs, pointer, d, mode, "route")
  /\ UNCHANGED <<selected, available, pointer, procs, adapterVars, events, up, live, disp,
                 history>>

\* Dispatcher::exit: the adapter of the desk's selected runtime ends the session.
Exit(d) ==
  /\ codex' = IF selected[d] = "codex"
       THEN [codex EXCEPT ![d] = [@ EXCEPT !.live = NoProc, !.ready = FALSE, !.awaiting = FALSE]]
       ELSE codex
  /\ procs' = Shutdown(d)
  /\ exits' = exits \o ShutdownExits(d)
  /\ term' = [term EXCEPT ![d] = NoProc]

\* Its wait for the row to close changes nothing, whichever way it ends.
SessionExit(d) ==
  /\ up /\ OpenRows(procs, d) # {} /\ Exit(d)
  /\ UNCHANGED <<selected, available, pointer, prompts, chan, restarts, events, up, live,
                 activating, act, disp, history>>

\* Validation, then the exit of a live session.
SessionSwitch(r, d) ==
  /\ up /\ Idle(r)
  /\ \E target \in Runtimes \ {selected[d]} :
       /\ available[target]
       /\ act' = [act EXCEPT ![r] =
            [Holding(<<>>) EXCEPT !.pc = "close", !.desk = d, !.runtime = target]]
  /\ IF OpenRows(procs, d) # {} THEN Exit(d) ELSE UNCHANGED <<codex, procs, exits, term>>
  /\ UNCHANGED <<selected, available, pointer, prompts, chan, restarts, events, up, live,
                 activating, disp, history>>

\* await_closed saw no open row, or gave up after five seconds.
SwitchClosed(r) ==
  /\ up /\ act[r].pc = "close"
  /\ \/ OpenRows(procs, act[r].desk) = {} /\ act' = [act EXCEPT ![r].pc = "switch"]
     \/ OpenRows(procs, act[r].desk) # {} /\ act' = [act EXCEPT ![r] = Holding(<<>>)]
  /\ UNCHANGED <<selected, available, pointer, prompts, procs, adapterVars, events, up, live,
                 activating, disp, history>>

\* UPDATE desks SET selected_runtime
SwitchRuntime(r) ==
  /\ up /\ act[r].pc = "switch"
  /\ selected' = [selected EXCEPT ![act[r].desk] = act[r].runtime]
  /\ act' = [act EXCEPT ![r] = Holding(<<>>)]
  /\ UNCHANGED <<available, pointer, prompts, procs, adapterVars, events, up, live,
                 activating, disp, history>>

\* POST /runtimes/{r}/retry: the failure and the adapter's count go, discovery runs.
RuntimeRetry(r) ==
  /\ up
  /\ restarts' = IF r = "codex" THEN 0 ELSE restarts
  /\ available' = [available EXCEPT ![r] = r \in Installed]
  /\ UNCHANGED <<selected, pointer, prompts, procs, term, codex, chan, events, exits, up, live,
                 activating, act, disp, history>>

-----------------------------------------------------------------------------
(* Producers, children, the control plane, and the daemon's death *)

\* A firing's evidence or an evaluation's result becomes a QUEUED prompt.
Enqueue(d) ==
  /\ up /\ Cardinality({p \in DOMAIN prompts : prompts[p].kind = "RESULT"}) < MaxResults
  /\ prompts' = Append(prompts, NewPrompt(d, "RESULT", Len(prompts) + 1))
  /\ UNCHANGED <<selected, available, pointer, procs, adapterVars, events, up, live,
                 activating, act, disp, history>>

\* A child ends by itself and its terminal reports it.
ChildExits(p) ==
  /\ up /\ procs[p].alive
  /\ procs' = [procs EXCEPT ![p].alive = FALSE]
  /\ exits' = Append(exits, [desk |-> procs[p].desk, proc |-> p])
  /\ UNCHANGED <<selected, available, pointer, prompts, term, codex, chan, restarts, events,
                 up, live, activating, act, disp, history>>

\* thread/started in a workspace that awaits one; the broadcast may be read after the
\* terminal whose thread it is has gone.
ThreadStarted(p) ==
  /\ up /\ procs[p].runtime = "codex" /\ procs[p].resume = NoSid /\ ~procs[p].reported
  /\ codex[procs[p].desk].awaiting
  /\ procs' = [procs EXCEPT ![p].reported = TRUE]
  /\ LET d == procs[p].desk IN
     /\ codex' = [codex EXCEPT ![d] = [@ EXCEPT !.thread = p, !.awaiting = FALSE, !.loaded = TRUE]]
     /\ events' = Append(events, [kind |-> "PointerDiscovered", desk |-> d, sid |-> p])
  /\ UNCHANGED <<selected, available, pointer, prompts, term, chan, restarts, exits, up,
                 live, activating, act, disp, history>>

\* The first idle status of the desk's thread since the last spawn or exit; the
\* app-server keeps a thread loaded after its terminal is gone.
ThreadIdle(d) ==
  /\ up /\ codex[d].thread # NoSid /\ ~codex[d].ready /\ Len(events) < MaxEvents
  /\ codex[d].loaded \/ \E p \in DOMAIN procs :
       procs[p].alive /\ procs[p].desk = d /\ procs[p].resume = codex[d].thread
  /\ codex' = [codex EXCEPT ![d] = [@ EXCEPT !.ready = TRUE, !.gate = TRUE, !.loaded = TRUE]]
  /\ events' = Append(events, [kind |-> "Ready", desk |-> d, sid |-> NoSid])
  /\ UNCHANGED <<selected, available, pointer, prompts, procs, term, chan, restarts, exits, up,
                 live, activating, act, disp, history>>

\* A Claude bridge connects: served when a row is open or a spawn is in flight.
ChannelConnects(p) ==
  /\ up /\ procs[p].alive /\ procs[p].runtime = "claude" /\ ~procs[p].reported
  /\ LET d == procs[p].desk IN
     /\ OpenRows(procs, d) # {} \/ activating[d] # NotActivating
     /\ chan' = [chan EXCEPT ![d] = p]
     /\ events' = Append(events, [kind |-> "Ready", desk |-> d, sid |-> NoSid])
  /\ procs' = [procs EXCEPT ![p].reported = TRUE]
  /\ UNCHANGED <<selected, available, pointer, prompts, term, codex, restarts, exits, up, live,
                 activating, act, disp, history>>

\* The connection goes, some time after its child or on its own.
ChannelCloses(d) ==
  /\ up /\ chan[d] # NoProc
  /\ chan' = [chan EXCEPT ![d] = NoProc]
  /\ UNCHANGED <<selected, available, pointer, prompts, procs, term, codex, restarts, events,
                 exits, up, live, activating, act, disp, history>>

\* Codex::lost: every desk the adapter holds live is ended, its terminal shut down
\* when it is still that child; a second loss, or a failed restart, is UNAVAILABLE.
Orders(S) == {s \in [1..Cardinality(S) -> S] : \A i, j \in DOMAIN s : s[i] = s[j] => i = j}

ControlPlaneLost ==
  /\ up /\ available["codex"] /\ losses < MaxLosses /\ losses' = losses + 1
  /\ LET desks == {d \in Desks : codex[d].live # NoProc}
         killed == {d \in desks : term[d] = codex[d].live}
     IN
     /\ \E order \in Orders(desks) :
          events' = events \o [i \in DOMAIN order |->
            [kind |-> "Exited", desk |-> order[i], sid |-> NoSid]]
     /\ \E order \in Orders({d \in killed : procs[term[d]].alive}) :
          exits' = exits \o [i \in DOMAIN order |->
            [desk |-> order[i], proc |-> term[order[i]]]]
     /\ procs' = [p \in DOMAIN procs |->
          [procs[p] EXCEPT !.alive = @ /\ \A d \in killed : p # term[d],
                           !.reported = @ \/ procs[p].runtime = "codex"]]
     /\ term' = [d \in Desks |-> IF d \in killed THEN NoProc ELSE term[d]]
  /\ codex' = [d \in Desks |-> [codex[d] EXCEPT !.live = NoProc, !.ready = FALSE,
                                                !.awaiting = FALSE, !.loaded = FALSE]]
  /\ \/ restarts = 0 /\ restarts' = 1 /\ UNCHANGED available
     \/ restarts' = restarts + 1 /\ available' = [available EXCEPT !["codex"] = FALSE]
  /\ UNCHANGED <<selected, pointer, prompts, chan, up, live, activating, act, disp, handed,
                 overlapped, crashes>>

\* The daemon's memory and its children go; Quit first closes the open rows.
Dies(rows) ==
  /\ up /\ crashes < MaxCrashes /\ crashes' = crashes + 1
  /\ up' = FALSE
  /\ procs' = [p \in DOMAIN procs |-> [rows[p] EXCEPT !.alive = FALSE, !.reported = TRUE]]
  /\ term' = [d \in Desks |-> NoProc]
  /\ codex' = [d \in Desks |-> NoThread]
  /\ chan' = [d \in Desks |-> NoProc]
  /\ restarts' = 0 /\ events' = <<>> /\ exits' = <<>>
  /\ live' = [d \in Desks |-> NoLive]
  /\ activating' = [d \in Desks |-> NotActivating]
  /\ act' = [a \in Actors |-> Holding(<<>>)]
  /\ disp' = At("pass", {})
  /\ overlapped' = {}
  /\ UNCHANGED <<selected, available, pointer, prompts, handed, losses>>

ClosedAll ==
  [p \in DOMAIN procs |->
    IF procs[p].row = "OPEN" THEN [procs[p] EXCEPT !.row = "ENDED"] ELSE procs[p]]

Crash == Dies(procs)
Quit  == Dies(ClosedAll)

\* session::recovery_step, before the new daemon serves anything.
Recover ==
  /\ ~up /\ up' = TRUE
  /\ procs' = ClosedAll
  /\ prompts' = [p \in DOMAIN prompts |->
       IF prompts[p].state = "QUEUED" /\ prompts[p].attempted
         THEN [prompts[p] EXCEPT !.state = "FAILED", !.failure = "HANDOFF_UNKNOWN"]
         ELSE prompts[p]]
  /\ UNCHANGED <<selected, available, pointer, adapterVars, events, live, activating, act,
                 disp, history>>

-----------------------------------------------------------------------------
Init ==
  /\ selected \in [Desks -> Runtimes]
  /\ available = [r \in Runtimes |-> r \in Installed]
  /\ pointer = [d \in Desks |-> [r \in Runtimes |-> NoSid]]
  /\ prompts = <<>> /\ procs = <<>>
  /\ term = [d \in Desks |-> NoProc]
  /\ codex = [d \in Desks |-> NoThread]
  /\ chan = [d \in Desks |-> NoProc]
  /\ restarts = 0 /\ events = <<>> /\ exits = <<>>
  /\ up = TRUE
  /\ live = [d \in Desks |-> NoLive]
  /\ activating = [d \in Desks |-> NotActivating]
  /\ act = [a \in Actors |-> Holding(<<>>)]
  /\ disp = At("pass", {})
  /\ handed = <<>> /\ overlapped = {} /\ losses = 0 /\ crashes = 0

Spawn(a)     == EndPrevious(a) \/ StartChild(a) \/ InsertTerminal(a)
ActorStep(a) == Spawn(a) \/ SpawnFails(a) \/ OpenRefused(a) \/ OpenProcess(a) \/ Install(a)
                \/ Drain(a)
Settle       == Delivers \/ DeliveryRefused \/ HandoffUnknown \/ ChannelUnavailable
Delivery     == MarkAttempted \/ Settle \/ Waiting \/ Resolve
Loop         == Pass \/ (\E d \in Desks : Visit(d)) \/ CheckDeadlines
                \/ (\E d \in Desks : Expire(d)) \/ Wake \/ RecvEvent \/ RecvExit
RouteStep(r) == (\E d \in Desks : \/ \E mode \in {"CONTINUE", "NEW"} : SessionActivate(r, d, mode)
                                  \/ SessionSwitch(r, d))
                \/ SwitchClosed(r) \/ SwitchRuntime(r)
Environment  == \/ \E d \in Desks : Enqueue(d) \/ SessionExit(d) \/ ThreadIdle(d) \/ ChannelCloses(d)
                \/ \E p \in DOMAIN procs : ChildExits(p) \/ ThreadStarted(p) \/ ChannelConnects(p)
                \/ \E r \in Runtimes : RuntimeRetry(r)
                \/ ControlPlaneLost

Next == \/ \E a \in Actors : ActorStep(a)
        \/ Delivery \/ Loop
        \/ \E r \in Routes : RouteStep(r)
        \/ Environment \/ Crash \/ Quit \/ Recover

Spec == Init /\ [][Next]_vars

\* Of Codex it is assumed that a gate does not stay closed for ever: the thread of a
\* session recorded ready starts and reports itself idle (no deadline runs for it).
GateOpens(d) ==
  /\ \E p \in OpenRows(procs, d) : procs[p].ready
  /\ ThreadIdle(d) \/ \E p \in DOMAIN procs : procs[p].desk = d /\ ThreadStarted(p)

\* The dispatcher's task and the routes keep running (their awaits are bounded: the spawn,
\* the 15-second call and the 30-second channel wait); tokio::select! draws its ready
\* branch at random; an activation that stays unready passes its deadline; a call that is
\* made again and again is answered once; a dead daemon is started again.
DispatcherTask == ActorStep(Dispatcher) \/ Pass \/ (\E d \in Desks : Visit(d) \/ Expire(d))
                  \/ Delivery \/ CheckDeadlines \/ Wake
Fairness ==
  /\ WF_vars(DispatcherTask) /\ \A r \in Routes : WF_vars(ActorStep(r))
  /\ \A d \in Desks : SF_vars(CheckDeadlines /\ d \in disp'.todo)
  /\ SF_vars(RecvEvent) /\ SF_vars(RecvExit)
  /\ \A d \in Desks : WF_vars(GateOpens(d)) /\ SF_vars(Settle /\ prompts[disp.prompt].desk = d)
  /\ WF_vars(Recover)

LiveSpec == Spec /\ Fairness

-----------------------------------------------------------------------------
(* Types *)

PromptRow == [desk : Desks, kind : {"RESULT", "ORIENTATION", "DISCLOSURE"},
              state : {"QUEUED", "DELIVERED", "FAILED"}, created : Int, attempted : BOOLEAN,
              failure : {"none", "ACTIVATION_FAILED", "RUNTIME_UNAVAILABLE", "DELIVERY_REFUSED",
                         "HANDOFF_UNKNOWN", "CHANNEL_UNAVAILABLE"},
              disclosed : Nat]
Child == [desk : Desks, runtime : Runtimes, resume : Nat, alive : BOOLEAN, reported : BOOLEAN,
          row : {"NONE", "OPEN", "ENDED", "CONTROL_PLANE_LOST"},
          ready : BOOLEAN, native : Nat]
AdapterEvent == [kind : {"Ready", "PointerDiscovered", "Exited"}, desk : Desks, sid : Nat]
TerminalExit == [desk : Desks, proc : Nat]
Thread == [live : Nat, thread : Nat, awaiting : BOOLEAN, ready : BOOLEAN,
           gate : BOOLEAN, loaded : BOOLEAN]
LiveEntry == [proc : Nat, runtime : Runtimes, resume : Nat, explicit : BOOLEAN, ready : BOOLEAN]
Call == [pc : {"drain", "spawn", "start", "insert", "open", "install", "close", "switch"},
         desk : Desks \cup {"none"}, caller : {"none", "route", "queue", "retry"},
         runtime : Runtimes \cup {"none"}, resume : Nat, explicit : BOOLEAN, proc : Nat,
         inbox : Seq(AdapterEvent)]
LoopState == [pc : {"pass", "queue", "attempt", "call", "resolve", "deadlines"},
              todo : SUBSET Desks, prompt : Nat, proc : Nat, named : SUBSET Nat,
              outcome : {"none", "DELIVERED", "DELIVERY_REFUSED", "HANDOFF_UNKNOWN",
                         "CHANNEL_UNAVAILABLE"}]

DesksOK ==
  /\ selected \in [Desks -> Runtimes]
  /\ available \in [Runtimes -> BOOLEAN]
  /\ pointer \in [Desks -> [Runtimes -> Nat]]

RowsOK == prompts \in Seq(PromptRow) /\ procs \in Seq(Child)

AdaptersOK ==
  /\ term \in [Desks -> Nat]
  /\ codex \in [Desks -> Thread]
  /\ chan \in [Desks -> Nat]
  /\ restarts \in Nat
  /\ events \in Seq(AdapterEvent)
  /\ exits \in Seq(TerminalExit)

MemoryOK ==
  /\ up \in BOOLEAN
  /\ live \in [Desks -> LiveEntry]
  /\ activating \in [Desks -> Seq(AdapterEvent) \cup {NotActivating}]
  /\ act \in [Actors -> Call]
  /\ disp \in LoopState

HistoryOK ==
  /\ handed \in Seq([prompt : Nat, proc : Nat, to : Nat])
  /\ overlapped \subseteq Desks
  /\ losses \in Nat /\ crashes \in Nat

\* Every variable holds a value of its kind.
TypeOK == DesksOK /\ RowsOK /\ AdaptersOK /\ MemoryOK /\ HistoryOK

-----------------------------------------------------------------------------
(* Properties *)

Handed == {handed[i].prompt : i \in DOMAIN handed}

\* What PromptDelivery sees of the state: the attempt mark, the disclosure and the
\* prompt's kind are how the daemon keeps its promise, not part of it.
RowsSeen == [p \in DOMAIN prompts |->
  [desk |-> prompts[p].desk, created |-> prompts[p].created,
   state |-> prompts[p].state, failure |-> prompts[p].failure]]
Promise == INSTANCE PromptDelivery WITH rows <- RowsSeen, given <- Handed

\* The daemon keeps the abstract promise: prompts reach a runtime oldest first, and
\* each is settled once with an outcome that agrees with the handover.
DeliveryPromise == Promise!Spec

\* No prompt is handed to a runtime twice, whatever is refused, lost or restarted
\* between the handover and the unit that records its outcome.
AtMostOnce == \A i, j \in DOMAIN handed : handed[i].prompt = handed[j].prompt => i = j

\* A prompt recorded DELIVERED was received, and one recorded FAILED with any code but
\* HANDOFF_UNKNOWN was not: the code tells the user whether the agent may have acted.
OutcomeTruthful == \A p \in DOMAIN prompts :
  /\ prompts[p].state = "DELIVERED" => p \in Handed
  /\ prompts[p].state = "FAILED" /\ prompts[p].failure # "HANDOFF_UNKNOWN" => p \notin Handed

\* Only failed prompts are disclosed to a later session, and each only once, although
\* a disclosure can itself fail, wait across a crash, or meet another in the queue.
DisclosedOnce == \A p \in DOMAIN prompts :
  prompts[p].disclosed <= 1 /\ (prompts[p].disclosed = 1 => prompts[p].state = "FAILED")

\* Evidence that will still close the row of child p: its terminal's exit is waiting,
\* its activation's deadline is running, or the call that started it has not returned.
ClosePending(p) ==
  \/ \E i \in DOMAIN exits : exits[i].proc = p
  \/ live[procs[p].desk].proc = p /\ ~live[procs[p].desk].ready
  \/ \E a \in Actors : act[a].proc = p

\* An open session row whose child is gone is on its way to being closed; otherwise the
\* desk would wait for ever for a session that no longer exists.
NoOrphanRow == up => \A p \in DOMAIN procs :
  procs[p].row = "OPEN" /\ ~procs[p].alive => ClosePending(p)

\* At most one agent runs in a desk's workspace, however often a session is given up at
\* its deadline with its child still running, refused its row because a route and the
\* dispatcher both started one, or ended by its user, unless two of the desk's terminal
\* spawns overlapped: the second then finds nothing to end and inserts over the first.
\* A child counts as gone once its terminal was taken out of the map to be ended.
OneAgent == \A p, q \in DOMAIN procs :
  /\ procs[p].alive /\ procs[q].alive /\ procs[p].desk = procs[q].desk
  /\ procs[p].desk \notin overlapped
  => p = q

\* At most one terminal of a desk is live, as the manager's comment has it.  Not so when
\* two spawns of the desk overlap.
OneLiveTerminal == \A p, q \in DOMAIN procs :
  procs[p].alive /\ procs[q].alive /\ procs[p].desk = procs[q].desk => p = q

\* A Claude session is recorded ready only once its own bridge has connected.
ReadyEarned == \A p \in DOMAIN procs :
  procs[p].ready /\ procs[p].runtime = "claude" => procs[p].reported

\* A session row that ended CONTROL_PLANE_LOST has no running terminal.
LossEndsTerminals == \A p \in DOMAIN procs :
  procs[p].row = "CONTROL_PLANE_LOST" => ~procs[p].alive

\* When a desk's selected runtime changes no session of the desk is open.
SwitchLeavesNoSession == [][\A d \in Desks :
  selected'[d] # selected[d] => OpenRows(procs, d) = {}]_vars

\* Every queued prompt is settled in the end: sessions that never get ready are given
\* up at their deadline, and what a lost session leaves queued starts another.
Resolved == \A p \in 1..(MaxResults + 2 * MaxProcs) :
  (p \in DOMAIN prompts /\ prompts[p].state = "QUEUED")
    ~> (p \in DOMAIN prompts /\ prompts[p].state # "QUEUED")
=============================================================================
