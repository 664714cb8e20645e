------------------------------- MODULE DeskLife -------------------------------
(***************************************************************************)
(* A desk from its creation to its deletion: the row, the workspace, and   *)
(* what acts for it meanwhile (a child in the terminal, a trading node).   *)
(*                                                                         *)
(* Desks are numbered in the order of their creation.                      *)
(***************************************************************************)
EXTENDS Naturals, Sequences, FiniteSets, SequencesExt

CONSTANTS
  Names,       \* desk names
  Callers,     \* requests in progress at once
  MaxDesks,    \* bound: desks created
  MaxFaults,   \* bound: steps on the file system that fail
  MaxEdits,    \* bound: changes by agents
  MaxCrashes   \* bound: deaths of the daemon

Boot == "boot"   \* startup's own completions

ASSUME DeskAssumption ==
  MaxDesks \in Nat \ {0} /\ {MaxFaults, MaxEdits, MaxCrashes} \subseteq Nat /\ Boot \notin Callers

VARIABLES
  desk,     \* per desk: its row
  files,    \* per name: what is in its workspace
  row,      \* desks with an open agent_processes row
  child,    \* desks with a running child in their terminal
  node,     \* desks with a running trading node
  call,     \* per actor: the handler in progress
  up,       \* the listener accepts
  faults, edits, crashes

acting == <<row, child, node>>
bounds == <<faults, edits, crashes>>
vars == <<desk, files, acting, call, up, bounds>>

Desks  == 1 .. MaxDesks
Actors == Callers \cup {Boot}

\* the steps of bootstrap, in their order
Parts == <<"dir", "agents", "shim", "plugins", "skills", "link">>
Empty == [p \in Range(Parts) |-> "absent"]
\* the daemon sees nothing either way; an agent's removal is its own affair
Nothing == {"absent", "removed"}
Whole(w) == \A p \in Range(Parts) : w[p] # "absent"

Idle  == [pc |-> "idle", desk |-> 0, step |-> 0, saw |-> "absent"]
NoRow == [state |-> "NONE", name |-> "none"]
Named(d)  == desk[d].name
Exists(d) == desk[d].state \in {"CREATING", "READY", "FAILED"}

Init ==
  /\ desk = [d \in Desks |-> NoRow] /\ files = [n \in Names |-> Empty]
  /\ row = {} /\ child = {} /\ node = {}
  /\ call = [c \in Actors |-> Idle] /\ up = TRUE
  /\ faults = 0 /\ edits = 0 /\ crashes = 0

At(c, pc)    == call[c].pc = pc
Goes(c, pc)  == call' = [call EXCEPT ![c].pc = pc]
Begins(c, d) == call' = [call EXCEPT ![c] = [Idle EXCEPT !.pc = "bootstrap", !.desk = d, !.step = 1]]
\* A request is answered; startup goes on to the next desk.
Ends(c)      == call' = [call EXCEPT ![c] = IF c = Boot THEN [Idle EXCEPT !.pc = "boot"] ELSE Idle]
Breaks       == faults < MaxFaults /\ faults' = faults + 1 /\ UNCHANGED <<edits, crashes>>

-------------------------------------------------------------------------------
(* create, retry, startup completion: the row, then bootstrap, then finish. *)

Create(c, d, n) ==
  /\ up /\ call[c] = Idle
  /\ desk[d] = NoRow /\ (d > 1 => desk[d - 1] # NoRow)
  /\ \A e \in Desks : Exists(e) => Named(e) # n
  /\ desk' = [desk EXCEPT ![d] = [state |-> "CREATING", name |-> n]]
  /\ Begins(c, d)
  /\ UNCHANGED <<files, acting, up, bounds>>

RetryLoads(c, d) ==
  /\ up /\ call[c] = Idle /\ desk[d].state = "FAILED"
  /\ call' = [call EXCEPT ![c] = [Idle EXCEPT !.pc = "retry", !.desk = d]]
  /\ UNCHANGED <<desk, files, acting, up, bounds>>

\* The unit does not look at the state again. A READY row keeps its ready_at_ns, which
\* the table's CHECK refuses; a row that is gone fails the event's foreign key.
RetryUnit(c) ==
  LET d == call[c].desk IN
  /\ At(c, "retry")
  /\ \/ /\ desk[d].state \in {"CREATING", "FAILED"}
        /\ desk' = [desk EXCEPT ![d].state = "CREATING"]
        /\ Begins(c, d)
     \/ /\ desk[d].state \notin {"CREATING", "FAILED"}
        /\ Ends(c) /\ UNCHANGED desk
  /\ UNCHANGED <<files, acting, up, bounds>>

Built(w, part) == [w EXCEPT ![part] = "ours", !["dir"] = "ours"]

\* A file needs its directory; plugins and skills make theirs.
Possible(w, part) == part \in {"dir", "plugins", "skills"} \/ w["dir"] # "absent"

Bootstrap(c) ==
  LET n == Named(call[c].desk)
      part == Parts[call[c].step] IN
  /\ At(c, "bootstrap") /\ part \notin {"agents", "link"} /\ Possible(files[n], part)
  /\ files' = [files EXCEPT ![n] = Built(@, part)]
  /\ call' = [call EXCEPT ![c].step = @ + 1]
  /\ UNCHANGED <<desk, acting, up, bounds>>

Looks(c, seeding) ==
  /\ At(c, "bootstrap") /\ Parts[call[c].step] = "agents"
  /\ call' = IF seeding
             THEN [call EXCEPT ![c].pc = "seed", ![c].saw = files[Named(call[c].desk)]["agents"]]
             ELSE [call EXCEPT ![c].step = @ + 1]
  /\ UNCHANGED <<desk, files, acting, up, bounds>>

\* (mutant) AGENTS.md is written whenever it differs from the seed
LooksForTheSeed(c) == Looks(c, files[Named(call[c].desk)]["agents"] # "ours")

\* AGENTS.md is seeded when there was none at the look, whatever is there at the write.
LooksAtAgents(c) == Looks(c, files[Named(call[c].desk)]["agents"] = "absent")

Seeds(c) ==
  LET n == Named(call[c].desk) IN
  /\ At(c, "seed") /\ Possible(files[n], "agents")
  /\ files' = [files EXCEPT ![n] = Built(@, "agents")]
  /\ call' = [call EXCEPT ![c].pc = "bootstrap", ![c].step = @ + 1]
  /\ UNCHANGED <<desk, acting, up, bounds>>

\* reconcile_link looks first, and leaves a plain thing alone.
LooksAtLink(c) ==
  LET w == files[Named(call[c].desk)] IN
  /\ At(c, "bootstrap") /\ Parts[call[c].step] = "link"
  /\ \/ w["link"] \in {"ours", "plain"} /\ Goes(c, "ready")
     \/ /\ w["link"] \in Nothing \cup {"theirs"}
        /\ call' = [call EXCEPT ![c].pc = "link", ![c].saw = w["link"]]
  /\ UNCHANGED <<desk, files, acting, up, bounds>>

\* A link is made where nothing is, after the one that was seen is removed.
Linkable(c) ==
  LET link == files[Named(call[c].desk)]["link"] IN
  link = call[c].saw \/ {link, call[c].saw} \subseteq Nothing

Links(c) ==
  LET n == Named(call[c].desk) IN
  /\ At(c, "link")
  /\ \/ /\ Linkable(c)
        /\ files' = [files EXCEPT ![n] = [@ EXCEPT !["link"] = "ours", !["skills"] = "ours", !["dir"] = "ours"]]
        /\ Goes(c, "ready")
     \/ /\ ~Linkable(c) /\ Goes(c, "failed") /\ UNCHANGED files
  /\ UNCHANGED <<desk, acting, up, bounds>>

\* An error of the file system, or a directory that is gone.
BootstrapFails(c) ==
  /\ At(c, "bootstrap") \/ At(c, "seed") \/ At(c, "link")
  /\ \/ Breaks
     \/ /\ ~At(c, "link") /\ ~Possible(files[Named(call[c].desk)], Parts[call[c].step])
        /\ UNCHANGED bounds
  /\ Goes(c, "failed")
  /\ UNCHANGED <<desk, files, acting, up>>

\* A FAILED row keeps its failure_code, which the CHECK refuses.
MarksReady(c) ==
  /\ desk' = IF desk[call[c].desk].state \in {"CREATING", "READY"}
             THEN [desk EXCEPT ![call[c].desk].state = "READY"] ELSE desk
  /\ Ends(c)
  /\ UNCHANGED <<files, acting, up, bounds>>

\* (mutant) the row is READY whatever bootstrap said
FinishReadyAnyway(c) == (At(c, "ready") \/ At(c, "failed")) /\ MarksReady(c)

FinishReady(c) == At(c, "ready") /\ MarksReady(c)

FinishFailed(c) ==
  /\ At(c, "failed")
  /\ desk' = IF Exists(call[c].desk) THEN [desk EXCEPT ![call[c].desk].state = "FAILED"] ELSE desk
  /\ Ends(c)
  /\ UNCHANGED <<files, acting, up, bounds>>

-------------------------------------------------------------------------------
(* What acts for a desk. *)

\* activate looks at the desk and its row, spawns, and opens the row.
ActivateLoads(c, d) ==
  /\ up /\ call[c] = Idle /\ Exists(d) /\ d \notin row
  /\ call' = [call EXCEPT ![c] = [Idle EXCEPT !.pc = "spawn", !.desk = d]]
  /\ UNCHANGED <<desk, files, acting, up, bounds>>

Spawn(c) ==
  /\ At(c, "spawn")
  /\ \/ child' = child \cup {call[c].desk} /\ Goes(c, "open")
     \/ Ends(c) /\ UNCHANGED child
  /\ UNCHANGED <<desk, files, row, node, up, bounds>>

\* One open row per desk, of a desk that exists.
OpenProcess(c) ==
  LET d == call[c].desk IN
  /\ At(c, "open")
  /\ row' = IF Exists(d) THEN row \cup {d} ELSE row
  /\ Ends(c)
  /\ UNCHANGED <<desk, files, child, node, up, bounds>>

\* The dispatcher closes the row of a child that ended.
ChildEnds(d) ==
  /\ d \in child
  /\ child' = child \ {d}
  /\ UNCHANGED <<desk, files, row, node, call, up, bounds>>

RowCloses(d) ==
  /\ up /\ d \in row \ child
  /\ row' = row \ {d}
  /\ UNCHANGED <<desk, files, child, node, call, up, bounds>>

\* A market route asks for a READY desk, then for the desk's node.
MarketLoads(c, d) ==
  /\ up /\ call[c] = Idle /\ desk[d].state = "READY"
  /\ call' = [call EXCEPT ![c] = [Idle EXCEPT !.pc = "ensure", !.desk = d]]
  /\ UNCHANGED <<desk, files, acting, up, bounds>>

Ensure(c) ==
  /\ At(c, "ensure")
  /\ node' \in {node, node \cup {call[c].desk}}
  /\ Ends(c)
  /\ UNCHANGED <<desk, files, row, child, up, bounds>>

\* The agent owns the workspace of a READY desk.
AgentEdits(d) ==
  LET n == Named(d) IN
  /\ d \in child /\ desk[d].state = "READY" /\ files[n]["dir"] # "absent"
  /\ edits < MaxEdits /\ edits' = edits + 1
  /\ \E e \in {<<"agents", "theirs">>, <<"shim", "theirs">>, <<"link", "theirs">>,
               <<"link", "plain">>, <<"link", "removed">>} :
       files' = [files EXCEPT ![n][e[1]] = e[2]]
  /\ UNCHANGED <<desk, acting, call, up, faults, crashes>>

-------------------------------------------------------------------------------
(* delete_desk. *)

DeleteLoads(c, d) ==
  /\ up /\ call[c] = Idle /\ Exists(d)
  /\ call' = [call EXCEPT ![c] = [Idle EXCEPT !.pc = IF d \in row THEN "exit" ELSE "shutdown", !.desk = d]]
  /\ UNCHANGED <<desk, files, acting, up, bounds>>

\* The session closes, outlasts the five seconds, or the client hangs up meanwhile.
DeleteExits(c) ==
  LET d == call[c].desk IN
  /\ At(c, "exit")
  /\ \/ child' = child \ {d} /\ row' = row \ {d} /\ Goes(c, "shutdown")
     \/ Goes(c, "shutdown") /\ UNCHANGED <<row, child>>
     \/ Ends(c) /\ UNCHANGED <<row, child>>
  /\ UNCHANGED <<desk, files, node, up, bounds>>

DeleteShutdown(c) ==
  /\ At(c, "shutdown")
  /\ child' = child \ {call[c].desk} /\ Goes(c, "stop")
  /\ UNCHANGED <<desk, files, row, node, up, bounds>>

DeleteStops(c) ==
  /\ At(c, "stop")
  /\ node' = node \ {call[c].desk} /\ Goes(c, "prune")
  /\ UNCHANGED <<desk, files, row, child, up, bounds>>

\* The desk and every row keyed by it, in one unit; gone already, it is NOT_FOUND.
Prune(c) ==
  LET d == call[c].desk IN
  /\ At(c, "prune")
  /\ \/ /\ Exists(d)
        /\ desk' = [desk EXCEPT ![d].state = "GONE"] /\ row' = row \ {d}
        /\ Goes(c, "remove")
     \/ /\ ~Exists(d)
        /\ Ends(c) /\ UNCHANGED <<desk, row>>
  /\ UNCHANGED <<files, child, node, up, bounds>>

\* remove_dir_all of the desk's path, as far as it gets
Removes(c) ==
  /\ At(c, "remove")
  /\ \/ files' = [files EXCEPT ![Named(call[c].desk)] = Empty] /\ UNCHANGED bounds
     \/ Breaks /\ UNCHANGED files
  /\ Ends(c)
  /\ UNCHANGED <<desk, acting, up>>

-------------------------------------------------------------------------------
(* Death and startup. *)

Crash ==
  /\ crashes < MaxCrashes /\ crashes' = crashes + 1
  /\ up' = FALSE /\ child' = {} /\ node' = {}
  /\ call' = [c \in Actors |-> IF c = Boot THEN [Idle EXCEPT !.pc = "boot"] ELSE Idle]
  /\ UNCHANGED <<desk, files, row, faults, edits>>

\* (mutant) startup leaves a desk that an earlier run began
InterruptedForgotten(d) == FALSE

Interrupted(d) == desk[d].state = "CREATING"

\* recover has closed the rows; each interrupted desk is finished, the oldest first.
BootNext ==
  /\ At(Boot, "boot")
  /\ \E d \in Desks :
       /\ Interrupted(d) /\ \A e \in 1 .. d - 1 : ~Interrupted(e)
       /\ Begins(Boot, d)
  /\ row' = {}
  /\ UNCHANGED <<desk, files, child, node, up, bounds>>

\* the shim, the plugins and the link; nothing in a workspace that is gone
Reconciles(w) ==
  IF w["dir"] = "absent" THEN w
  ELSE [w EXCEPT !["shim"] = "ours", !["plugins"] = "ours",
                 !["link"] = IF @ \in Nothing \cup {"theirs"} THEN "ours" ELSE @]

\* validate_ready; a workspace that will not reconcile is left alone
Serve ==
  /\ At(Boot, "boot") /\ ~\E d \in Desks : Interrupted(d)
  /\ \/ /\ files' = [n \in Names |->
             IF \E d \in Desks : desk[d] = [state |-> "READY", name |-> n] THEN Reconciles(files[n]) ELSE files[n]]
        /\ UNCHANGED bounds
     \/ Breaks /\ UNCHANGED files
  /\ row' = {} /\ up' = TRUE
  /\ call' = [call EXCEPT ![Boot] = Idle]
  /\ UNCHANGED <<desk, child, node>>

Finishes(c) ==
  RetryUnit(c) \/ Bootstrap(c) \/ LooksAtAgents(c) \/ Seeds(c) \/ LooksAtLink(c) \/ Links(c)
    \/ BootstrapFails(c) \/ FinishReady(c) \/ FinishFailed(c)
Deletes(c) ==
  DeleteExits(c) \/ DeleteShutdown(c) \/ DeleteStops(c) \/ Prune(c) \/ Removes(c)

Next ==
  \/ \E c \in Callers, d \in Desks :
       \/ \E n \in Names : Create(c, d, n)
       \/ RetryLoads(c, d) \/ ActivateLoads(c, d) \/ MarketLoads(c, d) \/ DeleteLoads(c, d)
  \/ \E c \in Actors : Finishes(c)
  \/ \E c \in Callers : Spawn(c) \/ OpenProcess(c) \/ Ensure(c) \/ Deletes(c)
  \/ \E d \in Desks : ChildEnds(d) \/ RowCloses(d) \/ AgentEdits(d)
  \/ Crash \/ BootNext \/ Serve

\* A handler that was started runs to its end, and a daemon that died is started again.
Fairness ==
  /\ \A c \in Actors : WF_vars(Finishes(c))
  /\ WF_vars(BootNext \/ Serve)

Spec == Init /\ [][Next]_vars
FairSpec == Spec /\ Fairness

-------------------------------------------------------------------------------
(* Properties. *)

TypeOK ==
  /\ \A d \in Desks : desk[d] = NoRow \/
       (desk[d].state \in {"CREATING", "READY", "FAILED", "GONE"} /\ Named(d) \in Names)
  /\ \A d, e \in Desks : d # e /\ Exists(d) /\ Exists(e) => Named(d) # Named(e)
  /\ \A n \in Names : files[n]["dir"] = "absent" => files[n] = Empty
  /\ row \subseteq {d \in Desks : Exists(d)} /\ child \cup node \subseteq Desks
  /\ \A c \in Actors : call[c].desk \in 0 .. MaxDesks /\ call[c].step \in 0 .. Len(Parts)
  /\ up => call[Boot] = Idle

\* root SPEC 5.2: a desk becomes READY with its whole workspace in place, less what its
\* agent removed, whatever was interrupted, failed or retried at the same time.
ReadyComplete ==
  [][\A d \in Desks :
       desk'[d].state = "READY" /\ desk[d].state # "READY" => Whole(files[Named(d)])]_vars

\* desk.rs:209, root SPEC 5.1: the constitution an agent wrote stays through retries,
\* completions and startups. It can be lost to a completion still under way that found
\* the file missing before the agent wrote it, and to the end of the deletion of an
\* earlier desk of that name.
AgentsKept ==
  [][\A d \in Desks : Exists(d) /\ files[Named(d)]["agents"] = "theirs" =>
       \/ files'[Named(d)]["agents"] = "theirs"
       \/ \E c \in Actors :
            /\ call'[c] # call[c] /\ Named(call[c].desk) = Named(d)
            /\ \/ At(c, "seed") /\ call[c].saw = "absent"
               \/ At(c, "remove") /\ call[c].desk # d]_vars

\* desk.rs:209: "each only when absent, so ... a retry rewrites nothing".
RetryRewritesNothing ==
  [][\A c \in Actors, n \in Names :
       Finishes(c) /\ files[n]["agents"] = "theirs" => files'[n]["agents"] = "theirs"]_vars

\* root SPEC 5.2: a creation that was begun is READY or FAILED in the end, also when
\* the daemon dies in it.
CreationEnds == \A d \in Desks : desk[d].state = "CREATING" ~> desk[d].state # "CREATING"

\* root SPEC 5.2: "the durable desk stays READY".
DurableReady ==
  [][\A d \in Desks : desk[d].state = "READY" => desk'[d].state \in {"READY", "GONE"}]_vars

\* api.rs:682: "The desk stops acting before the row goes: the session, then its
\* terminal, then its trading node." Nothing acts for a desk that is gone, once the
\* calls that were in progress have ended.
StopsActing ==
  (\A c \in Actors : call[c] = Idle) => \A d \in child \cup node : Exists(d)

\* The workspace of a READY desk is there: no step of the daemon's takes it away.
WorkspaceStays == \A d \in Desks : desk[d].state = "READY" => files[Named(d)]["dir"] # "absent"
===============================================================================
