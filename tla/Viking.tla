------------------------------- MODULE Viking -------------------------------
(***************************************************************************)
(* The OpenViking supervisor (openviking.rs): the installation's row, the   *)
(* one child with its generation, the tasks that watch it, and the routes   *)
(* that provision, retry and stop.  A desk's key is memory of the live      *)
(* child; a turn's end asks for its skills to be projected.                 *)
(*                                                                         *)
(* The row is one unit at a time; everything about the live child is behind *)
(* one lock, so a step below is what one of the two holds.                  *)
(***************************************************************************)
EXTENDS Naturals, Sequences, FiniteSets

CONSTANTS Routes,      \* requests being served
          Desks,       \* READY desks
          MaxCalls,    \* bound: requests of a run
          MaxDeaths,   \* bound: ends of the daemon
          MaxTurns     \* bound: turns that end, of all desks

ASSUME VikingConstants ==
  "main" \notin Routes /\ {MaxCalls, MaxDeaths, MaxTurns} \subseteq Nat

VARIABLES
  row,       \* openviking_setup.state
  children,  \* runtime/children.json: the pids it names
  procs,     \* every child process ever spawned, by pid: [life, alive]
  live,      \* Live: [state, generation, child, keys]
  caller,    \* who is in setup, retry, provision, start or stop_child, and where
  watching,  \* generations with a supervise task
  awaiting,  \* await_ready tasks: [gen, pc]
  losing,    \* lose calls past the lock: [gen, pid, pc]
  refresh,   \* the coalescing map and the projection in flight, per desk
  skills,    \* per desk: [written, projected, failed], the versions of its skills
  up, life,  \* the daemon and the count of its lives
  calls, turns, history

vars == <<row, children, procs, live, caller, watching, awaiting, losing, refresh, skills,
          up, life, calls, turns, history>>
childVars == <<procs, live, children>>
taskVars  == <<watching, awaiting, losing>>
skillVars == <<refresh, skills, turns>>
daemon    == <<up, life, calls>>

NoPid == 0
\* What the properties remember of a life: attempts that were stopped and that were reported
\* lost, and the desks with a turn that ended.
NoHistory == [stopped |-> {}, lost |-> {}, turned |-> {}]
Actors == Routes \cup {"main"}
Idle == [pc |-> "idle", op |-> "none", pid |-> NoPid, gen |-> 0]
NotStarted(gen) == [state |-> "NOT_STARTED", generation |-> gen, child |-> NoPid, keys |-> {}]
Live(state) == live.state = state
StartingOrReady == live.state \in {"STARTING", "READY"}

At(a, pc) == up /\ caller[a].pc = pc
Goto(a, pc) == caller' = [caller EXCEPT ![a].pc = pc]
Done(a) == caller' = [caller EXCEPT ![a] = Idle]
Kill(pid) == [procs EXCEPT ![pid].alive = FALSE]

(***************************************************************************)
(* start                                                                   *)
(***************************************************************************)
\* The rows decide: nothing to start, or an executable to spawn.  A provider that
\* is not complete, or a file that cannot be written, is no start either.
Plan(a) ==
  /\ At(a, "plan")
  /\ \/ ~StartingOrReady /\ row \in {"AVAILABLE", "UNAVAILABLE"} /\ Goto(a, "claim")
     \/ Done(a)
  /\ UNCHANGED <<row, childVars, taskVars, skillVars, daemon, history>>

\* The live state is claimed under the lock, by one start.
Claim(a) ==
  /\ At(a, "claim")
  /\ IF StartingOrReady
       THEN Done(a) /\ UNCHANGED live
       ELSE LET gen == live.generation + 1 IN
            /\ live' = [live EXCEPT !.state = "STARTING", !.generation = gen]
            /\ caller' = [caller EXCEPT ![a] = [@ EXCEPT !.pc = "spawn", !.gen = gen]]
  /\ UNCHANGED <<row, children, procs, taskVars, skillVars, daemon, history>>

SpawnFails(a) ==
  /\ At(a, "spawn") /\ Done(a)
  /\ live' = IF live.generation = caller[a].gen THEN NotStarted(live.generation) ELSE live
  /\ UNCHANGED <<row, children, procs, taskVars, skillVars, daemon, history>>

\* mutant: the child is recorded whatever happened to its generation
Spawn_Unchecked(a) ==
  /\ At(a, "spawn")
  /\ LET pid == Len(procs) + 1 IN
     /\ procs' = Append(procs, [life |-> life, alive |-> TRUE])
     /\ live' = [live EXCEPT !.child = pid]
     /\ caller' = [caller EXCEPT ![a] = [@ EXCEPT !.pid = pid, !.pc = "record"]]
  /\ UNCHANGED <<row, children, taskVars, skillVars, daemon, history>>
\* The child exists; a stop that landed meanwhile makes it an orphan to end.
Spawn(a) ==
  /\ At(a, "spawn")
  /\ LET pid  == Len(procs) + 1
         mine == live.generation = caller[a].gen
     IN
     /\ procs' = Append(procs, [life |-> life, alive |-> TRUE])
     /\ live' = IF mine THEN [live EXCEPT !.child = pid] ELSE live
     /\ caller' = [caller EXCEPT ![a] =
                    [@ EXCEPT !.pid = pid, !.pc = IF mine THEN "record" ELSE "orphan"]]
  /\ UNCHANGED <<row, children, taskVars, skillVars, daemon, history>>

EndOrphan(a) ==
  /\ At(a, "orphan") /\ Done(a) /\ procs' = Kill(caller[a].pid)
  /\ UNCHANGED <<row, children, live, taskVars, skillVars, daemon, history>>

Watch(a) == /\ watching' = watching \cup {caller[a].gen}
            /\ awaiting' = awaiting \cup {[gen |-> caller[a].gen, pc |-> "poll"]}
\* mutant: the watchers start, and the record is never written
Record_Skipped(a) ==
  /\ At(a, "record") /\ Done(a) /\ Watch(a)
  /\ UNCHANGED <<row, children, procs, live, losing, skillVars, daemon, history>>
\* record_child, then the supervisor and the readiness poll.
Record(a) ==
  /\ At(a, "record") /\ Done(a) /\ Watch(a)
  /\ children' = children \cup {caller[a].pid}
  /\ UNCHANGED <<row, procs, live, losing, skillVars, daemon, history>>

StartStep(a) == \/ Plan(a) \/ Claim(a) \/ SpawnFails(a) \/ Spawn(a) \/ EndOrphan(a) \/ Record(a)

(***************************************************************************)
(* stop_child                                                              *)
(***************************************************************************)
\* Where a caller goes when its stop is over.
AfterStop(a) == CASE caller[a].op = "setup" -> "steps"
                  [] caller[a].op = "retry" -> "plan"
                  [] OTHER                  -> "leave"

\* The handle is taken and the generation ended under the lock.
StopTakes(a) ==
  /\ At(a, "stop")
  /\ IF Live("NOT_STARTED") /\ live.child = NoPid
       THEN Goto(a, AfterStop(a)) /\ UNCHANGED <<live, history>>
       ELSE /\ live' = NotStarted(live.generation + 1)
            /\ caller' = [caller EXCEPT ![a] = [@ EXCEPT !.pc = "terminate", !.pid = live.child]]
            /\ history' = [history EXCEPT !.stopped =
                             IF StartingOrReady THEN @ \cup {live.generation} ELSE @]
  /\ UNCHANGED <<row, children, procs, taskVars, skillVars, daemon>>

\* terminate_gracefully, when there was a handle, and forget_child.
StopEnds(a) ==
  /\ At(a, "terminate")
  /\ procs' = IF caller[a].pid = NoPid THEN procs ELSE Kill(caller[a].pid)
  /\ children' = children \ {caller[a].pid}
  /\ caller' = [caller EXCEPT ![a] = [@ EXCEPT !.pc = AfterStop(a), !.pid = NoPid]]
  /\ UNCHANGED <<row, live, taskVars, skillVars, daemon, history>>

StopStep(a) == StopTakes(a) \/ StopEnds(a)

(***************************************************************************)
(* PUT /openviking/setup, its task, and POST /openviking/retry             *)
(***************************************************************************)
\* Any row but PROVISIONING is let through; the interpreters are probed before the
\* row is written.
Setup(r) ==
  /\ At(r, "idle") /\ calls < MaxCalls /\ calls' = calls + 1
  /\ row # "PROVISIONING"
  /\ caller' = [caller EXCEPT ![r] = [Idle EXCEPT !.pc = "probe", !.op = "setup"]]
  /\ UNCHANGED <<row, childVars, taskVars, skillVars, up, life, history>>

ProbeRefuses(r) ==
  /\ At(r, "probe") /\ Done(r)
  /\ UNCHANGED <<row, childVars, taskVars, skillVars, daemon, history>>

\* The unit that claims the row, whatever it says by now; the task goes on from it.
ClaimRow(r) ==
  /\ At(r, "probe") /\ row' = "PROVISIONING" /\ Goto(r, "stop")
  /\ UNCHANGED <<childVars, taskVars, skillVars, daemon, history>>

\* run_steps stopped at a failure: PROVISION_FAILED.
StepsFail(r) ==
  /\ At(r, "steps") /\ Done(r) /\ row' = "UNCONFIGURED"
  /\ UNCHANGED <<childVars, taskVars, skillVars, daemon, history>>
\* land_available, then the child.
LandAvailable(r) ==
  /\ At(r, "steps") /\ row' = "AVAILABLE" /\ Goto(r, "plan")
  /\ UNCHANGED <<childVars, taskVars, skillVars, daemon, history>>

ProvisionStep(r) == ClaimRow(r) \/ ProbeRefuses(r) \/ StepsFail(r) \/ LandAvailable(r)

\* Whatever is live is stopped and one more start made.
Retry(r) ==
  /\ At(r, "idle") /\ calls < MaxCalls /\ calls' = calls + 1
  /\ row \in {"AVAILABLE", "UNAVAILABLE"}
  /\ caller' = [caller EXCEPT ![r] = [Idle EXCEPT !.pc = "stop", !.op = "retry"]]
  /\ UNCHANGED <<row, childVars, taskVars, skillVars, up, life, history>>

(***************************************************************************)
(* lose, supervise, await_ready                                            *)
(***************************************************************************)
\* Under the lock: this generation's attempt is over, and its keys with it; the record of
\* the pid goes next (a crash in between only reaps what the record still names).
Lost(gen) ==
  /\ live' = [NotStarted(gen) EXCEPT !.state = "LOST"]
  /\ losing' = losing \cup {[gen |-> gen, pid |-> live.child, pc |-> "unit"]}
  /\ children' = children \ {live.child}
  /\ history' = [history EXCEPT !.lost = @ \cup {gen}]
\* mutant: whatever attempt is live now is the one that is over
Lose_AnyGeneration(gen) ==
  IF StartingOrReady THEN Lost(gen) ELSE UNCHANGED <<live, losing, children, history>>
\* lose: nothing unless the generation is the live one's and it is still an attempt.
Lose(gen) ==
  IF live.generation = gen /\ StartingOrReady
    THEN Lost(gen) ELSE UNCHANGED <<live, losing, children, history>>

\* The unit with LOST, the row and UNAVAILABLE; then the handle's end.
LoseRecords(l) ==
  /\ up /\ l.pc = "unit" /\ row' = "UNAVAILABLE"
  /\ losing' = (losing \ {l}) \cup {[l EXCEPT !.pc = "terminate"]}
  /\ UNCHANGED <<childVars, caller, watching, awaiting, skillVars, daemon, history>>
LoseEnds(l) ==
  /\ up /\ l.pc = "terminate" /\ losing' = losing \ {l}
  /\ procs' = IF l.pid = NoPid THEN procs ELSE Kill(l.pid)
  /\ UNCHANGED <<row, live, children, caller, watching, awaiting, skillVars, daemon, history>>
LoseStep == \E l \in losing : LoseRecords(l) \/ LoseEnds(l)

\* A supervisor looks: another generation, or a taken handle, ends it; an exit is a loss.
Supervise(gen) ==
  /\ up /\ gen \in watching
  /\ LET over == live.generation # gen \/ live.child = NoPid IN
     \/ over /\ UNCHANGED <<live, losing, children, history>>
     \/ ~over /\ ~procs[live.child].alive /\ Lose(gen)
  /\ watching' = watching \ {gen}
  /\ UNCHANGED <<row, procs, caller, awaiting, skillVars, daemon>>

Polling(w) == up /\ w.pc = "poll"
PollOver(w) == live.generation # w.gen \/ ~Live("STARTING")
PollEnds(w) ==
  /\ Polling(w) /\ PollOver(w) /\ awaiting' = awaiting \ {w}
  /\ UNCHANGED <<row, childVars, caller, watching, losing, skillVars, daemon, history>>
\* 200: Ready under the lock.
Readies(w) ==
  /\ Polling(w) /\ ~PollOver(w)
  /\ live' = [live EXCEPT !.state = "READY"]
  /\ awaiting' = (awaiting \ {w}) \cup {[w EXCEPT !.pc = "unit"]}
  /\ UNCHANGED <<row, procs, children, caller, watching, losing, skillVars, daemon, history>>
\* mutant: the poll has no deadline
DeadlinePasses_Never(w) == FALSE /\ UNCHANGED vars
DeadlinePasses(w) ==
  /\ Polling(w) /\ Lose(w.gen) /\ awaiting' = awaiting \ {w}
  /\ UNCHANGED <<row, procs, caller, watching, skillVars, daemon>>
\* The unit after readiness: a failure is cleared.
ReadyRecords(w) ==
  /\ up /\ w.pc = "unit"
  /\ row' = IF row = "UNAVAILABLE" THEN "AVAILABLE" ELSE row
  /\ awaiting' = (awaiting \ {w}) \cup {[w EXCEPT !.pc = "keys"]}
  /\ UNCHANGED <<childVars, caller, watching, losing, skillVars, daemon, history>>

\* provision_desks asks whichever child is ready, or none, for each desk's user and key;
\* the answers come back after the lock was let go: kept by a ready child only.
KeysAnswered(w) ==
  /\ up /\ w.pc = "keys" /\ awaiting' = awaiting \ {w}
  /\ \E answered \in SUBSET Desks :
       live' = IF Live("READY") THEN [live EXCEPT !.keys = @ \cup answered] ELSE live
  /\ UNCHANGED <<row, procs, children, caller, watching, losing, skillVars, daemon, history>>
AwaitStep == \E w \in awaiting :
  PollEnds(w) \/ DeadlinePasses(w) \/ ReadyRecords(w) \/ KeysAnswered(w)

(***************************************************************************)
(* refresh_skills, project_skills                                          *)
(***************************************************************************)
NotRefreshing == [pc |-> "none", queued |-> FALSE, fetched |-> 0]
Refresh(d, to) == refresh' = [refresh EXCEPT ![d] = to]
\* mutant: a refresh in flight is taken to cover the turn that just ended
Coalesced_Dropped(d) == IF refresh[d].pc = "none" THEN [NotRefreshing EXCEPT !.pc = "fetch"]
                        ELSE refresh[d]
\* One projection in flight and at most one queued behind it.
Coalesced(d) == IF refresh[d].pc = "none" THEN [NotRefreshing EXCEPT !.pc = "fetch"]
                ELSE [refresh[d] EXCEPT !.queued = TRUE]

\* A turn that wrote a skill through the desk's key has ended.
TurnEnds(d) ==
  /\ up /\ turns < MaxTurns /\ turns' = turns + 1
  /\ skills' = [skills EXCEPT ![d].written = @ + 1]
  /\ Refresh(d, Coalesced(d))
  /\ history' = [history EXCEPT !.turned = @ \cup {d}]
  /\ UNCHANGED <<row, childVars, caller, taskVars, daemon>>

Fetches(d) ==
  /\ up /\ refresh[d].pc = "fetch" /\ Live("READY") /\ d \in live.keys
  /\ Refresh(d, [refresh[d] EXCEPT !.pc = "write", !.fetched = skills[d].written])
  /\ UNCHANGED <<row, childVars, caller, taskVars, skills, turns, daemon, history>>
\* When a projection is over the queued one runs, or the desk leaves the map.
Looped(d) == IF refresh[d].queued THEN [NotRefreshing EXCEPT !.pc = "fetch"] ELSE NotRefreshing
\* No ready child, no key, a call or a write that failed: the tree on disk stays.
ProjectionFails(d) ==
  /\ up /\ refresh[d].pc # "none" /\ Refresh(d, Looped(d))
  /\ skills' = [skills EXCEPT ![d].failed = TRUE]
  /\ UNCHANGED <<row, childVars, caller, taskVars, turns, daemon, history>>
Projects(d) ==
  /\ up /\ refresh[d].pc = "write" /\ Refresh(d, Looped(d))
  /\ skills' = [skills EXCEPT ![d].projected = refresh[d].fetched, ![d].failed = FALSE]
  /\ UNCHANGED <<row, childVars, caller, taskVars, turns, daemon, history>>
RefreshStep(d) == Fetches(d) \/ ProjectionFails(d) \/ Projects(d)

(***************************************************************************)
(* The child and the daemon                                                *)
(***************************************************************************)
ChildExits ==
  /\ up /\ live.child # NoPid /\ procs[live.child].alive /\ procs' = Kill(live.child)
  /\ UNCHANGED <<row, live, children, caller, taskVars, skillVars, daemon, history>>

Quit ==
  /\ At("main", "idle") /\ life <= MaxDeaths
  /\ caller' = [caller EXCEPT !["main"] = [Idle EXCEPT !.pc = "stop", !.op = "quit"]]
  /\ UNCHANGED <<row, childVars, taskVars, skillVars, daemon, history>>

\* What a daemon's end takes with it: everything in memory.
Ends ==
  /\ up' = FALSE /\ live' = NotStarted(0) /\ caller' = [a \in Actors |-> Idle]
  /\ watching' = {} /\ awaiting' = {} /\ losing' = {}
  /\ refresh' = [d \in Desks |-> NotRefreshing] /\ history' = NoHistory
  /\ UNCHANGED <<row, children, skills, turns, life, calls>>
\* A handle that is dropped ends its child.
Leave ==
  /\ At("main", "leave") /\ Ends
  /\ procs' = [p \in DOMAIN procs |-> IF procs[p].life = life THEN [procs[p] EXCEPT !.alive = FALSE]
                                      ELSE procs[p]]
Crash == up /\ life <= MaxDeaths /\ Ends /\ UNCHANGED procs

\* The predecessor's recorded children are reaped, and the child is started.
Boot ==
  /\ ~up /\ up' = TRUE /\ life' = life + 1
  /\ procs' = [p \in DOMAIN procs |-> IF p \in children THEN [procs[p] EXCEPT !.alive = FALSE]
                                      ELSE procs[p]]
  /\ children' = {}
  /\ caller' = [caller EXCEPT !["main"] = [Idle EXCEPT !.pc = "plan", !.op = "boot"]]
  /\ UNCHANGED <<row, live, taskVars, skillVars, calls, history>>

Init ==
  /\ row \in {"UNCONFIGURED", "AVAILABLE"} /\ children = {} /\ procs = <<>>
  /\ live = NotStarted(0) /\ watching = {} /\ awaiting = {} /\ losing = {}
  /\ caller = [[a \in Actors |-> Idle] EXCEPT !["main"] = [Idle EXCEPT !.pc = "plan", !.op = "boot"]]
  /\ refresh = [d \in Desks |-> NotRefreshing]
  /\ skills = [d \in Desks |-> [written |-> 0, projected |-> 0, failed |-> FALSE]]
  /\ up = TRUE /\ life = 1 /\ calls = 0 /\ turns = 0
  /\ history = NoHistory

CallerStep(a) == StartStep(a) \/ StopStep(a) \/ (a \in Routes /\ ProvisionStep(a))
Next ==
  \/ \E a \in Actors : CallerStep(a)
  \/ \E r \in Routes : Setup(r) \/ Retry(r)
  \/ \E gen \in watching : Supervise(gen)
  \/ LoseStep \/ AwaitStep \/ (\E w \in awaiting : Readies(w))
  \/ \E d \in Desks : TurnEnds(d) \/ RefreshStep(d)
  \/ ChildExits \/ Quit \/ Leave \/ Crash \/ Boot

Spec == Init /\ [][Next]_vars

\* Every task and every request under way is scheduled: none of their steps waits for
\* anything without a bound (2, 3, 10, 15 and 120 seconds).  That the child ever answers
\* ready is not assumed.
Fairness ==
  /\ \A a \in Actors : WF_vars(CallerStep(a))
  /\ WF_vars(\E gen \in watching : Supervise(gen))
  /\ WF_vars(LoseStep) /\ WF_vars(AwaitStep)
  /\ \A d \in Desks : WF_vars(RefreshStep(d))
  /\ WF_vars(Leave) /\ WF_vars(Boot)
FairSpec == Spec /\ Fairness

(***************************************************************************)
(* Properties                                                              *)
(***************************************************************************)
TypeOK ==
  /\ row \in {"UNCONFIGURED", "PROVISIONING", "AVAILABLE", "UNAVAILABLE"}
  /\ procs \in Seq([life : Nat, alive : BOOLEAN]) /\ children \subseteq Nat
  /\ live \in [state : {"NOT_STARTED", "STARTING", "READY", "LOST"}, generation : Nat,
               child : Nat, keys : SUBSET Desks]
  /\ caller \in [Actors -> [pc : {"idle", "probe", "stop", "terminate", "steps", "plan",
                                  "claim", "spawn", "orphan", "record", "leave"},
                            op : {"none", "setup", "retry", "boot", "quit"},
                            pid : Nat, gen : Nat]]
  /\ watching \subseteq Nat
  /\ awaiting \subseteq [gen : Nat, pc : {"poll", "unit", "keys"}]
  /\ losing \subseteq [gen : Nat, pid : Nat, pc : {"unit", "terminate"}]
  /\ refresh \in [Desks -> [pc : {"none", "fetch", "write"}, queued : BOOLEAN, fetched : Nat]]
  /\ skills \in [Desks -> [written : Nat, projected : Nat, failed : BOOLEAN]]
  /\ up \in BOOLEAN /\ {life, calls, turns} \subseteq Nat
  /\ history \in [stopped : SUBSET Nat, lost : SUBSET Nat, turned : SUBSET Desks]

Ending == {caller[a].pid : a \in {x \in Actors : caller[x].pc \in {"terminate", "orphan"}}}
            \cup {l.pid : l \in losing}

\* However starts, stops and losses overlap, every child of this daemon that runs is the
\* one the live state holds or one that somebody is about to end: none is left running on
\* the data directory with nobody to stop it ("so nothing is orphaned").
NoOrphan == \A p \in DOMAIN procs :
  up /\ procs[p].alive /\ procs[p].life = life => p = live.child \/ p \in Ending

\* An attempt that was stopped is never reported lost afterwards, by its own watchers or
\* by those of an earlier one ("cannot report a loss against the one that replaced it").
StoppedNotLost == history.stopped \cap history.lost = {}

\* What stands and falls with readiness, though both come back long after the lock was let
\* go: a ready child is on record, for a killed daemon's successor to reap, and a desk's key
\* lives no longer than the readiness it was asked under.
ReadyBacked ==
  /\ Live("READY") => live.child \in children
  /\ live.keys # {} => Live("READY")

\* An attempt ends: ready, lost, stopped or given up, within the deadline.
StartSettles == Live("STARTING") ~> ~Live("STARTING")

\* What the agent wrote in a turn is in the workspace once nothing is projecting any more, or
\* the failure is known, even when the turn ended in the middle of another's projection.
TurnProjected == \A d \in history.turned :
  refresh[d].pc = "none" /\ ~skills[d].failed => skills[d].projected = skills[d].written

\* A setup that was claimed ends: "the row lands AVAILABLE ... or UNCONFIGURED".
ProvisionEnds == (row = "PROVISIONING") ~> (row # "PROVISIONING")
=============================================================================
