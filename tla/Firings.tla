-------------------------------- MODULE Firings --------------------------------
(***************************************************************************)
(* Triggers, their occurrences and what is done about each: the routes     *)
(* that define and invoke a trigger (trigger.rs), the scheduler's          *)
(* acceptance unit (schedule.rs), the executor that runs a firing's code   *)
(* (exec.rs), the record of running children a later daemon reaps          *)
(* (daemon.rs), and the recovery of both.                                  *)
(*                                                                         *)
(* A store unit is one step.  A route reads the clock when it enters and   *)
(* runs its unit later, so another unit may run with a later instant in    *)
(* between.  A run of the executor is cut at every await and at the two    *)
(* halves of each rewrite of children.json.                                *)
(***************************************************************************)
EXTENDS Integers, Sequences, FiniteSets

CONSTANTS
  Triggers,    \* trigger ids, in id order
  Desks, Home, \* the desk of each trigger
  Routes,      \* HTTP handlers
  Requests,    \* request ids callers choose
  Codes,       \* trigger code, up to its fingerprint
  Candidates,  \* the instants of the one recurrence rule
  Instants,    \* the instants a one-off may be given
  Late,        \* LATE_BOUND_NS, in clock steps
  MaxTime,     \* bound: the clock
  MaxRevision, \* bound: revisions of a trigger
  MaxDeaths    \* bound: daemon deaths

ASSUME FiringsAssumption ==
  /\ Triggers \subseteq Nat /\ IsFiniteSet(Triggers) /\ Home \in [Triggers -> Desks]
  /\ Candidates \cup Instants \subseteq Nat \ {0}
  /\ Late \in Nat /\ MaxTime \in Nat /\ MaxRevision \in Nat /\ MaxDeaths \in Nat

CONSTANTS NoRequest, NoCode   \* NULL request_id, and no `code` object
ASSUME NullAssumption == NoRequest \notin Requests /\ NoCode \notin Codes

VARIABLES
  now,         \* the wall clock
  started,     \* the daemon's started_at_ns
  phase,       \* the daemon is up, quitting or down
  policy,      \* installation_settings.trigger_code_policy
  triggers,    \* triggers rows
  snapshots,   \* code_snapshots rows, in insertion order
  firings,     \* firings rows in insertion order, each with its execution and prompts
  missed,      \* TRIGGER_MISSED events
  entered,     \* route -> the instant it read at entry, 0 when idle
  runs,        \* the executor's tasks
  wake,        \* the executor's Notify holds a permit
  children,    \* firings whose child process runs
  file,        \* firings whose child children.json names
  shots,       \* history: one-off firings since the trigger was last enabled
  launched,    \* history: every child started, in order
  deaths

definitions == <<policy, triggers, snapshots, missed, shots>>
executor    == <<runs, wake, children, file, launched>>
daemon      == <<started, phase, deaths>>
vars == <<now, started, phase, policy, triggers, snapshots, firings, missed, entered, runs, wake,
          children, file, shots, launched, deaths>>

Null == 0   \* a NULL instant or snapshot id

-----------------------------------------------------------------------------
(* Schedules and the projection rule *)

NoSchedule  == [at |-> Null, rule |-> FALSE]
Rule        == [at |-> Null, rule |-> TRUE]
OneOff(at)  == [at |-> at, rule |-> FALSE]

Absent == [state |-> "ABSENT", recurrence |-> "RECURRING", schedule |-> NoSchedule,
           enabled |-> FALSE, snapshot |-> Null, next |-> Null, revision |-> 0]

\* The schedules a body may carry at the instant it is parsed: `at` must be ahead.
Parsable(at) == {NoSchedule, Rule} \cup {OneOff(i) : i \in {j \in Instants : j > at}}

\* A schedule names the recurrence; without one it stays what it was.
Recurrence(schedule, was) ==
  IF schedule.rule THEN "RECURRING" ELSE IF schedule.at # Null THEN "ONE_OFF" ELSE was

\* mutant: the first candidate at or after the reference
NextAfter_AtOrAfter(schedule, reference) ==
  LET later == {c \in IF schedule.rule THEN Candidates ELSE {schedule.at} : c >= reference} IN
  IF later = {} THEN Null ELSE CHOOSE c \in later : \A b \in later : c <= b
\* next_after: the first candidate strictly after the reference.
NextAfter(schedule, reference) ==
  LET later == {c \in IF schedule.rule THEN Candidates ELSE {schedule.at} : c > reference} IN
  IF later = {} THEN Null ELSE CHOOSE c \in later : \A b \in later : c <= b

Approval(snapshot) == IF snapshot = Null THEN "NONE" ELSE snapshots[snapshot].approval

\* mutant: only a denial withholds the projection
Projection_Pending(enabled, approval, candidate) ==
  IF approval = "DENIED" \/ ~enabled THEN Null ELSE candidate
\* projection: withheld while the code is undecided or denied, or the trigger disabled.
Projection(enabled, approval, candidate) ==
  IF approval \in {"PENDING", "DENIED"} \/ ~enabled THEN Null ELSE candidate

-----------------------------------------------------------------------------
(* The routes *)

\* A handler reads the clock, then asks the store for its unit.
Enter(r) ==
  /\ phase = "up" /\ entered[r] = 0 /\ entered' = [entered EXCEPT ![r] = now]
  /\ UNCHANGED <<now, definitions, firings, executor, daemon>>

Leaves(r) == phase # "down" /\ entered[r] # 0 /\ entered' = [entered EXCEPT ![r] = 0]

\* Every refusal, and a replayed invocation, writes nothing.
Refused(r) == Leaves(r) /\ UNCHANGED <<now, definitions, firings, executor, daemon>>

\* Snapshot::insert, or no row.  The policy decides it on the spot or leaves it pending.
Stamp == IF policy = "REQUIRE_APPROVAL" THEN "PENDING" ELSE "ALWAYS_ALLOW"
Attach(code) ==
  IF code = NoCode THEN snapshots ELSE Append(snapshots, [code |-> code, approval |-> Stamp])

Create(r, t) ==
  /\ Leaves(r) /\ triggers[t].state = "ABSENT"
  /\ \E schedule \in Parsable(entered[r]), code \in Codes \cup {NoCode} :
       LET approval == IF code = NoCode THEN "NONE" ELSE Stamp IN
       /\ snapshots' = Attach(code)
       /\ triggers' = [triggers EXCEPT ![t] =
            [state |-> "LIVE", recurrence |-> Recurrence(schedule, "RECURRING"),
             schedule |-> schedule, enabled |-> TRUE,
             snapshot |-> IF code = NoCode THEN Null ELSE Len(snapshots'),
             next |-> Projection(TRUE, approval, NextAfter(schedule, entered[r])),
             revision |-> 1]]
  /\ UNCHANGED <<now, policy, missed, shots, firings, executor, daemon>>

\* Any subset of schedule, enabled and code; the projection is recomputed whatever the
\* patch names.  Code with the current fingerprint keeps its row and its decision.
Patch(r, t) ==
  /\ Leaves(r) /\ triggers[t].state = "LIVE" /\ triggers[t].revision < MaxRevision
  /\ \E schedule \in Parsable(entered[r]) \cup {triggers[t].schedule}, enabled \in BOOLEAN,
        code \in Codes \cup {NoCode} :
       LET row == triggers[t]
           same == \/ row.snapshot = Null /\ code = NoCode
                   \/ row.snapshot # Null /\ snapshots[row.snapshot].code = code
           snapshot == IF same THEN row.snapshot ELSE IF code = NoCode THEN Null
                       ELSE Len(snapshots) + 1
           approval == IF same THEN Approval(row.snapshot) ELSE IF code = NoCode THEN "NONE"
                       ELSE Stamp
       IN
       /\ snapshots' = IF same THEN snapshots ELSE Attach(code)
       /\ triggers' = [triggers EXCEPT ![t] =
            [row EXCEPT !.recurrence = Recurrence(schedule, @), !.schedule = schedule,
                        !.enabled = enabled, !.snapshot = snapshot, !.revision = @ + 1,
                        !.next = Projection(enabled, approval, NextAfter(schedule, entered[r]))]]
       /\ shots' = IF enabled /\ ~row.enabled THEN [shots EXCEPT ![t] = 0] ELSE shots
  /\ UNCHANGED <<now, policy, missed, firings, executor, daemon>>

Delete(r, t) ==
  /\ Leaves(r) /\ triggers[t].state = "LIVE"
  /\ triggers' = [triggers EXCEPT ![t].state = "DELETED", ![t].next = Null]
  /\ UNCHANGED <<now, policy, snapshots, missed, shots, firings, executor, daemon>>

\* decide: the snapshot's owner, if it still has one, projects again from the decision.
Decide(r, s) ==
  /\ Leaves(r) /\ snapshots[s].approval = "PENDING"
  /\ \E decision \in {"APPROVED", "DENIED"} :
       /\ snapshots' = [snapshots EXCEPT ![s].approval = decision]
       /\ triggers' = [t \in Triggers |-> IF triggers[t].snapshot # s THEN triggers[t] ELSE
            [triggers[t] EXCEPT !.next =
               Projection(triggers[t].enabled /\ triggers[t].state = "LIVE", decision,
                          NextAfter(triggers[t].schedule, entered[r]))]]
  /\ UNCHANGED <<now, policy, missed, shots, firings, executor, daemon>>

SetPolicy ==
  /\ phase = "up" /\ Codes # {}
  /\ policy' = IF policy = "REQUIRE_APPROVAL" THEN "ALWAYS_ALLOW" ELSE "REQUIRE_APPROVAL"
  /\ UNCHANGED <<now, triggers, snapshots, missed, shots, firings, entered, executor, daemon>>

-----------------------------------------------------------------------------
(* Acceptance: by the schedule, or by an invocation *)

\* The row, and the TRIGGER_RESULT prompt a code-free firing has at once.
NewFiring(t, occurrence, accepted, request) ==
  [trigger |-> t, occurrence |-> occurrence, accepted |-> accepted,
   snapshot |-> triggers[t].snapshot, request |-> request, execution |-> "NONE",
   outcome |-> "none", results |-> IF triggers[t].snapshot = Null THEN 1 ELSE 0]

FiredBefore(t) == \E f \in DOMAIN firings : firings[f].trigger = t
IsOneOff(t) == triggers[t].recurrence = "ONE_OFF"
Shot(T) == [t \in Triggers |-> IF t \in T /\ IsOneOff(t) THEN shots[t] + 1 ELSE shots[t]]

\* mutant: an invocation leaves a one-off armed
Invoke_Keeps(r, t, q) ==
  /\ Leaves(r) /\ triggers[t].state = "LIVE" /\ triggers[t].enabled
  /\ Approval(triggers[t].snapshot) \notin {"PENDING", "DENIED"}
  /\ firings' = Append(firings, NewFiring(t, entered[r], entered[r], q))
  /\ shots' = Shot({t})
  /\ wake' = (wake \/ triggers[t].snapshot # Null)
  /\ UNCHANGED <<now, policy, triggers, snapshots, missed, runs, children, file, launched, daemon>>
\* invoke: a new request on an eligible trigger; a one-off is consumed by it.
Invoke(r, t, q) ==
  /\ Leaves(r)
  /\ \A f \in DOMAIN firings : firings[f].trigger # t \/ firings[f].request # q
  /\ triggers[t].state = "LIVE" /\ triggers[t].enabled
  /\ Approval(triggers[t].snapshot) \notin {"PENDING", "DENIED"}
  /\ ~(/\ IsOneOff(t) /\ ~FiredBefore(t)
       /\ triggers[t].schedule.at \in 1..entered[r])
  /\ firings' = Append(firings, NewFiring(t, entered[r], entered[r], q))
  /\ triggers' = IF IsOneOff(t)
       THEN [triggers EXCEPT ![t].enabled = FALSE, ![t].next = Null] ELSE triggers
  /\ shots' = Shot({t})
  /\ wake' = (wake \/ triggers[t].snapshot # Null)
  /\ UNCHANGED <<now, policy, snapshots, missed, runs, children, file, launched, daemon>>

\* The due triggers, in (next_occurrence_ns, id) order.
Due == {t \in Triggers : /\ triggers[t].state = "LIVE" /\ triggers[t].enabled
                         /\ triggers[t].next \in 1..now}
Sooner(s, t) == \/ triggers[s].next < triggers[t].next
                \/ triggers[s].next = triggers[t].next /\ s < t
Nth(T, i) == CHOOSE t \in T : Cardinality({s \in T : Sooner(s, t)}) = i - 1

\* The projected instant was served by this daemon's clock and is not too old.
InTime(t) == triggers[t].next >= started /\ now - triggers[t].next <= Late

\* mutant: no unique index over scheduled occurrences
AlreadyFired_Never(t) == FALSE
\* mutant: an invocation at the instant counts as the occurrence's firing
AlreadyFired_Invoked(t) == \E f \in DOMAIN firings :
  firings[f].trigger = t /\ firings[f].occurrence = triggers[t].next
\* firings_scheduled: the occurrence has its firing.
AlreadyFired(t) == \E f \in DOMAIN firings :
  /\ firings[f].trigger = t /\ firings[f].occurrence = triggers[t].next
  /\ firings[f].request = NoRequest

\* accept_or_miss, one unit: each due trigger is accepted, found accepted already, or
\* missed, and projected on; an accepted one-off is consumed.
SchedulerPass ==
  /\ phase # "down" /\ Due # {}
  /\ LET accepted == {t \in Due : InTime(t) /\ ~AlreadyFired(t)} IN
     /\ firings' = firings \o [i \in 1..Cardinality(accepted) |->
          LET t == Nth(accepted, i) IN NewFiring(t, triggers[t].next, now, NoRequest)]
     /\ triggers' = [t \in Triggers |-> IF t \notin Due THEN triggers[t] ELSE
          [triggers[t] EXCEPT
             !.next = IF IsOneOff(t) THEN Null
                      ELSE Projection(TRUE, Approval(triggers[t].snapshot),
                             NextAfter(triggers[t].schedule, IF InTime(t) THEN @ ELSE now)),
             !.enabled = ~(InTime(t) /\ IsOneOff(t))]]
     /\ missed' = missed \cup
          {[trigger |-> t, from |-> triggers[t].next, through |-> now] : t \in {u \in Due : ~InTime(u)}}
     /\ shots' = Shot(accepted)
     /\ wake' = (wake \/ \E t \in accepted : triggers[t].snapshot # Null)
  /\ UNCHANGED <<now, policy, snapshots, entered, runs, children, file, launched, daemon>>

-----------------------------------------------------------------------------
(* The executor *)

Running(d) == {f \in DOMAIN firings : /\ Home[firings[f].trigger] = d
                                      /\ firings[f].execution = "RUNNING"}

\* mutant: a completed firing may be claimed again
Unclaimed_Again(f) == firings[f].snapshot # Null /\ firings[f].outcome # "EXITED"
\* A code-bearing firing without an executions row.
Unclaimed(f) == firings[f].snapshot # Null /\ firings[f].execution = "NONE"

\* mutant: a desk with something running is claimed for too
Claimable_Busy(d) == {f \in DOMAIN firings : Home[firings[f].trigger] = d /\ Unclaimed(f)}
Claimable(d) ==
  IF Running(d) # {} THEN {}
  ELSE {f \in DOMAIN firings : Home[firings[f].trigger] = d /\ Unclaimed(f)}

\* claim, one unit over all desks: the oldest by (accepted_at_ns, id) of each idle desk.
Claim ==
  /\ phase = "up" /\ wake /\ wake' = FALSE
  /\ LET first == {f \in DOMAIN firings :
           LET own == Claimable(Home[firings[f].trigger]) IN
           f \in own /\ \A g \in own :
             firings[f].accepted < firings[g].accepted
               \/ (firings[f].accepted = firings[g].accepted /\ f <= g)}
     IN
     /\ firings' = [f \in DOMAIN firings |->
          IF f \in first THEN [firings[f] EXCEPT !.execution = "RUNNING"] ELSE firings[f]]
     /\ runs' = runs \cup {[firing |-> f, stage |-> "launch", outcome |-> "none", seen |-> {}] :
                           f \in first}
  /\ UNCHANGED <<now, definitions, entered, children, file, launched, daemon>>

\* One run moves to its next stage.
Moves(run, stage, outcome, seen) ==
  runs' = (runs \ {run}) \cup
    {[run EXCEPT !.stage = stage, !.outcome = outcome, !.seen = seen]}
OnlyRuns == UNCHANGED <<now, definitions, firings, entered, wake, daemon>>
Executing(run, stage) == phase # "down" /\ run.stage = stage

SpawnChild(run) ==
  /\ Executing(run, "launch")
  /\ Moves(run, "record", "none", {})
  /\ children' = children \cup {run.firing}
  /\ launched' = Append(launched, run.firing)
  /\ UNCHANGED file /\ OnlyRuns

SpawnFailed(run) ==
  /\ Executing(run, "launch")
  /\ Moves(run, "complete", "SPAWN_FAILED", {})
  /\ UNCHANGED <<children, launched, file>> /\ OnlyRuns

\* record_child and forget_child each read the whole file, then write it back.
RecordReads(run) ==
  /\ Executing(run, "record") /\ Moves(run, "recording", "none", file)
  /\ UNCHANGED <<children, launched, file>> /\ OnlyRuns
RecordWrites(run) ==
  /\ Executing(run, "recording") /\ Moves(run, "wait", "none", {})
  /\ file' = run.seen \cup {run.firing}
  /\ UNCHANGED <<children, launched>> /\ OnlyRuns

\* The child ends by itself, at any moment.
ChildEnds(f) ==
  /\ children' = children \ {f}
  /\ UNCHANGED <<runs, launched, file>> /\ OnlyRuns

\* The first of a cap breach, the child's end, the timeout and a quit; a child that is
\* still running is terminated.
Ends(run) ==
  /\ Executing(run, "wait")
  /\ \E outcome \in {"OUTPUT_LIMIT"}
           \cup (IF run.firing \notin children THEN {"EXITED"} ELSE {"TIMED_OUT"})
           \cup (IF phase = "quitting" THEN {"QUIT"} ELSE {}) :
       Moves(run, "forget", outcome, {})
  /\ children' = children \ {run.firing}
  /\ UNCHANGED <<launched, file>> /\ OnlyRuns

ForgetReads(run) ==
  /\ Executing(run, "forget") /\ Moves(run, "forgetting", run.outcome, file)
  /\ UNCHANGED <<children, launched, file>> /\ OnlyRuns
ForgetWrites(run) ==
  /\ Executing(run, "forgetting") /\ Moves(run, "complete", run.outcome, {})
  /\ file' = run.seen \ {run.firing}
  /\ UNCHANGED <<children, launched>> /\ OnlyRuns

\* An execution that is over, with its result prompt.
Completed(f, outcome) ==
  [firings[f] EXCEPT !.execution = "COMPLETE", !.outcome = outcome, !.results = @ + 1]

\* mutant: the completion does not wake the executor
Complete_Sleeps(run) ==
  /\ Executing(run, "complete")
  /\ firings' = [firings EXCEPT ![run.firing] = Completed(run.firing, run.outcome)]
  /\ runs' = runs \ {run}
  /\ UNCHANGED <<now, wake, definitions, entered, children, launched, file, daemon>>
\* The completion unit and its result prompt, then the desk's next claim.
Complete(run) ==
  /\ Executing(run, "complete")
  /\ firings' = [firings EXCEPT ![run.firing] = Completed(run.firing, run.outcome)]
  /\ runs' = runs \ {run} /\ wake' = TRUE
  /\ UNCHANGED <<now, definitions, entered, children, launched, file, daemon>>

-----------------------------------------------------------------------------
(* The clock and the daemon's life *)

Tick == now < MaxTime /\ now' = now + 1
        /\ UNCHANGED <<definitions, firings, entered, executor, daemon>>

\* The shutdown watch flips: nothing more is claimed, every run is asked to quit.
BeginQuit ==
  /\ phase = "up" /\ deaths < MaxDeaths /\ phase' = "quitting"
  /\ UNCHANGED <<now, started, deaths, definitions, firings, entered, executor>>

\* The tasks are gone; what they had not completed stays RUNNING.
Gone(left) ==
  /\ phase' = "down" /\ deaths' = deaths + 1
  /\ entered' = [r \in Routes |-> 0] /\ runs' = {} /\ wake' = FALSE /\ children' = left
  /\ UNCHANGED <<now, started, definitions, firings, file, launched>>

\* The end of a quit, at the latest after its five seconds: dropped runs kill their child.
EndQuit == phase = "quitting" /\ Gone({})
\* A crash leaves the children running.
Crash == phase # "down" /\ deaths < MaxDeaths /\ Gone(children)

\* The next start: the reaper, the recovery step, and the executor's first claim.
Boot ==
  /\ phase = "down" /\ phase' = "up" /\ started' = now
  /\ children' = children \ file /\ file' = {} /\ wake' = TRUE
  /\ firings' = [f \in DOMAIN firings |->
       IF firings[f].execution = "RUNNING" THEN Completed(f, "DAEMON_LOST") ELSE firings[f]]
  /\ UNCHANGED <<now, deaths, definitions, entered, runs, launched>>

-----------------------------------------------------------------------------
Init ==
  /\ now = 1 /\ started = 1 /\ phase = "up" /\ deaths = 0
  /\ policy = "ALWAYS_ALLOW"
  /\ triggers = [t \in Triggers |-> Absent]
  /\ snapshots = <<>> /\ firings = <<>> /\ missed = {}
  /\ entered = [r \in Routes |-> 0]
  /\ runs = {} /\ wake = TRUE /\ children = {} /\ file = {}
  /\ shots = [t \in Triggers |-> 0] /\ launched = <<>>

Route(r) == \/ Enter(r) \/ Refused(r)
            \/ \E t \in Triggers : \/ Create(r, t) \/ Patch(r, t) \/ Delete(r, t)
                                   \/ \E q \in Requests : Invoke(r, t, q)
            \/ \E s \in DOMAIN snapshots : Decide(r, s)
RunStep(run) == \/ SpawnChild(run) \/ SpawnFailed(run) \/ RecordReads(run) \/ RecordWrites(run)
                \/ Ends(run) \/ ForgetReads(run) \/ ForgetWrites(run) \/ Complete(run)
Life == Tick \/ BeginQuit \/ EndQuit \/ Crash \/ Boot

Next == \/ \E r \in Routes : Route(r)
        \/ SetPolicy \/ SchedulerPass \/ Claim
        \/ \E run \in runs : RunStep(run)
        \/ \E f \in children : ChildEnds(f)
        \/ Life

Spec == Init /\ [][Next]_vars

\* The scheduler's sleep is at most a recheck, the executor is woken by a stored permit,
\* every await of a run is bounded by the code's own timeout, a quit by five seconds, and
\* a dead daemon is started again.
Fairness == /\ WF_vars(SchedulerPass) /\ WF_vars(Claim) /\ WF_vars(EndQuit) /\ WF_vars(Boot)
            /\ \A d \in Desks :
                 WF_vars(\E run \in runs : Home[firings[run.firing].trigger] = d /\ RunStep(run))

LiveSpec == Spec /\ Fairness

-----------------------------------------------------------------------------
(* Types *)

Schedule == [at : Nat, rule : BOOLEAN]
TriggerRow == [state : {"ABSENT", "LIVE", "DELETED"}, recurrence : {"ONE_OFF", "RECURRING"},
               schedule : Schedule, enabled : BOOLEAN, snapshot : Nat, next : Nat,
               revision : Nat]
Snapshot == [code : Codes, approval : {"ALWAYS_ALLOW", "PENDING", "APPROVED", "DENIED"}]
Outcomes == {"EXITED", "TIMED_OUT", "OUTPUT_LIMIT", "SPAWN_FAILED", "QUIT"}
Firing == [trigger : Triggers, occurrence : Nat, accepted : Nat, snapshot : Nat,
           request : Requests \cup {NoRequest}, execution : {"NONE", "RUNNING", "COMPLETE"},
           outcome : Outcomes \cup {"none", "DAEMON_LOST"}, results : Nat]
Run == [firing : Nat, stage : {"launch", "record", "recording", "wait", "forget", "forgetting",
                               "complete"},
        outcome : Outcomes \cup {"none"}, seen : SUBSET Nat]

\* Every variable holds a value of its kind, and snapshot ids and runs name rows.
TypeOK ==
  /\ now \in Nat /\ started \in Nat /\ deaths \in Nat
  /\ phase \in {"up", "quitting", "down"}
  /\ policy \in {"ALWAYS_ALLOW", "REQUIRE_APPROVAL"}
  /\ triggers \in [Triggers -> TriggerRow]
  /\ snapshots \in Seq(Snapshot)
  /\ \A t \in Triggers : triggers[t].snapshot \in 0..Len(snapshots)
  /\ firings \in Seq(Firing)
  /\ \A f \in DOMAIN firings : firings[f].snapshot \in 0..Len(snapshots)
  /\ missed \subseteq [trigger : Triggers, from : Nat, through : Nat]
  /\ entered \in [Routes -> Nat]
  /\ runs \subseteq Run /\ \A run \in runs : run.firing \in DOMAIN firings
  /\ wake \in BOOLEAN /\ children \subseteq Nat /\ file \subseteq Nat
  /\ shots \in [Triggers -> Nat] /\ launched \in Seq(Nat)

-----------------------------------------------------------------------------
(* Properties *)

\* Code runs only when it was decided in its favour.  Neither the scheduler nor the
\* executor asks: a pending snapshot is kept away by the projection rule alone, through
\* every patch, decision and policy change.
ApprovedOnly == \A f \in DOMAIN firings :
  Approval(firings[f].snapshot) \notin {"PENDING", "DENIED"}

\* One occurrence of a schedule is one firing, although a patch with an older clock can
\* project an occurrence again that the scheduler has already accepted.
OccurrenceOnce == \A f, g \in DOMAIN firings :
  /\ firings[f].trigger = firings[g].trigger /\ firings[f].occurrence = firings[g].occurrence
  /\ firings[f].request = NoRequest /\ firings[g].request = NoRequest
  => f = g

\* A one-off fires once each time it is enabled, whether its schedule or a request is
\* first, and whatever else is patched in between.
SingleShot == \A t \in Triggers : shots[t] <= 1

\* Across crashes and restarts, a firing's code is started at most once, and a firing has
\* exactly one result prompt, once it has a result: at acceptance without code, else when
\* its execution completes, by its run, by a quit or by the recovery.
RunOnce ==
  /\ \A i, j \in DOMAIN launched : launched[i] = launched[j] => i = j
  /\ \A f \in DOMAIN firings :
       firings[f].results =
         IF firings[f].snapshot = Null \/ firings[f].execution = "COMPLETE" THEN 1 ELSE 0

\* A desk has at most one execution RUNNING, and while the daemon is up that execution has
\* its task: a RUNNING row nobody works on would keep the desk from ever claiming again.
DeskServed == \A d \in Desks :
  /\ Cardinality(Running(d)) <= 1
  /\ phase # "down" => \A f \in Running(d) : \E run \in runs : run.firing = f

\* An occurrence that is due leaves the projection as a firing of its own or as a recorded
\* miss: no pass or restart drops it, only an edit of the trigger, or an invocation that
\* consumes a one-off in its place.
NothingDueDropped == [][\A t \in Due : LET row == triggers'[t] IN
  row.next # triggers[t].next =>
    \/ \E f \in DOMAIN firings' :
         /\ firings'[f].trigger = t /\ firings'[f].request = NoRequest
         /\ firings'[f].occurrence = triggers[t].next
    \/ \E m \in missed' : m.trigger = t /\ triggers[t].next \in m.from..m.through
    \/ row.state = "DELETED" \/ row.revision # triggers[t].revision
    \/ IsOneOff(t) /\ FiredBefore(t)']_vars

\* A child whose record has been written is in children.json until it is forgotten, so
\* that the next daemon can reap it.
ChildrenKnown == \A run \in runs : run.stage = "wait" => run.firing \in file

\* What is due does not stay due, and every firing has its result prompt in the end.
DueResolved == \A t \in Triggers : (t \in Due) ~> (t \notin Due)
Answered == \A f \in 1..MaxTime * Cardinality(Triggers) + Cardinality(Requests) :
  (f \in DOMAIN firings) ~> (f \in DOMAIN firings /\ firings[f].results = 1)
=============================================================================
