----------------------------- MODULE VikingProofs -----------------------------
(***************************************************************************)
(* Proofs about Viking for any routes, desks, calls, turns and deaths.     *)
(***************************************************************************)
EXTENDS Viking, SequenceTheorems, TLAPS

-------------------------------------------------------------------------------
(* Types *)

Proc == [life : Nat, alive : BOOLEAN]

\* A process that is added leaves the others as they are.
LEMMA Added ==
  ASSUME procs \in Seq(Proc), NEW new \in Proc, procs' = Append(procs, new)
  PROVE  /\ procs' \in Seq(Proc) /\ DOMAIN procs \subseteq DOMAIN procs'
         /\ Len(procs) + 1 \in DOMAIN procs' \ DOMAIN procs
         /\ \A p \in DOMAIN procs' : p \in DOMAIN procs \/ p = Len(procs) + 1
         /\ \A p \in DOMAIN procs : procs'[p] = procs[p]
         /\ procs'[Len(procs) + 1] = new
<1>1. /\ procs' \in Seq(Proc) /\ Len(procs') = Len(procs) + 1
      /\ \A i \in 1..Len(procs) : procs'[i] = procs[i]
      /\ procs'[Len(procs) + 1] = new
  BY AppendProperties
<1>2. DOMAIN procs = 1..Len(procs) /\ DOMAIN procs' = 1..Len(procs') /\ Len(procs) \in Nat
  BY <1>1, LenProperties
<1> QED BY <1>1, <1>2

\* A process that is ended stays where it is.
LEMMA Killed ==
  ASSUME procs \in Seq(Proc), NEW pid \in DOMAIN procs
  PROVE  /\ Kill(pid) \in Seq(Proc) /\ DOMAIN Kill(pid) = DOMAIN procs
         /\ ~Kill(pid)[pid].alive
         /\ \A p \in DOMAIN procs : /\ Kill(pid)[p].life = procs[p].life
                                    /\ p # pid => Kill(pid)[p] = procs[p]
<1>1. DOMAIN procs = 1..Len(procs) /\ pid \in 1..Len(procs) /\ procs[pid] \in Proc
  BY LenProperties, ElementOfSeq
<1>2. Kill(pid) = [procs EXCEPT ![pid] = [procs[pid] EXCEPT !.alive = FALSE]]
  BY DEF Kill
<1>3. [procs[pid] EXCEPT !.alive = FALSE] \in Proc
  BY <1>1 DEF Proc
<1>4. Kill(pid) \in Seq(Proc)
  BY <1>1, <1>2, <1>3, ExceptSeq
<1> QED BY <1>1, <1>2, <1>4 DEF Proc

LEMMA KillType == ASSUME procs \in Seq(Proc), NEW pid PROVE Kill(pid) \in Seq(Proc)
<1>1. CASE pid \in DOMAIN procs BY <1>1, Killed
<1>2. CASE pid \notin DOMAIN procs
  <2>1. Kill(pid) = procs BY <1>2, LenProperties DEF Kill
  <2> QED BY <2>1
<1> QED BY <1>1, <1>2

\* The end of every process of a set.
LEMMA Swept ==
  ASSUME procs \in Seq(Proc), NEW S,
         procs' = [p \in DOMAIN procs |-> IF p \in S THEN [procs[p] EXCEPT !.alive = FALSE] ELSE procs[p]]
  PROVE  /\ procs' \in Seq(Proc) /\ DOMAIN procs' = DOMAIN procs
         /\ \A p \in DOMAIN procs : procs'[p].life = procs[p].life
<1>1. DOMAIN procs = 1..Len(procs) /\ Len(procs) \in Nat
  BY LenProperties
<1>2. \A p \in DOMAIN procs : procs[p] \in Proc
  BY <1>1, ElementOfSeq
<1>3. procs' \in [1..Len(procs) -> Proc]
  BY <1>1, <1>2 DEF Proc
<1> QED BY <1>1, <1>2, <1>3, SeqDef DEF Proc

-------------------------------------------------------------------------------
(* The parts of TypeOK, each by itself *)

Pcs == {"idle", "probe", "stop", "terminate", "steps", "plan", "claim", "spawn", "orphan",
        "record", "leave"}
Ops == {"none", "setup", "retry", "boot", "quit"}
Call == [pc : Pcs, op : Ops, pid : Nat, gen : Nat]
States == {"NOT_STARTED", "STARTING", "READY", "LOST"}
Await == [gen : Nat, pc : {"poll", "unit", "keys"}]
Loss  == [gen : Nat, pid : Nat, pc : {"unit", "terminate"}]

RowOK == row \in {"UNCONFIGURED", "PROVISIONING", "AVAILABLE", "UNAVAILABLE"}
ProcOK == procs \in Seq(Proc) /\ children \subseteq Nat
LiveOK == live \in [state : States, generation : Nat, child : Nat, keys : SUBSET Desks]
CallerOK == caller \in [Actors -> Call]
TaskOK == watching \subseteq Nat /\ awaiting \subseteq Await /\ losing \subseteq Loss
SkillOK ==
  /\ refresh \in [Desks -> [pc : {"none", "fetch", "write"}, queued : BOOLEAN, fetched : Nat]]
  /\ skills \in [Desks -> [written : Nat, projected : Nat, failed : BOOLEAN]]
  /\ turns \in Nat
DaemonOK == up \in BOOLEAN /\ life \in Nat /\ calls \in Nat
HistoryOK == history \in [stopped : SUBSET Nat, lost : SUBSET Nat, turned : SUBSET Desks]

TypeInv == RowOK /\ ProcOK /\ LiveOK /\ CallerOK /\ TaskOK /\ SkillOK /\ DaemonOK /\ HistoryOK

LEMMA TypeParts == TypeInv => TypeOK
BY DEF TypeInv, TypeOK, RowOK, ProcOK, LiveOK, CallerOK, TaskOK, SkillOK, DaemonOK, HistoryOK,
       Proc, Call, Pcs, Ops, States, Await, Loss

LEMMA SameProcs == ASSUME ProcOK, UNCHANGED <<procs, children>> PROVE ProcOK'
BY DEF ProcOK
LEMMA SameTasks == ASSUME TaskOK, UNCHANGED taskVars PROVE TaskOK'
BY DEF TaskOK, taskVars
LEMMA SameSkills == ASSUME SkillOK, UNCHANGED skillVars PROVE SkillOK'
BY DEF SkillOK, skillVars
LEMMA SameDaemon == ASSUME DaemonOK, UNCHANGED daemon PROVE DaemonOK'
BY DEF DaemonOK, daemon

LEMMA DoneType == ASSUME CallerOK, NEW a \in Actors, Done(a) PROVE CallerOK'
BY DEF CallerOK, Call, Done, Idle, NoPid, Pcs, Ops
LEMMA GotoType == ASSUME CallerOK, NEW a \in Actors, NEW pc \in Pcs, Goto(a, pc) PROVE CallerOK'
BY DEF CallerOK, Call, Goto
LEMMA BeginType ==
  ASSUME CallerOK, NEW a \in Actors, NEW pc \in Pcs, NEW op \in Ops,
         caller' = [caller EXCEPT ![a] = [Idle EXCEPT !.pc = pc, !.op = op]]
  PROVE  CallerOK'
<1>1. [Idle EXCEPT !.pc = pc, !.op = op] \in Call BY DEF Idle, Call, NoPid
<1> QED BY <1>1 DEF CallerOK

LEMMA TypeInit == Init => TypeInv
<1> SUFFICES ASSUME Init PROVE TypeInv OBVIOUS
<1>1. ProcOK BY EmptySeq DEF Init, ProcOK
<1>2. LiveOK BY DEF Init, LiveOK, NotStarted, States, NoPid
<1>3. CallerOK
  <2> DEFINE first == [Idle EXCEPT !.pc = "plan", !.op = "boot"]
  <2>1. Idle \in Call /\ first \in Call BY DEF Idle, Call, Pcs, Ops, NoPid
  <2>2. caller = [[a \in Actors |-> Idle] EXCEPT !["main"] = first] BY DEF Init
  <2> HIDE DEF first
  <2> QED BY <2>1, <2>2 DEF CallerOK
<1>4. TaskOK BY DEF Init, TaskOK
<1>5. SkillOK BY DEF Init, SkillOK, NotRefreshing
<1>6. RowOK /\ DaemonOK BY DEF Init, RowOK, DaemonOK
<1>7. HistoryOK BY DEF Init, HistoryOK, NoHistory
<1> QED BY <1>1, <1>2, <1>3, <1>4, <1>5, <1>6, <1>7 DEF TypeInv

LEMMA StartTypes ==
  ASSUME TypeInv, NEW a \in Actors, StartStep(a)
  PROVE  TypeInv'
<1>1. CASE Plan(a)
  <2>1. CallerOK' BY <1>1, GotoType, DoneType DEF Plan, TypeInv, Pcs
  <2> QED BY <1>1, <2>1, SameProcs, SameTasks, SameSkills, SameDaemon
          DEF Plan, TypeInv, childVars, RowOK, LiveOK, HistoryOK
<1>2. CASE Claim(a)
  <2>0. live.generation + 1 \in Nat BY DEF TypeInv, LiveOK
  <2>1. LiveOK'
    <3>1. live' = live \/ live' = [live EXCEPT !.state = "STARTING", !.generation = live.generation + 1]
      BY <1>2, Zenon DEF Claim
    <3> QED BY <2>0, <3>1 DEF TypeInv, LiveOK, States
  <2>2. CallerOK'
    <3> DEFINE claimed == [caller[a] EXCEPT !.pc = "spawn", !.gen = live.generation + 1]
    <3>1. Done(a) \/ caller' = [caller EXCEPT ![a] = claimed] BY <1>2, Zenon DEF Claim
    <3>2. claimed \in Call BY <2>0 DEF TypeInv, CallerOK, Call, Pcs
    <3> QED BY <3>1, <3>2, DoneType DEF TypeInv, CallerOK
  <2> QED BY <1>2, <2>1, <2>2, SameProcs, SameTasks, SameSkills, SameDaemon
          DEF Claim, TypeInv, RowOK, HistoryOK
<1>3. CASE SpawnFails(a)
  <2>1. LiveOK' BY <1>3 DEF SpawnFails, TypeInv, LiveOK, NotStarted, NoPid, States
  <2> QED BY <1>3, <2>1, DoneType, SameProcs, SameTasks, SameSkills, SameDaemon
          DEF SpawnFails, TypeInv, RowOK, HistoryOK
<1>4. CASE Spawn(a)
  <2> DEFINE pid == Len(procs) + 1
             next == IF live.generation = caller[a].gen THEN "record" ELSE "orphan"
  <2>1. procs' = Append(procs, [life |-> life, alive |-> TRUE]) /\ UNCHANGED children
    BY <1>4 DEF Spawn
  <2>2. [life |-> life, alive |-> TRUE] \in Proc BY DEF TypeInv, DaemonOK, Proc
  <2>3. ProcOK' BY <2>1, <2>2, Added DEF TypeInv, ProcOK
  <2>4. pid \in Nat BY LenProperties DEF TypeInv, ProcOK
  <2>5. LiveOK' BY <1>4, <2>4 DEF Spawn, TypeInv, LiveOK
  <2>6. CallerOK'
    <3> DEFINE spawned == [caller[a] EXCEPT !.pid = pid, !.pc = next]
    <3>1. caller' = [caller EXCEPT ![a] = spawned] BY <1>4, Zenon DEF Spawn
    <3>2. spawned \in Call BY <2>4 DEF TypeInv, CallerOK, Call, Pcs
    <3> QED BY <3>1, <3>2 DEF TypeInv, CallerOK
  <2> QED BY <1>4, <2>3, <2>5, <2>6, SameTasks, SameSkills, SameDaemon
          DEF Spawn, TypeInv, RowOK, HistoryOK
<1>5. CASE EndOrphan(a)
  <2>1. ProcOK' BY <1>5, KillType DEF EndOrphan, TypeInv, ProcOK
  <2> QED BY <1>5, <2>1, DoneType, SameTasks, SameSkills, SameDaemon
          DEF EndOrphan, TypeInv, RowOK, LiveOK, HistoryOK
<1>6. CASE Record(a)
  <2>1. ProcOK' BY <1>6 DEF Record, TypeInv, ProcOK, CallerOK, Call
  <2>2. TaskOK' 
    <3>1. caller[a] \in Call BY DEF TypeInv, CallerOK
    <3>2. [gen |-> caller[a].gen, pc |-> "poll"] \in Await /\ caller[a].gen \in Nat
      BY <3>1 DEF Await, Call
    <3> QED BY <1>6, <3>2 DEF Record, Watch, TypeInv, TaskOK
  <2> QED BY <1>6, <2>1, <2>2, DoneType, SameSkills, SameDaemon
          DEF Record, TypeInv, RowOK, LiveOK, HistoryOK
<1> QED BY <1>1, <1>2, <1>3, <1>4, <1>5, <1>6 DEF StartStep

LEMMA StopTypes == ASSUME TypeInv, NEW a \in Actors, StopStep(a) PROVE TypeInv'
<1>0. AfterStop(a) \in Pcs BY DEF AfterStop, Pcs
<1>1. CASE StopTakes(a)
  <2> DEFINE taken == [caller[a] EXCEPT !.pc = "terminate", !.pid = live.child]
  <2>0. live.generation \in Nat /\ live.generation + 1 \in Nat /\ live.child \in Nat
    BY DEF TypeInv, LiveOK
  <2>1. LiveOK' BY <1>1, <2>0 DEF StopTakes, TypeInv, LiveOK, NotStarted, States, NoPid
  <2>2. CallerOK'
    <3>1. Goto(a, AfterStop(a)) \/ caller' = [caller EXCEPT ![a] = taken]
      BY <1>1, Zenon DEF StopTakes
    <3>2. taken \in Call BY <2>0 DEF TypeInv, CallerOK, Call, Pcs
    <3> QED BY <1>0, <3>1, <3>2, GotoType DEF TypeInv, CallerOK
  <2>3. HistoryOK'
    <3>1. history' = history
          \/ history' = [history EXCEPT !.stopped = history.stopped \cup {live.generation}]
      BY <1>1 DEF StopTakes, TypeInv, HistoryOK
    <3> QED BY <2>0, <3>1 DEF TypeInv, HistoryOK
  <2> QED BY <1>1, <2>1, <2>2, <2>3, SameProcs, SameTasks, SameSkills, SameDaemon
          DEF StopTakes, TypeInv, RowOK
<1>2. CASE StopEnds(a)
  <2> DEFINE ended == [caller[a] EXCEPT !.pc = AfterStop(a), !.pid = NoPid]
  <2>1. ended \in Call BY <1>0 DEF TypeInv, CallerOK, Call, NoPid
  <2>2. caller' = [caller EXCEPT ![a] = ended] BY <1>2, Zenon DEF StopEnds
  <2>3. CallerOK' BY <2>1, <2>2 DEF TypeInv, CallerOK
  <2>4. ProcOK' BY <1>2, KillType DEF StopEnds, TypeInv, ProcOK
  <2> QED BY <1>2, <2>3, <2>4, SameTasks, SameSkills, SameDaemon
          DEF StopEnds, TypeInv, RowOK, LiveOK, HistoryOK
<1> QED BY <1>1, <1>2 DEF StopStep

LEMMA RouteTypes ==
  ASSUME TypeInv, NEW r \in Routes, ProvisionStep(r) \/ Setup(r) \/ Retry(r)
  PROVE  TypeInv'
<1>0. r \in Actors BY DEF Actors
<1>1. CallerOK'
  <2>1. CASE ProvisionStep(r)
    BY <1>0, <2>1, GotoType, DoneType
    DEF ProvisionStep, ProbeRefuses, ClaimRow, StepsFail, LandAvailable, TypeInv, Pcs
  <2>2. CASE Setup(r) \/ Retry(r)
    BY <1>0, <2>2, BeginType DEF Setup, Retry, TypeInv, Pcs, Ops
  <2> QED BY <2>1, <2>2
<1>2. RowOK' /\ UNCHANGED <<procs, live, children, history>> /\ UNCHANGED taskVars
      /\ UNCHANGED skillVars
  BY DEF ProvisionStep, ProbeRefuses, ClaimRow, StepsFail, LandAvailable, Setup, Retry, TypeInv,
         RowOK, childVars
<1>3. DaemonOK'
  BY DEF ProvisionStep, ProbeRefuses, ClaimRow, StepsFail, LandAvailable, Setup, Retry, TypeInv,
         DaemonOK, daemon
<1> QED BY <1>1, <1>2, <1>3, SameProcs, SameTasks, SameSkills DEF TypeInv, LiveOK, HistoryOK

\* A loss, whoever reports it.
LEMMA LoseTypes ==
  ASSUME TypeInv, NEW gen \in Nat, Lose(gen) \/ UNCHANGED <<live, losing, children, history>>,
         UNCHANGED procs
  PROVE  LiveOK' /\ losing' \subseteq Loss /\ HistoryOK' /\ ProcOK'
<1>1. CASE Lost(gen)
  <2>1. live.child \in Nat BY DEF TypeInv, LiveOK
  <2>2. LiveOK' BY <1>1 DEF Lost, NotStarted, LiveOK, States, NoPid
  <2>3. [gen |-> gen, pid |-> live.child, pc |-> "unit"] \in Loss BY <2>1 DEF Loss
  <2>4. losing' \subseteq Loss BY <1>1, <2>3 DEF Lost, TypeInv, TaskOK
  <2>5. HistoryOK' BY <1>1 DEF Lost, TypeInv, HistoryOK
  <2>6. ProcOK' BY <1>1 DEF Lost, TypeInv, ProcOK
  <2> QED BY <2>2, <2>4, <2>5, <2>6
<1>2. CASE UNCHANGED <<live, losing, children, history>>
  BY <1>2 DEF TypeInv, LiveOK, TaskOK, HistoryOK, ProcOK
<1> QED BY <1>1, <1>2 DEF Lose

LEMMA TaskTypes ==
  ASSUME TypeInv,
         (\E gen \in watching : Supervise(gen)) \/ LoseStep \/ AwaitStep \/ \E w \in awaiting : Readies(w)
  PROVE  TypeInv'
<1>1. CASE \E gen \in watching : Supervise(gen)
  <2>1. PICK gen \in watching : Supervise(gen) BY <1>1
  <2>2. gen \in Nat BY DEF TypeInv, TaskOK
  <2>3. LiveOK' /\ losing' \subseteq Loss /\ HistoryOK' /\ ProcOK'
    BY <2>1, <2>2, LoseTypes DEF Supervise
  <2>4. TaskOK' BY <2>1, <2>3 DEF Supervise, TypeInv, TaskOK
  <2> QED BY <2>1, <2>3, <2>4, SameSkills, SameDaemon DEF Supervise, TypeInv, RowOK, CallerOK
<1>2. CASE LoseStep
  <2>1. PICK l \in losing : LoseRecords(l) \/ LoseEnds(l) BY <1>2 DEF LoseStep
  <2>2. TaskOK'
    <3>1. [l EXCEPT !.pc = "terminate"] \in Loss BY DEF TypeInv, TaskOK, Loss
    <3> QED BY <2>1, <3>1 DEF LoseRecords, LoseEnds, TypeInv, TaskOK
  <2>3. ProcOK' BY <2>1, KillType DEF LoseRecords, LoseEnds, TypeInv, ProcOK, childVars
  <2> QED BY <2>1, <2>2, <2>3, SameSkills, SameDaemon
          DEF LoseRecords, LoseEnds, TypeInv, RowOK, LiveOK, CallerOK, HistoryOK, childVars
<1>3. CASE AwaitStep \/ \E w \in awaiting : Readies(w)
  <2>1. PICK w \in awaiting : PollEnds(w) \/ DeadlinePasses(w) \/ ReadyRecords(w)
                                \/ KeysAnswered(w) \/ Readies(w)
    BY <1>3 DEF AwaitStep
  <2>2. w \in Await /\ w.gen \in Nat BY DEF TypeInv, TaskOK, Await
  <2>3. CASE PollEnds(w)
    <3>1. TaskOK' BY <2>3 DEF PollEnds, TypeInv, TaskOK
    <3> QED BY <2>3, <3>1, SameProcs, SameSkills, SameDaemon
            DEF PollEnds, TypeInv, RowOK, LiveOK, CallerOK, HistoryOK, childVars
  <2>4. CASE DeadlinePasses(w)
    <3>1. LiveOK' /\ losing' \subseteq Loss /\ HistoryOK' /\ ProcOK'
      BY <2>2, <2>4, LoseTypes DEF DeadlinePasses
    <3>2. TaskOK' BY <2>4, <3>1 DEF DeadlinePasses, TypeInv, TaskOK
    <3> QED BY <2>4, <3>1, <3>2, SameSkills, SameDaemon
            DEF DeadlinePasses, TypeInv, RowOK, CallerOK
  <2>5. CASE ReadyRecords(w)
    <3>1. [w EXCEPT !.pc = "keys"] \in Await BY <2>2 DEF Await
    <3>2. TaskOK' BY <2>5, <3>1 DEF ReadyRecords, TypeInv, TaskOK
    <3> QED BY <2>5, <3>2, SameProcs, SameSkills, SameDaemon
            DEF ReadyRecords, TypeInv, RowOK, LiveOK, CallerOK, HistoryOK, childVars
  <2>6. CASE KeysAnswered(w)
    <3>1. LiveOK' BY <2>6 DEF KeysAnswered, TypeInv, LiveOK
    <3>2. TaskOK' BY <2>6 DEF KeysAnswered, TypeInv, TaskOK
    <3> QED BY <2>6, <3>1, <3>2, SameProcs, SameSkills, SameDaemon
            DEF KeysAnswered, TypeInv, RowOK, CallerOK, HistoryOK
  <2>7. CASE Readies(w)
    <3>1. [w EXCEPT !.pc = "unit"] \in Await BY <2>2 DEF Await
    <3>2. TaskOK' BY <2>7, <3>1 DEF Readies, TypeInv, TaskOK
    <3>3. LiveOK' BY <2>7 DEF Readies, TypeInv, LiveOK, States
    <3> QED BY <2>7, <3>2, <3>3, SameProcs, SameSkills, SameDaemon
            DEF Readies, TypeInv, RowOK, CallerOK, HistoryOK
  <2> QED BY <2>1, <2>3, <2>4, <2>5, <2>6, <2>7
<1> QED BY <1>1, <1>2, <1>3

LEMMA RefreshTypes ==
  ASSUME TypeInv, NEW d \in Desks, TurnEnds(d) \/ RefreshStep(d)
  PROVE  TypeInv'
<1> DEFINE Refreshing == [pc : {"none", "fetch", "write"}, queued : BOOLEAN, fetched : Nat]
<1>1. refresh[d] \in Refreshing /\ NotRefreshing \in Refreshing
  BY DEF TypeInv, SkillOK, NotRefreshing
<1>2. Coalesced(d) \in Refreshing /\ Looped(d) \in Refreshing
  <2>1. [NotRefreshing EXCEPT !.pc = "fetch"] \in Refreshing BY <1>1
  <2>2. [refresh[d] EXCEPT !.queued = TRUE] \in Refreshing BY <1>1
  <2> QED BY <1>1, <2>1, <2>2, Zenon DEF Coalesced, Looped
<1>3. [refresh[d] EXCEPT !.pc = "write", !.fetched = skills[d].written] \in Refreshing
  BY <1>1 DEF TypeInv, SkillOK
<1>4. PICK to \in Refreshing : refresh' = [refresh EXCEPT ![d] = to]
  BY <1>2, <1>3, Zenon DEF TurnEnds, RefreshStep, Fetches, ProjectionFails, Projects, Refresh
<1> HIDE DEF Refreshing
<1>5. refresh' \in [Desks -> Refreshing]
  BY <1>4 DEF TypeInv, SkillOK, Refreshing
<1>6. skills' \in [Desks -> [written : Nat, projected : Nat, failed : BOOLEAN]]
  <2>1. CASE TurnEnds(d) BY <2>1 DEF TurnEnds, TypeInv, SkillOK
  <2>2. CASE Fetches(d) BY <2>2 DEF Fetches, TypeInv, SkillOK
  <2>3. CASE ProjectionFails(d) BY <2>3 DEF ProjectionFails, TypeInv, SkillOK
  <2>4. CASE Projects(d)
    <3>1. refresh[d].fetched \in Nat /\ skills[d].written \in Nat
      BY <1>1 DEF TypeInv, SkillOK, Refreshing
    <3>2. skills' = [skills EXCEPT ![d] =
            [skills[d] EXCEPT !.projected = refresh[d].fetched, !.failed = FALSE]]
      BY <2>4, Zenon DEF Projects
    <3> QED BY <3>1, <3>2 DEF TypeInv, SkillOK
  <2> QED BY <2>1, <2>2, <2>3, <2>4 DEF RefreshStep
<1>7. turns' \in Nat /\ HistoryOK'
  BY DEF TurnEnds, RefreshStep, Fetches, ProjectionFails, Projects, TypeInv, SkillOK, HistoryOK
<1>8. UNCHANGED <<row, procs, live, children, caller>> /\ UNCHANGED taskVars /\ UNCHANGED daemon
  BY DEF TurnEnds, RefreshStep, Fetches, ProjectionFails, Projects, childVars
<1> QED BY <1>5, <1>6, <1>7, <1>8, SameProcs, SameTasks, SameDaemon
        DEF TypeInv, RowOK, LiveOK, CallerOK, SkillOK, Refreshing

\* What a daemon's end takes is typed like what it starts with.
LEMMA EndsTypes ==
  ASSUME TypeInv, Ends
  PROVE  RowOK' /\ LiveOK' /\ CallerOK' /\ TaskOK' /\ SkillOK' /\ DaemonOK' /\ HistoryOK'
<1>1. LiveOK' BY DEF Ends, LiveOK, NotStarted, States, NoPid
<1>2. CallerOK'
  <2>1. Idle \in Call BY DEF Idle, Call, Pcs, Ops, NoPid
  <2> QED BY <2>1 DEF Ends, CallerOK
<1>3. SkillOK' BY DEF Ends, TypeInv, SkillOK, NotRefreshing
<1>4. HistoryOK' BY DEF Ends, HistoryOK, NoHistory
<1> QED BY <1>1, <1>2, <1>3, <1>4 DEF Ends, TypeInv, RowOK, TaskOK, DaemonOK

LEMMA LifeTypes ==
  ASSUME TypeInv, ChildExits \/ Quit \/ Leave \/ Crash \/ Boot
  PROVE  TypeInv'
<1>1. CASE ChildExits
  <2>1. ProcOK' BY <1>1, KillType DEF ChildExits, TypeInv, ProcOK
  <2> QED BY <1>1, <2>1, SameTasks, SameSkills, SameDaemon
          DEF ChildExits, TypeInv, RowOK, LiveOK, CallerOK, HistoryOK
<1>2. CASE Quit
  <2>1. CallerOK' BY <1>2, BeginType DEF Quit, TypeInv, Pcs, Ops, Actors
  <2> QED BY <1>2, <2>1, SameProcs, SameTasks, SameSkills, SameDaemon
          DEF Quit, TypeInv, RowOK, LiveOK, HistoryOK, childVars
<1>3. CASE Leave
  <2> DEFINE S == {p \in DOMAIN procs : procs[p].life = life}
  <2>1. procs' = [p \in DOMAIN procs |->
                    IF p \in S THEN [procs[p] EXCEPT !.alive = FALSE] ELSE procs[p]]
    BY <1>3 DEF Leave
  <2>2. procs' \in Seq(Proc) BY <2>1, Swept DEF TypeInv, ProcOK
  <2>3. ProcOK' BY <1>3, <2>2 DEF Leave, Ends, TypeInv, ProcOK
  <2> QED BY <1>3, <2>3, EndsTypes DEF Leave, TypeInv
<1>4. CASE Crash
  <2>1. ProcOK' BY <1>4, SameProcs DEF Crash, Ends, TypeInv
  <2> QED BY <1>4, <2>1, EndsTypes DEF Crash, TypeInv
<1>5. CASE Boot
  <2>1. procs' \in Seq(Proc) BY <1>5, Swept DEF Boot, TypeInv, ProcOK
  <2>2. ProcOK' BY <1>5, <2>1 DEF Boot, ProcOK
  <2>3. CallerOK' BY <1>5, BeginType DEF Boot, TypeInv, Pcs, Ops, Actors
  <2> QED BY <1>5, <2>2, <2>3, SameTasks, SameSkills
          DEF Boot, TypeInv, RowOK, LiveOK, HistoryOK, DaemonOK
<1> QED BY <1>1, <1>2, <1>3, <1>4, <1>5

LEMMA NextTypes == TypeInv /\ [Next]_vars => TypeInv'
<1> SUFFICES ASSUME TypeInv, [Next]_vars PROVE TypeInv' OBVIOUS
<1>1. CASE \E a \in Actors : CallerStep(a)
  <2>1. PICK a \in Actors : CallerStep(a) BY <1>1
  <2> QED BY <2>1, StartTypes, StopTypes, RouteTypes DEF CallerStep
<1>2. CASE \E r \in Routes : Setup(r) \/ Retry(r) BY <1>2, RouteTypes
<1>3. CASE (\E gen \in watching : Supervise(gen)) \/ LoseStep \/ AwaitStep
           \/ \E w \in awaiting : Readies(w)
  BY <1>3, TaskTypes
<1>4. CASE \E d \in Desks : TurnEnds(d) \/ RefreshStep(d) BY <1>4, RefreshTypes
<1>5. CASE ChildExits \/ Quit \/ Leave \/ Crash \/ Boot BY <1>5, LifeTypes
<1>6. CASE UNCHANGED vars
  BY <1>6, SameProcs, SameTasks, SameSkills, SameDaemon
  DEF vars, childVars, taskVars, skillVars, daemon, TypeInv, RowOK, LiveOK, CallerOK, HistoryOK
<1> QED BY <1>1, <1>2, <1>3, <1>4, <1>5, <1>6 DEF Next

\* Every variable keeps its kind, whatever overlaps.
THEOREM Typing == Spec => []TypeOK
<1>1. TypeInv /\ [Next]_vars => TypeInv' BY NextTypes
<1> QED BY <1>1, TypeInit, TypeParts, PTL DEF Spec

-------------------------------------------------------------------------------
(* The inductive invariant *)

\* No number is given twice: attempts are numbered up to the live one, processes up to the
\* last, and none is of a later life.
Numbered ==
  /\ live.child <= Len(procs)
  /\ \A a \in Actors : caller[a].gen <= live.generation /\ caller[a].pid <= Len(procs)
  /\ \A w \in awaiting : w.gen <= live.generation
  /\ \A l \in losing : l.pid <= Len(procs)
  /\ \A p \in DOMAIN procs : procs[p].life <= life

\* An attempt is launched by one caller, before anybody waits for it; until its child is
\* spawned the live state holds none, and then it holds that one for as long as it lasts.
LaunchOf(a) ==
  /\ \A b \in Actors : caller[b].pc \in {"spawn", "record"} /\ caller[b].gen = caller[a].gen => b = a
  /\ \A w \in awaiting : w.gen # caller[a].gen
  /\ caller[a].pc = "spawn" /\ caller[a].gen = live.generation => live.child = NoPid /\ Live("STARTING")
  /\ caller[a].pc = "record" =>
       /\ caller[a].pid # NoPid
       /\ caller[a].gen = live.generation /\ StartingOrReady => live.child = caller[a].pid
Launch == \A a \in Actors : caller[a].pc \in {"spawn", "record"} => LaunchOf(a)

\* A child is held by an attempt that lasts, and by nobody who is about to end it.
Held ==
  /\ ~StartingOrReady => live.child = NoPid
  /\ live.child # NoPid =>
       /\ \A a \in Actors : caller[a].pc \in {"terminate", "orphan"} => caller[a].pid # live.child
       /\ \A l \in losing : l.pid # live.child

\* Whoever may find an attempt ready waits for a child that is on record.
Recorded ==
  /\ NoPid \notin children
  /\ \A w \in awaiting : w.pc = "poll" /\ w.gen = live.generation /\ StartingOrReady =>
       live.child \in children

\* An attempt that was stopped is behind the live one, and one that was lost is over.
Over ==
  /\ \A g \in history.stopped : g < live.generation
  /\ \A g \in history.lost : g < live.generation \/ (g = live.generation /\ ~StartingOrReady)

Down == ~up => live = NotStarted(0)

\* NoOrphan without the set of the processes somebody is about to end.
Handled(p) ==
  \/ \E a \in Actors : caller[a].pc \in {"terminate", "orphan"} /\ caller[a].pid = p
  \/ \E l \in losing : l.pid = p
NoneLeft == \A p \in DOMAIN procs : up /\ procs[p].alive /\ procs[p].life = life =>
              p = live.child \/ Handled(p)

LEMMA OrphanParts == NoOrphan <=> NoneLeft
<1>1. \A p : p \in Ending <=> Handled(p) BY DEF Ending, Handled
<1> QED BY <1>1 DEF NoOrphan, NoneLeft

Inv == Numbered /\ Launch /\ Held /\ Recorded /\ Over /\ Down /\ NoneLeft /\ ReadyBacked
       /\ StoppedNotLost

\* A caller that moves without launching, stopping or ending anything.
LEMMA QuietInv ==
  ASSUME TypeInv, Inv, TypeInv', NEW a \in Actors, NEW c \in Call, caller' = [caller EXCEPT ![a] = c],
         c.pc \notin {"spawn", "record", "terminate", "orphan"},
         caller[a].pc \notin {"terminate", "orphan"},
         c.gen <= live.generation, c.pid <= Len(procs),
         UNCHANGED <<procs, children, live, awaiting, losing, up, life, history>>
  PROVE  Inv'
<1> USE DEF Inv
<1>1. caller' \in [Actors -> Call] /\ caller'[a] = c /\ \A b \in Actors : b # a => caller'[b] = caller[b]
  BY DEF TypeInv, CallerOK
<1>2. Numbered' BY <1>1 DEF Numbered
<1>3. Launch' BY <1>1 DEF Launch, LaunchOf, StartingOrReady, Live
<1>4. Held' BY <1>1 DEF Held, StartingOrReady
<1>5. NoneLeft' BY <1>1 DEF NoneLeft, Handled
<1> QED BY <1>2, <1>3, <1>4, <1>5 DEF Recorded, Over, Down, ReadyBacked, Live, StartingOrReady, StoppedNotLost

LEMMA DoneInv ==
  ASSUME TypeInv, Inv, TypeInv', NEW a \in Actors, Done(a), caller[a].pc \notin {"terminate", "orphan"},
         UNCHANGED <<procs, children, live, awaiting, losing, up, life, history>>
  PROVE  Inv'
<1>1. Idle \in Call /\ Idle.pc = "idle" /\ Idle.gen = 0 /\ Idle.pid = 0
  BY DEF Idle, Call, Pcs, Ops, NoPid
<1>2. live.generation \in Nat /\ Len(procs) \in Nat
  BY LenProperties DEF TypeInv, LiveOK, ProcOK
<1>3. Idle.gen <= live.generation /\ Idle.pid <= Len(procs) BY <1>1, <1>2
<1> QED BY <1>1, <1>3, QuietInv DEF Done

LEMMA GotoInv ==
  ASSUME TypeInv, Inv, TypeInv', NEW a \in Actors,
         NEW pc \in Pcs \ {"spawn", "record", "terminate", "orphan"}, Goto(a, pc),
         caller[a].pc \notin {"terminate", "orphan"},
         UNCHANGED <<procs, children, live, awaiting, losing, up, life, history>>
  PROVE  Inv'
<1> DEFINE c == [caller[a] EXCEPT !.pc = pc]
<1>1. c \in Call /\ c.pc = pc /\ c.gen = caller[a].gen /\ c.pid = caller[a].pid
  BY DEF TypeInv, CallerOK, Call
<1>2. c.gen <= live.generation /\ c.pid <= Len(procs) BY <1>1 DEF Inv, Numbered
<1>3. caller' = [caller EXCEPT ![a] = c] BY Zenon DEF Goto
<1> HIDE DEF c
<1> QED BY <1>1, <1>2, <1>3, QuietInv

LEMMA BeginInv ==
  ASSUME TypeInv, Inv, TypeInv', NEW a \in Actors, NEW op \in Ops,
         NEW pc \in Pcs \ {"spawn", "record", "terminate", "orphan"},
         caller' = [caller EXCEPT ![a] = [Idle EXCEPT !.pc = pc, !.op = op]],
         caller[a].pc \notin {"terminate", "orphan"},
         UNCHANGED <<procs, children, live, awaiting, losing, up, life, history>>
  PROVE  Inv'
<1> DEFINE c == [Idle EXCEPT !.pc = pc, !.op = op]
<1>1. c \in Call /\ c.pc = pc /\ c.gen = 0 /\ c.pid = 0
  BY DEF Idle, Call, NoPid
<1>2. live.generation \in Nat /\ Len(procs) \in Nat
  BY LenProperties DEF TypeInv, LiveOK, ProcOK
<1>3. c.gen <= live.generation /\ c.pid <= Len(procs) BY <1>1, <1>2
<1> HIDE DEF c
<1>4. caller' = [caller EXCEPT ![a] = c] BY DEF c
<1> QED BY <1>1, <1>3, <1>4, QuietInv

LEMMA ClaimInv == ASSUME TypeInv, Inv, TypeInv', NEW a \in Actors, Claim(a) PROVE Inv'
<1> USE DEF Inv
<1> DEFINE gen == live.generation + 1
<1>1. CASE StartingOrReady
  <2>1. Done(a) /\ caller[a].pc = "claim"
        /\ UNCHANGED <<procs, children, live, awaiting, losing, up, life, history>>
    BY <1>1 DEF Claim, At, taskVars, daemon
  <2> QED BY <2>1, DoneInv
<1>2. CASE ~StartingOrReady
  <2>1. /\ live' = [live EXCEPT !.state = "STARTING", !.generation = gen]
        /\ caller' = [caller EXCEPT ![a] = [caller[a] EXCEPT !.pc = "spawn", !.gen = gen]]
        /\ UNCHANGED <<procs, children, awaiting, losing, up, life, history>>
    BY <1>2 DEF Claim, taskVars, daemon
  <2>2. /\ live'.state = "STARTING" /\ live'.generation = gen /\ live'.child = live.child
        /\ live'.keys = live.keys /\ live.child = NoPid /\ live.generation \in Nat
    BY <1>2, <2>1 DEF TypeInv, LiveOK, Held
  <2>3. /\ caller'[a].pc = "spawn" /\ caller'[a].gen = gen /\ caller'[a].pid = caller[a].pid
        /\ \A b \in Actors : b # a => caller'[b] = caller[b]
        /\ caller[a].pc = "claim"
        /\ \A b \in Actors : caller[b].gen \in Nat /\ caller[b].pid \in Nat
    BY <1>2, <2>1 DEF Claim, At, TypeInv, CallerOK, Call
  <2>4. Numbered' BY <2>1, <2>2, <2>3 DEF Numbered, TypeInv, TaskOK, Await
  <2>5. Launch' BY <2>1, <2>2, <2>3 DEF Launch, LaunchOf, Numbered, StartingOrReady, Live, TypeInv, TaskOK, Await
  <2>6. Held' BY <2>1, <2>2, <2>3 DEF Held, StartingOrReady
  <2>7. NoneLeft' BY <2>1, <2>2, <2>3 DEF NoneLeft, Handled
  <2>8. Recorded' BY <2>1, <2>2 DEF Recorded, Numbered, StartingOrReady, TypeInv, TaskOK, Await
  <2>9. Over' BY <2>1, <2>2 DEF Over, StartingOrReady, TypeInv, HistoryOK
  <2>10. Down' /\ StoppedNotLost' BY <1>2, <2>1 DEF Down, StoppedNotLost, Claim, At
  <2>11. ReadyBacked' BY <1>2, <2>2 DEF ReadyBacked, Live, StartingOrReady
  <2> QED BY <2>4, <2>5, <2>6, <2>7, <2>8, <2>9, <2>10, <2>11
<1> QED BY <1>1, <1>2

LEMMA SpawnFailsInv == ASSUME TypeInv, Inv, TypeInv', NEW a \in Actors, SpawnFails(a) PROVE Inv'
<1> USE DEF Inv
<1>0. Idle \in Call /\ Idle.pc = "idle" /\ Idle.gen = 0 /\ Idle.pid = 0
  BY DEF Idle, Call, Pcs, Ops, NoPid
<1>1. CASE live.generation # caller[a].gen
  <2>1. Done(a) /\ caller[a].pc = "spawn"
        /\ UNCHANGED <<procs, children, live, awaiting, losing, up, life, history>>
    BY <1>1 DEF SpawnFails, At, taskVars, daemon
  <2> QED BY <2>1, DoneInv
<1>2. CASE live.generation = caller[a].gen
  <2>1. /\ live' = NotStarted(live.generation) /\ caller' = [caller EXCEPT ![a] = Idle]
        /\ UNCHANGED <<procs, children, awaiting, losing, up, life, history>> /\ up
        /\ caller[a].pc = "spawn"
    BY <1>2 DEF SpawnFails, At, Done, taskVars, daemon
  <2>2. /\ live'.state = "NOT_STARTED" /\ live'.generation = live.generation
        /\ live'.child = NoPid /\ live'.keys = {} /\ live.generation \in Nat /\ live.child = NoPid
    BY <1>2, <2>1 DEF TypeInv, LiveOK, NotStarted, Launch, LaunchOf
  <2>3. caller'[a] = Idle /\ \A b \in Actors : b # a => caller'[b] = caller[b]
    BY <2>1 DEF TypeInv, CallerOK
  <2>4. Numbered' BY <1>0, <2>1, <2>2, <2>3 DEF Numbered, TypeInv, ProcOK, NoPid
  <2>5. Launch' BY <1>0, <1>2, <2>1, <2>2, <2>3 DEF Launch, LaunchOf, StartingOrReady, Live
  <2>6. Held' BY <2>2 DEF Held, StartingOrReady
  <2>7. NoneLeft' BY <1>0, <2>1, <2>2, <2>3 DEF NoneLeft, Handled
  <2>8. Recorded' /\ Over' /\ Down' /\ ReadyBacked' /\ StoppedNotLost'
    BY <2>1, <2>2 DEF Recorded, Over, Down, ReadyBacked, Live, StartingOrReady, StoppedNotLost
  <2> QED BY <2>4, <2>5, <2>6, <2>7, <2>8
<1> QED BY <1>1, <1>2

LEMMA SpawnInv == ASSUME TypeInv, Inv, TypeInv', NEW a \in Actors, Spawn(a) PROVE Inv'
<1> USE DEF Inv
<1> DEFINE pid == Len(procs) + 1
           new == [life |-> life, alive |-> TRUE]
           mine == live.generation = caller[a].gen
           c == [caller[a] EXCEPT !.pid = pid, !.pc = IF mine THEN "record" ELSE "orphan"]
<1>1. /\ procs' = Append(procs, new) /\ caller' = [caller EXCEPT ![a] = c]
      /\ live' = IF mine THEN [live EXCEPT !.child = pid] ELSE live
      /\ UNCHANGED <<children, awaiting, losing, up, life, history>> /\ up /\ caller[a].pc = "spawn"
  BY Zenon DEF Spawn, At, taskVars, daemon
<1>2. /\ new \in Proc /\ procs \in Seq(Proc) /\ Len(procs) \in Nat /\ life \in Nat
      /\ live.generation \in Nat /\ live.child \in Nat /\ pid \in Nat /\ pid # NoPid
  BY LenProperties DEF TypeInv, DaemonOK, ProcOK, LiveOK, Proc, NoPid
<1>3. /\ DOMAIN procs \subseteq DOMAIN procs' /\ pid \in DOMAIN procs' \ DOMAIN procs
      /\ \A p \in DOMAIN procs' : p \in DOMAIN procs \/ p = pid
      /\ \A p \in DOMAIN procs : procs'[p] = procs[p]
      /\ procs'[pid] = new
  BY <1>1, <1>2, Added
<1>4. Len(procs') = pid BY <1>1, <1>2, AppendProperties
<1>5. /\ live'.state = live.state /\ live'.generation = live.generation /\ live'.keys = live.keys
      /\ mine => live'.child = pid
      /\ ~mine => live'.child = live.child
  BY <1>1 DEF TypeInv, LiveOK
<1>6. /\ caller'[a] = c /\ \A b \in Actors : b # a => caller'[b] = caller[b]
      /\ c.gen = caller[a].gen /\ c.pid = pid
      /\ mine => c.pc = "record"
      /\ ~mine => c.pc = "orphan"
      /\ \A b \in Actors : caller[b].gen \in Nat /\ caller[b].pid \in Nat
  BY <1>1 DEF TypeInv, CallerOK, Call
<1>7. mine => live.child = NoPid BY <1>1 DEF Launch, LaunchOf
<1>8. \A l \in losing : l.pid \in Nat BY DEF TypeInv, TaskOK, Loss
<1> HIDE DEF pid, new, c
<1>9. pid = Len(procs) + 1 /\ new.life = life BY DEF pid, new
<1>10. Numbered'
  BY <1>1, <1>2, <1>3, <1>4, <1>5, <1>6, <1>8, <1>9 DEF Numbered, NoPid
<1>11. Launch'
  BY <1>1, <1>2, <1>5, <1>6 DEF Launch, LaunchOf, StartingOrReady, Live
<1>12. Held'
  <2>1. CASE mine
    <3>2. \A l \in losing' : l.pid # pid BY <1>1, <1>2, <1>8, <1>9 DEF Numbered
    <3>3. \A b \in Actors : caller'[b].pc \in {"terminate", "orphan"} => caller'[b].pid # pid
      BY <1>2, <1>6, <1>9, <2>1 DEF Numbered
    <3>4. StartingOrReady' BY <2>1, <1>1, <1>5 DEF StartingOrReady, Launch, LaunchOf, Live
    <3> QED BY <1>5, <2>1, <3>2, <3>3, <3>4 DEF Held
  <2>2. CASE ~mine
    BY <1>1, <1>2, <1>5, <1>6, <1>9, <2>2 DEF Held, Numbered, StartingOrReady
  <2> QED BY <2>1, <2>2
<1>13. NoneLeft'
  <2>1. NoPid \notin DOMAIN procs BY <1>2, LenProperties DEF NoPid
  <2>2. \A p : Handled(p) => Handled(p)' BY <1>1, <1>6 DEF Handled
  <2>3. ~mine => \A p : p = pid => Handled(p)' BY <1>6 DEF Handled
  <2> QED BY <1>1, <1>3, <1>5, <1>7, <2>1, <2>2, <2>3 DEF NoneLeft
<1>14. Recorded'
  BY <1>1, <1>5 DEF Recorded, StartingOrReady, Launch, LaunchOf
<1>15. Over' /\ Down' /\ StoppedNotLost' BY <1>1, <1>5 DEF Over, Down, StartingOrReady, StoppedNotLost
<1>16. ReadyBacked'
  BY <1>1, <1>5, <1>7 DEF ReadyBacked, Live, Recorded
<1> QED BY <1>10, <1>11, <1>12, <1>13, <1>14, <1>15, <1>16

\* The end of a process, if it is one.
LEMMA KillFacts ==
  ASSUME procs \in Seq(Proc), NEW pid \in Nat,
         procs' = Kill(pid) \/ (pid = NoPid /\ UNCHANGED procs)
  PROVE  /\ DOMAIN procs' = DOMAIN procs /\ Len(procs') = Len(procs)
         /\ pid \in DOMAIN procs => ~procs'[pid].alive
         /\ \A p \in DOMAIN procs : /\ procs'[p].life = procs[p].life
                                    /\ p # pid => procs'[p] = procs[p]
<1>0. DOMAIN procs = 1..Len(procs) /\ Len(procs) \in Nat BY LenProperties
<1>1. CASE pid \in DOMAIN procs
  <2>1. procs' = Kill(pid) BY <1>0, <1>1 DEF NoPid
  <2>2. /\ procs' \in Seq(Proc) /\ DOMAIN procs' = DOMAIN procs /\ ~procs'[pid].alive
        /\ \A p \in DOMAIN procs : /\ procs'[p].life = procs[p].life
                                   /\ p # pid => procs'[p] = procs[p]
    BY <1>1, <2>1, Killed
  <2>3. DOMAIN procs' = 1..Len(procs') /\ Len(procs') \in Nat BY <2>2, LenProperties
  <2> QED BY <1>0, <2>2, <2>3
<1>2. CASE pid \notin DOMAIN procs
  <2>1. Kill(pid) = procs BY <1>2, LenProperties DEF Kill
  <2> QED BY <1>2, <2>1
<1> QED BY <1>1, <1>2

\* A process is ended by whoever had it to end, who has nothing more to do with it.
LEMMA EndedInv ==
  ASSUME TypeInv, Inv, TypeInv', NEW pid \in Nat,
         procs' = Kill(pid) \/ (pid = NoPid /\ UNCHANGED procs),
         \A b \in Actors : \/ caller'[b] = caller[b]
                           \/ /\ caller'[b].pc \notin {"spawn", "record", "terminate", "orphan"}
                              /\ caller'[b].gen <= live.generation /\ caller'[b].pid <= Len(procs),
         losing' \subseteq losing, children' \subseteq children,
         live.child \in children => live.child \in children',
         \A p : Handled(p) => p = pid \/ Handled(p)',
         UNCHANGED <<live, awaiting, up, life, history>>
  PROVE  Inv'
<1> USE DEF Inv
<1>1. /\ DOMAIN procs' = DOMAIN procs /\ Len(procs') = Len(procs)
      /\ pid \in DOMAIN procs => ~procs'[pid].alive
      /\ \A p \in DOMAIN procs : /\ procs'[p].life = procs[p].life
                                 /\ p # pid => procs'[p] = procs[p]
  BY KillFacts DEF TypeInv, ProcOK
<1>2. Numbered' BY <1>1 DEF Numbered
<1>3. Launch' BY DEF Launch, LaunchOf, StartingOrReady, Live
<1>4. Held' BY DEF Held, StartingOrReady
<1>5. NoneLeft' BY <1>1 DEF NoneLeft
<1>6. Recorded' BY DEF Recorded, StartingOrReady
<1> QED BY <1>2, <1>3, <1>4, <1>5, <1>6 DEF Over, Down, ReadyBacked, Live, StartingOrReady, StoppedNotLost

LEMMA EndOrphanInv == ASSUME TypeInv, Inv, TypeInv', NEW a \in Actors, EndOrphan(a) PROVE Inv'
<1>1. /\ procs' = Kill(caller[a].pid) /\ caller' = [caller EXCEPT ![a] = Idle]
      /\ UNCHANGED <<children, live, awaiting, losing, up, life, history>>
  BY DEF EndOrphan, Done, taskVars, daemon
<1>2. caller[a].pid \in Nat /\ Len(procs) \in Nat /\ live.generation \in Nat
  BY LenProperties DEF TypeInv, ProcOK, CallerOK, Call, LiveOK
<1>3. caller'[a] = Idle /\ \A b \in Actors : b # a => caller'[b] = caller[b]
  BY <1>1 DEF TypeInv, CallerOK
<1>4. \A p : Handled(p) => p = caller[a].pid \/ Handled(p)' BY <1>1, <1>3 DEF Handled
<1>5. Idle.pc = "idle" /\ Idle.gen <= live.generation /\ Idle.pid <= Len(procs)
  BY <1>2 DEF Idle, NoPid
<1> QED BY <1>1, <1>2, <1>3, <1>4, <1>5, EndedInv

LEMMA StopEndsInv == ASSUME TypeInv, Inv, TypeInv', NEW a \in Actors, StopEnds(a) PROVE Inv'
<1> DEFINE pid == caller[a].pid
           c == [caller[a] EXCEPT !.pc = AfterStop(a), !.pid = NoPid]
<1>1. /\ procs' = Kill(pid) \/ (pid = NoPid /\ UNCHANGED procs)
      /\ caller' = [caller EXCEPT ![a] = c] /\ children' = children \ {pid}
      /\ UNCHANGED <<live, awaiting, losing, up, life, history>> /\ caller[a].pc = "terminate"
  BY Zenon DEF StopEnds, At, taskVars, daemon
<1>2. pid \in Nat /\ Len(procs) \in Nat /\ live.generation \in Nat /\ caller[a] \in Call
  BY LenProperties DEF TypeInv, ProcOK, CallerOK, Call, LiveOK
<1>3. /\ c.pc \in {"steps", "plan", "leave"} /\ c.gen = caller[a].gen /\ c.pid = NoPid
  BY <1>2 DEF Call, AfterStop
<1>4. caller'[a] = c /\ \A b \in Actors : b # a => caller'[b] = caller[b]
  BY <1>1 DEF TypeInv, CallerOK
<1> HIDE DEF c
<1>5. \A p : Handled(p) => p = pid \/ Handled(p)' BY <1>1, <1>4 DEF Handled
<1>6. c.gen <= live.generation /\ c.pid <= Len(procs) BY <1>2, <1>3 DEF Inv, Numbered, NoPid
<1>7. live.child \in children => live.child \in children'
  BY <1>1 DEF Inv, Held, Recorded
<1> QED BY <1>1, <1>2, <1>3, <1>4, <1>5, <1>6, <1>7, EndedInv

LEMMA LoseEndsInv == ASSUME TypeInv, Inv, TypeInv', NEW l \in losing, LoseEnds(l) PROVE Inv'
<1>1. /\ \/ procs' = Kill(l.pid)
         \/ l.pid = NoPid /\ UNCHANGED procs
      /\ losing' = losing \ {l}
      /\ UNCHANGED <<children, live, caller, awaiting, up, life, history>>
  BY Zenon DEF LoseEnds, daemon
<1>2. l.pid \in Nat BY DEF TypeInv, TaskOK, Loss
<1>3. \A p : Handled(p) => p = l.pid \/ Handled(p)' BY <1>1 DEF Handled
<1> QED BY <1>1, <1>2, <1>3, EndedInv

LEMMA ChildExitsInv == ASSUME TypeInv, Inv, TypeInv', ChildExits PROVE Inv'
<1>1. procs' = Kill(live.child) /\ live.child \in Nat
      /\ UNCHANGED <<children, live, caller, awaiting, losing, up, life, history>>
  BY DEF ChildExits, taskVars, daemon, TypeInv, LiveOK
<1>2. \A p : Handled(p) => Handled(p)' BY <1>1 DEF Handled
<1> QED BY <1>1, <1>2, EndedInv

LEMMA RecordInv == ASSUME TypeInv, Inv, TypeInv', NEW a \in Actors, Record(a) PROVE Inv'
<1> USE DEF Inv
<1> DEFINE w == [gen |-> caller[a].gen, pc |-> "poll"]
<1>1. /\ children' = children \cup {caller[a].pid} /\ caller' = [caller EXCEPT ![a] = Idle]
      /\ awaiting' = awaiting \cup {w} /\ caller[a].pc = "record"
      /\ UNCHANGED <<procs, live, losing, up, life, history>>
  BY DEF Record, Watch, At, Done, skillVars, daemon
<1>2. Len(procs) \in Nat /\ live.generation \in Nat
  BY LenProperties DEF TypeInv, ProcOK, LiveOK
<1>3. caller'[a] = Idle /\ \A b \in Actors : b # a => caller'[b] = caller[b]
  BY <1>1 DEF TypeInv, CallerOK
<1>4. Idle.pc = "idle" /\ Idle.gen <= live.generation /\ Idle.pid <= Len(procs)
  BY <1>2 DEF Idle, NoPid
<1>5. LaunchOf(a) BY <1>1 DEF Launch
<1>6. Numbered' BY <1>1, <1>3, <1>4 DEF Numbered
<1>7. Launch' BY <1>1, <1>3, <1>4, <1>5 DEF Launch, LaunchOf, StartingOrReady, Live
<1>8. Held' BY <1>1, <1>3, <1>4 DEF Held, StartingOrReady
<1>9. NoneLeft' BY <1>1, <1>3, <1>4 DEF NoneLeft, Handled
<1>10. Recorded' BY <1>1, <1>5 DEF Recorded, LaunchOf, StartingOrReady
<1> QED BY <1>1, <1>6, <1>7, <1>8, <1>9, <1>10
        DEF Over, Down, ReadyBacked, Live, StartingOrReady, StoppedNotLost

LEMMA StopTakesInv == ASSUME TypeInv, Inv, TypeInv', NEW a \in Actors, StopTakes(a) PROVE Inv'
<1> USE DEF Inv
<1>1. CASE Live("NOT_STARTED") /\ live.child = NoPid
  <2>1. Goto(a, AfterStop(a)) /\ caller[a].pc = "stop"
        /\ UNCHANGED <<procs, children, live, awaiting, losing, up, life, history>>
    BY <1>1 DEF StopTakes, At, taskVars, daemon
  <2>2. AfterStop(a) \in Pcs \ {"spawn", "record", "terminate", "orphan"}
    BY DEF AfterStop, Pcs
  <2> QED BY <2>1, <2>2, GotoInv
<1>2. CASE ~(Live("NOT_STARTED") /\ live.child = NoPid)
  <2> DEFINE c == [caller[a] EXCEPT !.pc = "terminate", !.pid = live.child]
             gen == live.generation + 1
  <2>1. /\ live' = NotStarted(gen) /\ caller' = [caller EXCEPT ![a] = c]
        /\ UNCHANGED <<procs, children, awaiting, losing, up, life>> /\ up
        /\ caller[a].pc = "stop"
    BY <1>2, Zenon DEF StopTakes, At, taskVars, daemon
  <2>2. /\ history'.lost = history.lost
        /\ history'.stopped = IF StartingOrReady THEN history.stopped \cup {live.generation}
                              ELSE history.stopped
        /\ history.stopped \subseteq Nat /\ history.lost \subseteq Nat
    BY <1>2 DEF StopTakes, TypeInv, HistoryOK
  <2>3. /\ live'.state = "NOT_STARTED" /\ live'.generation = gen /\ live'.child = NoPid
        /\ live'.keys = {} /\ live.generation \in Nat /\ live.child \in Nat /\ Len(procs) \in Nat
    BY <2>1, LenProperties DEF NotStarted, TypeInv, LiveOK, ProcOK
  <2>4. /\ caller'[a] = c /\ \A b \in Actors : b # a => caller'[b] = caller[b]
        /\ c.pc = "terminate" /\ c.pid = live.child /\ c.gen = caller[a].gen
        /\ \A b \in Actors : caller[b].gen \in Nat /\ caller[b].pid \in Nat
    BY <2>1 DEF TypeInv, CallerOK, Call
  <2> HIDE DEF c
  <2>5. \A w \in awaiting : w.gen \in Nat BY DEF TypeInv, TaskOK, Await
  <2>6. Numbered' BY <2>1, <2>3, <2>4, <2>5 DEF Numbered, NoPid
  <2>7. Launch'
    BY <2>1, <2>3, <2>4 DEF Launch, LaunchOf, StartingOrReady, Live, Numbered
  <2>8. Held' BY <2>3 DEF Held, StartingOrReady
  <2>9. NoneLeft'
    <3>1. \A p : Handled(p) => Handled(p)' BY <2>1, <2>4 DEF Handled
    <3>2. \A p : p = live.child => Handled(p)' BY <2>4 DEF Handled
    <3> QED BY <2>1, <3>1, <3>2 DEF NoneLeft
  <2>10. Recorded' BY <2>1, <2>3 DEF Recorded, StartingOrReady
  <2>11. Over' BY <2>2, <2>3 DEF Over, StartingOrReady
  <2>12. Down' /\ ReadyBacked' /\ StoppedNotLost'
    BY <2>1, <2>2, <2>3 DEF Down, ReadyBacked, Live, StoppedNotLost, Over
  <2> QED BY <2>6, <2>7, <2>8, <2>9, <2>10, <2>11, <2>12
<1> QED BY <1>1, <1>2

\* A loss of the live attempt, by whoever waited for it past its launch.
LEMMA LostInv ==
  ASSUME TypeInv, Inv, TypeInv', live.generation \in Nat, StartingOrReady, Lost(live.generation), up,
         \A a \in Actors : caller[a].pc = "spawn" => caller[a].gen # live.generation,
         awaiting' \subseteq awaiting, UNCHANGED <<procs, caller, up, life>>
  PROVE  Inv'
<1> USE DEF Inv
<1> DEFINE l == [gen |-> live.generation, pid |-> live.child, pc |-> "unit"]
<1>1. /\ losing' = losing \cup {l} /\ children' = children \ {live.child}
      /\ live' = [NotStarted(live.generation) EXCEPT !.state = "LOST"]
  BY DEF Lost
<1>2. /\ live'.state = "LOST" /\ live'.generation = live.generation /\ live'.child = NoPid
      /\ live'.keys = {} /\ live.child \in Nat /\ Len(procs) \in Nat
  BY <1>1, LenProperties DEF NotStarted, TypeInv, LiveOK, ProcOK
<1>3. history'.stopped = history.stopped /\ history'.lost = history.lost \cup {live.generation}
  BY DEF Lost, TypeInv, HistoryOK
<1>4. Numbered' BY <1>1, <1>2 DEF Numbered, NoPid
<1>5. Launch' BY <1>1, <1>2 DEF Launch, LaunchOf, StartingOrReady, Live
<1>6. Held' BY <1>2 DEF Held, StartingOrReady
<1>7. NoneLeft'
  <2>1. \A p : Handled(p) => Handled(p)' BY <1>1 DEF Handled
  <2>2. l \in losing' /\ l.pid = live.child BY <1>1
  <2>3. \A p : p = live.child => Handled(p)' BY <2>2, Zenon DEF Handled
  <2> QED BY <2>1, <2>3 DEF NoneLeft
<1>8. Recorded' BY <1>1, <1>2 DEF Recorded, StartingOrReady
<1>9. Over' BY <1>2, <1>3 DEF Over, StartingOrReady
<1>10. Down' /\ ReadyBacked' /\ StoppedNotLost'
  BY <1>2, <1>3 DEF Down, ReadyBacked, Live, StoppedNotLost, Over
<1> QED BY <1>4, <1>5, <1>6, <1>7, <1>8, <1>9, <1>10

\* Tasks that move on without a loss, or end.
LEMMA TasksInv ==
  ASSUME TypeInv, Inv, TypeInv',
         UNCHANGED <<procs, children, live, caller, up, life, history>>,
         \A w \in awaiting' : \E v \in awaiting : v.gen = w.gen /\ (w.pc = "poll" => v.pc = "poll"),
         \A l \in losing' : \E k \in losing : k.pid = l.pid,
         \A k \in losing : \E l \in losing' : k.pid = l.pid
  PROVE  Inv'
<1> USE DEF Inv
<1>1. Numbered' BY DEF Numbered
<1>2. Launch' BY DEF Launch, LaunchOf, StartingOrReady, Live
<1>3. Held' BY DEF Held, StartingOrReady
<1>4. NoneLeft' BY DEF NoneLeft, Handled
<1>5. Recorded' BY DEF Recorded, StartingOrReady
<1> QED BY <1>1, <1>2, <1>3, <1>4, <1>5
        DEF Over, Down, ReadyBacked, Live, StartingOrReady, StoppedNotLost

LEMMA SuperviseInv == ASSUME TypeInv, Inv, TypeInv', NEW gen \in watching, Supervise(gen) PROVE Inv'
<1>1. UNCHANGED <<procs, caller, awaiting, up, life>> /\ up BY DEF Supervise, daemon
<1>2. CASE UNCHANGED <<live, losing, children, history>> BY <1>1, <1>2, TasksInv
<1>3. CASE Lost(gen) /\ live.generation = gen /\ StartingOrReady /\ live.child # NoPid
  <2>1. \A a \in Actors : caller[a].pc = "spawn" => caller[a].gen # live.generation
    BY <1>3 DEF Inv, Launch, LaunchOf
  <2>2. live.generation \in Nat BY DEF TypeInv, LiveOK
  <2> QED BY <1>1, <1>3, <2>1, <2>2, LostInv
<1> QED BY <1>2, <1>3 DEF Supervise, Lose

LEMMA DeadlineInv == ASSUME TypeInv, Inv, TypeInv', NEW w \in awaiting, DeadlinePasses(w) PROVE Inv'
<1>1. UNCHANGED <<procs, caller, up, life>> /\ up /\ awaiting' \subseteq awaiting
  BY DEF DeadlinePasses, Polling, daemon
<1>2. CASE UNCHANGED <<live, losing, children, history>> BY <1>1, <1>2, TasksInv
<1>3. CASE Lost(w.gen) /\ live.generation = w.gen /\ StartingOrReady
  <2>1. \A a \in Actors : caller[a].pc = "spawn" => caller[a].gen # live.generation
    BY <1>3 DEF Inv, Launch, LaunchOf
  <2>2. live.generation \in Nat BY DEF TypeInv, LiveOK
  <2> QED BY <1>1, <1>3, <2>1, <2>2, LostInv
<1> QED BY <1>2, <1>3 DEF DeadlinePasses, Lose

LEMMA ReadiesInv == ASSUME TypeInv, Inv, TypeInv', NEW w \in awaiting, Readies(w) PROVE Inv'
<1> USE DEF Inv
<1> DEFINE v == [w EXCEPT !.pc = "unit"]
<1>1. /\ live' = [live EXCEPT !.state = "READY"] /\ awaiting' = (awaiting \ {w}) \cup {v}
      /\ live.generation = w.gen /\ Live("STARTING") /\ w.pc = "poll" /\ up
      /\ UNCHANGED <<procs, children, caller, losing, up, life, history>>
  BY DEF Readies, Polling, PollOver, daemon
<1>2. /\ live'.state = "READY" /\ live'.generation = live.generation /\ live'.child = live.child
      /\ live'.keys = live.keys
  BY <1>1 DEF TypeInv, LiveOK
<1>3. v.gen = w.gen /\ v.pc = "unit" BY DEF TypeInv, TaskOK, Await
<1> HIDE DEF v
<1>4. StartingOrReady /\ StartingOrReady' BY <1>1, <1>2 DEF Live, StartingOrReady
<1>5. Numbered' BY <1>1, <1>2, <1>3 DEF Numbered
<1>6. Launch' BY <1>1, <1>2, <1>3, <1>4 DEF Launch, LaunchOf, Live
<1>7. Held' BY <1>1, <1>2, <1>4 DEF Held
<1>8. NoneLeft' BY <1>1, <1>2 DEF NoneLeft, Handled
<1>9. Recorded' BY <1>1, <1>2, <1>3, <1>4 DEF Recorded
<1>10. Over' BY <1>1, <1>2, <1>4 DEF Over
<1>11. ReadyBacked' BY <1>1, <1>2, <1>4 DEF ReadyBacked, Live, Recorded
<1> QED BY <1>1, <1>5, <1>6, <1>7, <1>8, <1>9, <1>10, <1>11 DEF Down, StoppedNotLost

LEMMA KeysInv == ASSUME TypeInv, Inv, TypeInv', NEW w \in awaiting, KeysAnswered(w) PROVE Inv'
<1> USE DEF Inv
<1>1. /\ awaiting' = awaiting \ {w} /\ w.pc = "keys" /\ up
      /\ UNCHANGED <<procs, children, caller, losing, up, life, history>>
      /\ live' = live \/ \E keys \in SUBSET Desks : Live("READY") /\ live' = [live EXCEPT !.keys = keys]
  <2>1. live.keys \subseteq Desks BY DEF TypeInv, LiveOK
  <2>2. PICK answered \in SUBSET Desks :
          live' = IF Live("READY") THEN [live EXCEPT !.keys = live.keys \cup answered] ELSE live
    BY DEF KeysAnswered
  <2> QED BY <2>1, <2>2 DEF KeysAnswered, daemon
<1>2. /\ live'.state = live.state /\ live'.generation = live.generation /\ live'.child = live.child
      /\ live'.keys = live.keys \/ Live("READY")
  BY <1>1 DEF TypeInv, LiveOK
<1>3. Numbered' BY <1>1, <1>2 DEF Numbered
<1>4. Launch' BY <1>1, <1>2 DEF Launch, LaunchOf, StartingOrReady, Live
<1>5. Held' BY <1>1, <1>2 DEF Held, StartingOrReady
<1>6. NoneLeft' BY <1>1, <1>2 DEF NoneLeft, Handled
<1>7. Recorded' BY <1>1, <1>2 DEF Recorded, StartingOrReady
<1> QED BY <1>1, <1>2, <1>3, <1>4, <1>5, <1>6, <1>7
        DEF Over, Down, ReadyBacked, Live, StartingOrReady, StoppedNotLost

LEMMA TaskInv ==
  ASSUME TypeInv, Inv, TypeInv',
         (\E gen \in watching : Supervise(gen)) \/ LoseStep \/ AwaitStep \/ \E w \in awaiting : Readies(w)
  PROVE  Inv'
<1>1. CASE \E gen \in watching : Supervise(gen) BY <1>1, SuperviseInv
<1>2. CASE LoseStep
  <2>1. PICK l \in losing : LoseRecords(l) \/ LoseEnds(l) BY <1>2 DEF LoseStep
  <2>2. CASE LoseRecords(l)
    <3>1. [l EXCEPT !.pc = "terminate"].pid = l.pid BY DEF TypeInv, TaskOK, Loss
    <3>2. losing' = (losing \ {l}) \cup {[l EXCEPT !.pc = "terminate"]}
          /\ UNCHANGED <<procs, children, live, caller, awaiting, up, life, history>>
      BY <2>2 DEF LoseRecords, childVars, daemon
    <3> QED BY <3>1, <3>2, TasksInv
  <2> QED BY <2>1, <2>2, LoseEndsInv
<1>3. CASE \E w \in awaiting : PollEnds(w) \/ ReadyRecords(w)
  <2>1. PICK w \in awaiting : PollEnds(w) \/ ReadyRecords(w) BY <1>3
  <2>2. [w EXCEPT !.pc = "keys"].gen = w.gen /\ [w EXCEPT !.pc = "keys"].pc = "keys"
    BY DEF TypeInv, TaskOK, Await
  <2>3. awaiting' \subseteq (awaiting \ {w}) \cup {[w EXCEPT !.pc = "keys"]}
        /\ UNCHANGED <<procs, children, live, caller, losing, up, life, history>>
    BY <2>1 DEF PollEnds, ReadyRecords, childVars, daemon
  <2> QED BY <2>2, <2>3, TasksInv
<1> QED BY <1>1, <1>2, <1>3, DeadlineInv, KeysInv, ReadiesInv DEF AwaitStep

\* A daemon that ends leaves nothing an invariant speaks of but processes and the record.
LEMMA EndsInv ==
  ASSUME TypeInv, Inv, TypeInv', Ends, procs' = procs \/ Leave
  PROVE  Inv'
<1> USE DEF Inv
<1>1. /\ ~up' /\ live' = NotStarted(0) /\ caller' = [a \in Actors |-> Idle] /\ awaiting' = {}
      /\ losing' = {} /\ history' = NoHistory /\ UNCHANGED <<children, life>>
  BY DEF Ends
<1>2. Len(procs') \in Nat BY LenProperties DEF TypeInv, ProcOK
<1>3. \A p \in DOMAIN procs' : p \in DOMAIN procs /\ procs'[p].life = procs[p].life
  <2>1. CASE procs' = procs BY <2>1
  <2>2. CASE Leave
    <3> DEFINE S == {p \in DOMAIN procs : procs[p].life = life}
    <3>1. procs' = [p \in DOMAIN procs |->
                      IF p \in S THEN [procs[p] EXCEPT !.alive = FALSE] ELSE procs[p]]
      BY <2>2 DEF Leave
    <3> QED BY <3>1, Swept DEF TypeInv, ProcOK
  <2> QED BY <2>1, <2>2
<1>4. Numbered' BY <1>1, <1>2, <1>3 DEF Numbered, NotStarted, Idle, NoPid
<1>5. Launch' /\ Held' BY <1>1 DEF Launch, Held, NotStarted, Idle, StartingOrReady
<1>6. NoneLeft' BY <1>1 DEF NoneLeft
<1>7. Recorded' BY <1>1 DEF Recorded
<1> QED BY <1>1, <1>4, <1>5, <1>6, <1>7
        DEF Over, Down, ReadyBacked, Live, NotStarted, NoHistory, StoppedNotLost

LEMMA BootInv == ASSUME TypeInv, Inv, TypeInv', Boot PROVE Inv'
<1> USE DEF Inv
<1> DEFINE c == [Idle EXCEPT !.pc = "plan", !.op = "boot"]
<1>1. /\ live = NotStarted(0) /\ up' /\ life' = life + 1 /\ children' = {}
      /\ caller' = [caller EXCEPT !["main"] = c]
      /\ UNCHANGED <<live, awaiting, losing, history>>
  BY DEF Boot, Down, taskVars
<1>2. procs' \in Seq(Proc) /\ DOMAIN procs' = DOMAIN procs
      /\ \A p \in DOMAIN procs : procs'[p].life = procs[p].life
  BY Swept DEF Boot, TypeInv, ProcOK
<1>3. Len(procs') = Len(procs) /\ Len(procs) \in Nat /\ life \in Nat
  BY <1>2, LenProperties DEF TypeInv, ProcOK, DaemonOK
<1>4. /\ c.pc = "plan" /\ c.gen = 0 /\ c.pid = 0 /\ "main" \in Actors
      /\ caller'["main"] = c /\ \A a \in Actors : a # "main" => caller'[a] = caller[a]
  BY <1>1 DEF Idle, NoPid, Actors, TypeInv, CallerOK
<1> HIDE DEF c
<1>10. \A p \in DOMAIN procs' : procs'[p].life \in Nat /\ procs'[p].life <= life
  <2>1. \A p \in DOMAIN procs : procs[p] \in Proc
    BY ElementOfSeq, LenProperties DEF TypeInv, ProcOK
  <2> QED BY <1>2, <2>1 DEF Numbered, Proc
<1>5. Numbered'
  <2>1. \A p \in DOMAIN procs' : procs'[p].life <= life' BY <1>1, <1>3, <1>10
  <2> QED BY <1>1, <1>3, <1>4, <2>1 DEF Numbered, NotStarted
<1>6. Launch' BY <1>1, <1>4 DEF Launch, LaunchOf, StartingOrReady, Live
<1>7. Held' BY <1>1 DEF Held, NotStarted, StartingOrReady
<1>8. NoneLeft'
  <2>1. \A p \in DOMAIN procs' : procs'[p].life # life'
    BY <1>1, <1>3, <1>10
  <2> QED BY <2>1 DEF NoneLeft
<1>9. Recorded' BY <1>1 DEF Recorded, NotStarted, StartingOrReady
<1> QED BY <1>1, <1>5, <1>6, <1>7, <1>8, <1>9
        DEF Over, Down, ReadyBacked, Live, NotStarted, StartingOrReady, StoppedNotLost

LEMMA CallerInv == ASSUME TypeInv, Inv, TypeInv', NEW a \in Actors, CallerStep(a) PROVE Inv'
<1>1. CASE Plan(a)
  <2>1. caller[a].pc = "plan" /\ (Goto(a, "claim") \/ Done(a))
        /\ UNCHANGED <<procs, children, live, awaiting, losing, up, life, history>>
    BY <1>1 DEF Plan, At, childVars, taskVars, daemon
  <2> QED BY <2>1, GotoInv, DoneInv DEF Pcs
<1>2. CASE a \in Routes /\ ProvisionStep(a)
  <2>1. caller[a].pc \in {"probe", "steps"} /\ (Goto(a, "stop") \/ Goto(a, "plan") \/ Done(a))
        /\ UNCHANGED <<procs, children, live, awaiting, losing, up, life, history>>
    BY <1>2 DEF ProvisionStep, ProbeRefuses, ClaimRow, StepsFail, LandAvailable, At, childVars,
                taskVars, daemon
  <2> QED BY <2>1, GotoInv, DoneInv DEF Pcs
<1> QED BY <1>1, <1>2, ClaimInv, SpawnFailsInv, SpawnInv, EndOrphanInv, RecordInv, StopTakesInv,
        StopEndsInv DEF CallerStep, StartStep, StopStep

LEMMA NextInv == TypeInv /\ Inv /\ [Next]_vars => Inv'
<1> SUFFICES ASSUME TypeInv, Inv, [Next]_vars PROVE Inv' OBVIOUS
<1>0. TypeInv' BY NextTypes
<1>1. CASE \E a \in Actors : CallerStep(a) BY <1>0, <1>1, CallerInv
<1>2. CASE \E r \in Routes : Setup(r) \/ Retry(r)
  <2>1. PICK r \in Actors : Setup(r) \/ Retry(r) BY <1>2 DEF Actors
  <2>2. PICK op \in Ops, pc \in {"probe", "stop"} :
          caller' = [caller EXCEPT ![r] = [Idle EXCEPT !.pc = pc, !.op = op]]
    BY <2>1, Zenon DEF Setup, Retry, Ops
  <2>3. caller[r].pc = "idle"
        /\ UNCHANGED <<procs, children, live, awaiting, losing, up, life, history>>
    BY <2>1 DEF Setup, Retry, At, childVars, taskVars
  <2> QED BY <1>0, <2>2, <2>3, BeginInv DEF Pcs
<1>3. CASE (\E gen \in watching : Supervise(gen)) \/ LoseStep \/ AwaitStep
           \/ \E w \in awaiting : Readies(w)
  BY <1>0, <1>3, TaskInv
<1>4. CASE \E d \in Desks : TurnEnds(d) \/ RefreshStep(d)
  <2>1. UNCHANGED <<procs, children, live, caller, awaiting, losing, up, life>>
        /\ history'.stopped = history.stopped /\ history'.lost = history.lost
    BY <1>4 DEF TurnEnds, RefreshStep, Fetches, ProjectionFails, Projects, childVars, taskVars,
                daemon, TypeInv, HistoryOK
  <2> QED BY <2>1 DEF Inv, Numbered, Launch, LaunchOf, Held, Recorded, Over, Down, NoneLeft,
                      Handled, ReadyBacked, StoppedNotLost, Live, StartingOrReady
<1>5. CASE Quit
  <2>1. caller' = [caller EXCEPT !["main"] = [Idle EXCEPT !.pc = "stop", !.op = "quit"]]
        /\ caller["main"].pc = "idle" /\ "main" \in Actors
        /\ UNCHANGED <<procs, children, live, awaiting, losing, up, life, history>>
    BY <1>5 DEF Quit, At, Actors, childVars, taskVars, daemon
  <2> QED BY <1>0, <2>1, BeginInv DEF Pcs, Ops
<1>6. CASE Leave \/ Crash BY <1>0, <1>6, EndsInv DEF Leave, Crash
<1>7. CASE UNCHANGED vars
  BY <1>0, <1>7, TasksInv DEF vars, childVars, taskVars, daemon
<1> QED BY <1>0, <1>1, <1>2, <1>3, <1>4, <1>5, <1>6, <1>7, ChildExitsInv, BootInv DEF Next

LEMMA InitInv == Init => Inv
<1> SUFFICES ASSUME Init PROVE Inv OBVIOUS
<1>1. caller \in [Actors -> Call] BY TypeInit DEF TypeInv, CallerOK
<1>2. \A a \in Actors : caller[a].pc \in {"idle", "plan"} /\ caller[a].gen = 0 /\ caller[a].pid = 0
  BY DEF Init, Idle, NoPid
<1>3. procs = <<>> /\ Len(procs) = 0 /\ live = NotStarted(0) /\ children = {} /\ awaiting = {}
      /\ losing = {} /\ history = NoHistory /\ up
  BY DEF Init
<1> QED BY <1>2, <1>3
        DEF Inv, Numbered, Launch, Held, Recorded, Over, Down, NoneLeft, ReadyBacked,
            StoppedNotLost, Live, StartingOrReady, NotStarted, NoHistory, NoPid

LEMMA Inductive == Spec => [](TypeInv /\ Inv)
BY TypeInit, InitInv, NextTypes, NextInv, PTL DEF Spec

\* However starts, stops, retries and losses overlap, a running child of this daemon is held
\* by the live state or about to be ended.
THEOREM NoChildOrphaned == Spec => []NoOrphan
BY Inductive, OrphanParts, PTL DEF Inv

\* Nobody reports an attempt lost that was stopped.
THEOREM StoppedIsNotLost == Spec => []StoppedNotLost
BY Inductive, PTL DEF Inv

\* A ready child is on record, and keys live no longer than the readiness they belong to.
THEOREM ReadyIsBacked == Spec => []ReadyBacked
BY Inductive, PTL DEF Inv
-------------------------------------------------------------------------------
(* Projections *)

\* Nothing is queued behind no projection; the one that writes has fetched the last turn's
\* skills, or another one is queued; and when all is over the tree has them.
Projecting(d) ==
  /\ refresh[d].pc = "none" => ~refresh[d].queued
  /\ d \in history.turned =>
       /\ refresh[d].pc = "write" /\ ~refresh[d].queued => refresh[d].fetched = skills[d].written
       /\ refresh[d].pc = "none" /\ ~skills[d].failed => skills[d].projected = skills[d].written
Projected == \A d \in Desks : Projecting(d)

\* A step that is not about skills.
LEMMA SameProjected ==
  ASSUME Projected, UNCHANGED <<refresh, skills>>, history'.turned = history.turned
  PROVE  Projected'
BY DEF Projected, Projecting

LEMMA ProjectionStep ==
  ASSUME TypeInv, Projected, NEW d \in Desks, TurnEnds(d) \/ RefreshStep(d)
  PROVE  Projected'
<1> DEFINE Skill == [written : Nat, projected : Nat, failed : BOOLEAN]
           Proj  == [pc : {"none", "fetch", "write"}, queued : BOOLEAN, fetched : Nat]
<1>1. refresh \in [Desks -> Proj] /\ skills \in [Desks -> Skill] BY DEF TypeInv, SkillOK
<1>2. PICK r \in Proj : r = refresh[d] BY <1>1
<1>3. PICK s \in Skill : s = skills[d] BY <1>1
<1>4. PICK next : next = Looped(d) OBVIOUS
<1>5. next.pc \in {"none", "fetch"} /\ next.queued = FALSE /\ (next.pc = "none" <=> r.queued = FALSE)
  <2>1. r.queued \in BOOLEAN BY <1>2
  <2>2. CASE r.queued BY <1>2, <1>4, <2>2 DEF Looped, NotRefreshing
  <2>3. CASE ~r.queued BY <1>2, <1>4, <2>3 DEF Looped, NotRefreshing
  <2> QED BY <2>1, <2>2, <2>3
<1>6. Projecting(d) BY DEF Projected
<1>7. PICK to, after : /\ refresh' = [refresh EXCEPT ![d] = to] /\ skills' = [skills EXCEPT ![d] = after]
                       /\ history'.turned \subseteq history.turned \cup {d}
                       /\ \/ TurnEnds(d) /\ to = Coalesced(d) /\ after = [s EXCEPT !.written = @ + 1]
                          \/ /\ history' = history
                             /\ \/ /\ r.pc = "fetch" /\ after = s
                                   /\ to = [r EXCEPT !.pc = "write", !.fetched = s.written]
                                \/ r.pc # "none" /\ to = next /\ after = [s EXCEPT !.failed = TRUE]
                                \/ /\ r.pc = "write" /\ to = next
                                   /\ after = [s EXCEPT !.projected = r.fetched, !.failed = FALSE]
  <2>1. skills = [skills EXCEPT ![d] = s] BY <1>1, <1>3
  <2>2. CASE TurnEnds(d)
    <3>1. /\ refresh' = [refresh EXCEPT ![d] = Coalesced(d)]
          /\ skills' = [skills EXCEPT ![d] = [s EXCEPT !.written = @ + 1]]
      BY <1>3, <2>2 DEF TurnEnds, Refresh
    <3>2. history'.turned = history.turned \cup {d} BY <2>2 DEF TurnEnds, TypeInv, HistoryOK
    <3> QED BY <2>2, <3>1, <3>2
  <2>3. CASE Fetches(d)
    <3>1. /\ refresh' = [refresh EXCEPT ![d] = [r EXCEPT !.pc = "write", !.fetched = s.written]]
          /\ skills' = [skills EXCEPT ![d] = s] /\ history' = history /\ r.pc = "fetch"
      BY <1>2, <1>3, <2>1, <2>3 DEF Fetches, Refresh
    <3> QED BY <3>1
  <2>4. CASE ProjectionFails(d)
    <3>1. /\ refresh' = [refresh EXCEPT ![d] = next]
          /\ skills' = [skills EXCEPT ![d] = [s EXCEPT !.failed = TRUE]]
          /\ history' = history /\ r.pc # "none"
      BY <1>2, <1>3, <1>4, <2>4 DEF ProjectionFails, Refresh
    <3> QED BY <3>1
  <2>5. CASE Projects(d)
    <3>1. /\ refresh' = [refresh EXCEPT ![d] = next]
          /\ skills' = [skills EXCEPT ![d] = [s EXCEPT !.projected = r.fetched, !.failed = FALSE]]
          /\ history' = history /\ r.pc = "write"
      BY <1>2, <1>3, <1>4, <2>5 DEF Projects, Refresh
    <3> QED BY <3>1
  <2> QED BY <2>2, <2>3, <2>4, <2>5 DEF RefreshStep
<1>8. ASSUME NEW e \in Desks, e # d PROVE Projecting(e)'
  <2>1. refresh'[e] = refresh[e] /\ skills'[e] = skills[e] BY <1>1, <1>7, <1>8
  <2>2. e \in history'.turned => e \in history.turned BY <1>7, <1>8
  <2> QED BY <2>1, <2>2 DEF Projected, Projecting
<1>9. refresh'[d] = to /\ skills'[d] = after BY <1>1, <1>7
<1>10. CASE TurnEnds(d) /\ to = Coalesced(d)
  <2>1. r.pc = "none" => to.pc = "fetch" BY <1>2, <1>10 DEF Coalesced, NotRefreshing
  <2>2. r.pc # "none" => to.pc # "none" /\ to.queued = TRUE
    <3>1. r.pc # "none" => to = [r EXCEPT !.queued = TRUE] BY <1>2, <1>10 DEF Coalesced
    <3> QED BY <1>2, <3>1
  <2>3. Projecting(d)' BY <1>9, <2>1, <2>2 DEF Projecting
  <2> QED BY <1>8, <2>3 DEF Projected
<1>11. CASE /\ history' = history /\ r.pc = "fetch" /\ after = s
            /\ to = [r EXCEPT !.pc = "write", !.fetched = s.written]
  <2>1. to.pc = "write" /\ to.fetched = after.written BY <1>11
  <2>2. Projecting(d)' BY <1>9, <2>1 DEF Projecting
  <2> QED BY <1>8, <2>2 DEF Projected
<1>12. CASE history' = history /\ r.pc # "none" /\ to = next /\ after = [s EXCEPT !.failed = TRUE]
  <2>1. after.failed = TRUE BY <1>12
  <2>2. Projecting(d)' BY <1>5, <1>9, <1>12, <2>1 DEF Projecting
  <2> QED BY <1>8, <2>2 DEF Projected
<1>13. CASE /\ history' = history /\ r.pc = "write" /\ to = next
            /\ after = [s EXCEPT !.projected = r.fetched, !.failed = FALSE]
  <2>1. after.projected = r.fetched /\ after.written = s.written BY <1>13
  <2>2. d \in history'.turned /\ next.pc = "none" => after.projected = after.written
    BY <1>2, <1>3, <1>5, <1>6, <1>13, <2>1 DEF Projecting
  <2>3. Projecting(d)' BY <1>5, <1>9, <1>13, <2>2 DEF Projecting
  <2> QED BY <1>8, <2>3 DEF Projected
<1> QED BY <1>7, <1>10, <1>11, <1>12, <1>13

LEMMA ProjectedKept == TypeInv /\ Projected /\ [Next]_vars => Projected'
<1> SUFFICES ASSUME TypeInv, Projected, [Next]_vars PROVE Projected' OBVIOUS
<1>1. CASE \E a \in Actors : CallerStep(a)
  <2>1. UNCHANGED <<refresh, skills>> /\ history'.turned = history.turned
    BY <1>1 DEF CallerStep, StartStep, StopStep, ProvisionStep, Plan, Claim, SpawnFails, Spawn, EndOrphan,
       Record, StopTakes, StopEnds, ClaimRow, ProbeRefuses, StepsFail, LandAvailable, skillVars, TypeInv, HistoryOK
  <2> QED BY <2>1, SameProjected
<1>2. CASE \E r \in Routes : Setup(r) \/ Retry(r)
  <2>1. UNCHANGED <<refresh, skills, history>> BY <1>2 DEF Setup, Retry, skillVars
  <2> QED BY <2>1, SameProjected
<1>3. CASE (\E gen \in watching : Supervise(gen)) \/ LoseStep \/ AwaitStep
           \/ \E w \in awaiting : Readies(w)
  <2>1. ASSUME NEW gen, Lose(gen) \/ UNCHANGED history PROVE history'.turned = history.turned
    BY <2>1 DEF Lose, Lost, TypeInv, HistoryOK
  <2>2. UNCHANGED <<refresh, skills>> /\ history'.turned = history.turned
    BY <1>3, <2>1 DEF Supervise, LoseStep, LoseRecords, LoseEnds, AwaitStep, PollEnds, DeadlinePasses,
       ReadyRecords, KeysAnswered, Readies, skillVars
  <2> QED BY <2>2, SameProjected
<1>4. CASE \E d \in Desks : TurnEnds(d) \/ RefreshStep(d) BY <1>4, ProjectionStep
<1>5. CASE ChildExits \/ Quit \/ Boot
  <2>1. UNCHANGED <<refresh, skills, history>> BY <1>5 DEF ChildExits, Quit, Boot, skillVars
  <2> QED BY <2>1, SameProjected
<1>6. CASE Leave \/ Crash
  <2>1. refresh' = [d \in Desks |-> NotRefreshing] /\ history'.turned = {}
    BY <1>6 DEF Leave, Crash, Ends, NoHistory
  <2> QED BY <2>1 DEF Projected, Projecting, NotRefreshing
<1>7. CASE UNCHANGED vars
  <2>1. UNCHANGED <<refresh, skills, history>> BY <1>7 DEF vars
  <2> QED BY <2>1, SameProjected
<1> QED BY <1>1, <1>2, <1>3, <1>4, <1>5, <1>6, <1>7 DEF Next

\* However turns end in the middle of projections, once none runs and none has failed the
\* workspace has what the agent wrote last: a queued projection fetches after the turn.
THEOREM TurnsProjected == Spec => []TurnProjected
<1>1. Init => Projected BY DEF Init, Projected, Projecting, NotRefreshing, NoHistory
<1>2. TypeInv /\ Projected => TurnProjected
  BY DEF TurnProjected, Projected, Projecting, TypeInv, HistoryOK
<1> QED BY <1>1, <1>2, TypeInit, NextTypes, ProjectedKept, PTL DEF Spec

===============================================================================
