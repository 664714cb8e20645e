---------------------------- MODULE DispatchProofs ----------------------------
(***************************************************************************)
(* Proofs about Dispatch for every value of its constants: any desks, any  *)
(* number of routes racing the dispatcher, and no bound on children,       *)
(* prompts, control-plane losses or daemon deaths.                         *)
(*                                                                         *)
(* First the types and that a prompt is handed over at most once.  Then    *)
(* what becomes of a prompt: which steps write the prompts table and how,  *)
(* that a failed prompt is disclosed once, that a desk has one agent; and, *)
(* where only the dispatcher activates desks, that the outcome on record   *)
(* tells the truth, that Dispatch implements PromptDelivery, and that the  *)
(* row of a child that is gone is on its way to being closed.              *)
(***************************************************************************)
EXTENDS Dispatch, SequenceTheorems, FiniteSetTheorems, TLAPS

-----------------------------------------------------------------------------
(* Sequences seen as functions *)

\* A table updated row by row is a table of the same length.
LEMMA Rows == ASSUME NEW S, NEW T, NEW s \in Seq(S), NEW f \in [DOMAIN s -> T]
              PROVE  f \in Seq(T) /\ DOMAIN f = DOMAIN s /\ Len(f) = Len(s)
<1>1. DOMAIN s = 1..Len(s) /\ Len(s) \in Nat BY LenProperties
<1>2. f \in Seq(T) BY <1>1
<1>3. DOMAIN f = 1..Len(f) /\ Len(f) \in Nat BY <1>2, LenProperties
<1> QED BY <1>1, <1>2, <1>3

\* The reports sent about the members of a finite set are a sequence of reports.
LEMMA OrdersType == ASSUME NEW S, IsFiniteSet(S), NEW T, NEW order \in Orders(S),
                           NEW f \in [DOMAIN order -> T]
                    PROVE  f \in Seq(T) /\ \A i \in DOMAIN order : order[i] \in S
<1>1. Cardinality(S) \in Nat BY FS_CardinalityType
<1>2. order \in [1..Cardinality(S) -> S] BY DEF Orders
<1> QED BY <1>1, <1>2

-----------------------------------------------------------------------------
(* The helpers return values of their kind *)

LEMMA CloseType ==
  ASSUME NEW rows \in Seq(Child), NEW p,
         NEW reason \in {"ENDED", "CONTROL_PLANE_LOST"}
  PROVE  Close(rows, p, reason) \in Seq(Child) /\ DOMAIN Close(rows, p, reason) = DOMAIN rows
<1>1. \A q \in DOMAIN rows : rows[q] \in Child BY LenProperties, ElementOfSeq
<1>2. Close(rows, p, reason) \in [DOMAIN rows -> Child] BY <1>1 DEF Close, Child
<1> QED BY <1>2, Rows

LEMMA ShutdownType ==
  ASSUME procs \in Seq(Child), NEW d
  PROVE  Shutdown(d) \in Seq(Child) /\ DOMAIN Shutdown(d) = DOMAIN procs
<1>1. \A q \in DOMAIN procs : procs[q] \in Child BY LenProperties, ElementOfSeq
<1> DEFINE ended(q) == [procs[q] EXCEPT !.alive = FALSE]
<1>2. \A q \in DOMAIN procs : ended(q) \in Child BY <1>1 DEF Child
<1>3. Shutdown(d) \in [DOMAIN procs -> Child]
  <2>1. Shutdown(d) = [q \in DOMAIN procs |-> IF q = term[d] THEN ended(q) ELSE procs[q]]
    BY DEF Shutdown
  <2> HIDE DEF ended
  <2> QED BY <1>1, <1>2, <2>1
<1> QED BY <1>3, Rows

LEMMA ShutdownExitsType ==
  ASSUME term \in [Desks -> Nat], NEW d \in Desks
  PROVE  ShutdownExits(d) \in Seq(TerminalExit)
<1>1. [desk |-> d, proc |-> term[d]] \in TerminalExit
  BY DEF TerminalExit
<1> QED BY <1>1 DEF ShutdownExits

\* A child stays one when it dies and its end is reported.
LEMMA ChildStopped ==
  ASSUME NEW child \in Child, NEW alive \in BOOLEAN, NEW reported \in BOOLEAN
  PROVE  [child EXCEPT !.alive = alive, !.reported = reported] \in Child
BY DEF Child

\* A row of the prompts table stays one when its fields are set.
LEMMA PromptMarked ==
  ASSUME NEW row \in PromptRow, NEW attempted \in BOOLEAN
  PROVE  [row EXCEPT !.attempted = attempted] \in PromptRow
BY DEF PromptRow

LEMMA PromptFailed ==
  ASSUME NEW row \in PromptRow,
         NEW code \in {"ACTIVATION_FAILED", "RUNTIME_UNAVAILABLE", "HANDOFF_UNKNOWN"}
  PROVE  [row EXCEPT !.state = "FAILED", !.failure = code] \in PromptRow
BY DEF PromptRow

LEMMA FailQueuedType ==
  ASSUME prompts \in Seq(PromptRow), NEW d,
         NEW code \in {"ACTIVATION_FAILED", "RUNTIME_UNAVAILABLE"}, FailQueued(d, code)
  PROVE  prompts' \in Seq(PromptRow) /\ DOMAIN prompts' = DOMAIN prompts
<1>1. \A q \in DOMAIN prompts : prompts[q] \in PromptRow BY LenProperties, ElementOfSeq
<1> DEFINE failed(q) == [prompts[q] EXCEPT !.state = "FAILED", !.failure = code,
                                             !.attempted = FALSE]
<1>2. \A q \in DOMAIN prompts : failed(q) \in PromptRow BY <1>1 DEF PromptRow
<1>3. prompts' = [q \in DOMAIN prompts |-> IF q \in Queued(d) THEN failed(q) ELSE prompts[q]]
  BY DEF FailQueued
<1>4. prompts' \in [DOMAIN prompts -> PromptRow]
  <2> HIDE DEF failed
  <2> QED BY <1>1, <1>2, <1>3
<1> QED BY <1>4, Rows

LEMMA ActivationFailedType ==
  ASSUME prompts \in Seq(PromptRow), NEW caller, NEW d, NEW error,
         ActivationFailed(caller, d, error)
  PROVE  prompts' \in Seq(PromptRow) /\ DOMAIN prompts' = DOMAIN prompts
<1>1. CASE FailQueued(d, "ACTIVATION_FAILED") BY <1>1, FailQueuedType
<1>2. CASE FailQueued(d, "RUNTIME_UNAVAILABLE") BY <1>2, FailQueuedType
<1>3. CASE UNCHANGED prompts BY <1>3
<1> QED BY <1>1, <1>2, <1>3 DEF ActivationFailed

LEMMA HoldingType ==
  ASSUME NEW inbox \in Seq(AdapterEvent)
  PROVE  Holding(inbox) \in Call /\ Holding(inbox).pc = "drain" /\ Holding(inbox).inbox = inbox
BY DEF Holding, Call, NoSid, NoProc

LEMMA AtType ==
  ASSUME NEW todo \in SUBSET Desks, NEW pc \in {"pass", "queue", "deadlines"}
  PROVE  At(pc, todo) \in LoopState /\ At(pc, todo).pc = pc
BY DEF At, LoopState, NoProc

LEMMA LiveProcessType ==
  ASSUME NEW rows \in Seq(Child), NEW d
  PROVE  LiveProcess(rows, d) \in (DOMAIN rows) \cup {NoProc} /\ LiveProcess(rows, d) \in Nat
<1>1. OpenRows(rows, d) \subseteq DOMAIN rows BY DEF OpenRows
<1>2. DOMAIN rows = 1..Len(rows) /\ Len(rows) \in Nat BY LenProperties
<1>3. LiveProcess(rows, d) \in (DOMAIN rows) \cup {NoProc} BY <1>1 DEF LiveProcess
<1> QED BY <1>2, <1>3 DEF NoProc

-----------------------------------------------------------------------------
(* What the steps refer to exists *)

\* A call that has begun names a desk and a runtime; once its child is started it
\* names a row of the table.
CallsOK == \A a \in Actors :
  /\ act[a].pc # "drain" => act[a].desk \in Desks /\ act[a].runtime \in Runtimes
  /\ act[a].pc \in {"insert", "open", "install"} => act[a].proc \in DOMAIN procs

\* The prompt being delivered and the child behind a bridge are rows of their tables.
References ==
  /\ disp.pc \in {"attempt", "call", "resolve"} => disp.prompt \in DOMAIN prompts
  /\ \A d \in Desks : chan[d] \in (DOMAIN procs) \cup {NoProc}

TypeInv == TypeOK /\ CallsOK /\ References

\* A step that changes a call only to end it or to begin one.
CallsKept == \A b \in Actors :
  \/ act'[b] = act[b]
  \/ act'[b].pc = "drain"
  \/ act'[b].pc = "spawn" /\ act'[b].desk \in Desks /\ act'[b].runtime \in Runtimes

LEMMA KeptCalls ==
  ASSUME CallsOK, CallsKept, DOMAIN procs \subseteq DOMAIN procs'
  PROVE  CallsOK'
BY DEF CallsOK, CallsKept

LEMMA HoldType ==
  ASSUME act \in [Actors -> Call], NEW a \in Actors, NEW inbox \in Seq(AdapterEvent),
         act' = [act EXCEPT ![a] = Holding(inbox)]
  PROVE  act' \in [Actors -> Call] /\ CallsKept
<1>1. Holding(inbox) \in Call /\ Holding(inbox).pc = "drain" BY HoldingType
<1> QED BY <1>1 DEF CallsKept

LEMMA ActivateType ==
  ASSUME DesksOK, RowsOK, MemoryOK, NEW a \in Actors, NEW inbox \in Seq(AdapterEvent),
         NEW rows, NEW ptr \in [Desks -> [Runtimes -> Nat]], NEW d \in Desks, NEW mode,
         NEW caller \in {"route", "queue", "retry"},
         Activate(a, inbox, rows, ptr, d, mode, caller)
  PROVE  /\ act' \in [Actors -> Call] /\ CallsKept
         /\ activating' \in [Desks -> Seq(AdapterEvent) \cup {NotActivating}]
         /\ prompts' \in Seq(PromptRow) /\ DOMAIN prompts' = DOMAIN prompts
<1> DEFINE error == Admission(rows, ptr, d, mode)
           call == [pc |-> "spawn", desk |-> d, caller |-> caller, runtime |-> selected[d],
                    resume |-> IF mode = "NEW" THEN NoSid ELSE ptr[d][selected[d]],
                    explicit |-> mode = "CONTINUE", proc |-> NoProc, inbox |-> inbox]
<1>1. CASE error = "ADMITTED"
  <2>1. /\ act' = [act EXCEPT ![a] = call]
        /\ activating' = [activating EXCEPT ![d] = <<>>] /\ UNCHANGED prompts
    BY <1>1 DEF Activate
  <2>2. selected[d] \in Runtimes /\ ptr[d][selected[d]] \in Nat BY DEF DesksOK
  <2>3. call \in Call BY <2>2 DEF Call, NoSid, NoProc
  <2>4. call.pc = "spawn" /\ call.desk \in Desks /\ call.runtime \in Runtimes BY <2>2
  <2>5. act' \in [Actors -> Call] /\ CallsKept
    <3> HIDE DEF call
    <3> QED BY <2>1, <2>3, <2>4 DEF MemoryOK, CallsKept
  <2>6. activating' \in [Desks -> Seq(AdapterEvent) \cup {NotActivating}]
    <3>1. <<>> \in Seq(AdapterEvent) BY EmptySeq
    <3> QED BY <2>1, <3>1 DEF MemoryOK
  <2> QED BY <2>1, <2>5, <2>6 DEF RowsOK
<1>2. CASE error # "ADMITTED"
  <2>1. /\ ActivationFailed(caller, d, error) /\ UNCHANGED activating
        /\ act' = [act EXCEPT ![a] = Holding(inbox)]
    BY <1>2 DEF Activate
  <2> QED BY <2>1, ActivationFailedType, HoldType DEF RowsOK, MemoryOK
<1> QED BY <1>1, <1>2

LEMMA EndedType ==
  ASSUME DesksOK, RowsOK, MemoryOK, NEW a \in Actors, NEW inbox \in Seq(AdapterEvent),
         NEW d \in Desks, NEW reason \in {"ENDED", "CONTROL_PLANE_LOST"},
         Ended(a, inbox, d, reason)
  PROVE  /\ act' \in [Actors -> Call] /\ CallsKept
         /\ activating' \in [Desks -> Seq(AdapterEvent) \cup {NotActivating}]
         /\ live' \in [Desks -> LiveEntry]
         /\ pointer' \in [Desks -> [Runtimes -> Nat]]
         /\ prompts' \in Seq(PromptRow) /\ DOMAIN prompts' = DOMAIN prompts
         /\ procs' \in Seq(Child) /\ DOMAIN procs' = DOMAIN procs
<1> DEFINE l == live[d]
           rows == Close(procs, IF l = NoLive THEN LiveProcess(procs, d) ELSE l.proc, reason)
           cleared == [pointer EXCEPT ![d][l.runtime] = NoSid]
           early == l # NoLive /\ ~l.ready
<1>1. rows \in Seq(Child) /\ DOMAIN rows = DOMAIN procs BY CloseType DEF RowsOK
<1>2. live' \in [Desks -> LiveEntry]
  <2>1. NoLive \in LiveEntry BY DEF NoLive, LiveEntry, NoProc, NoSid, Runtimes
  <2> QED BY <2>1 DEF Ended, MemoryOK
<1>3. cleared \in [Desks -> [Runtimes -> Nat]] BY DEF DesksOK, NoSid
<1>4. procs' = rows BY DEF Ended
<1>5. CASE /\ pointer' = cleared
           /\ Activate(a, inbox, rows, cleared, d, "NEW", "retry")
  <2> HIDE DEF rows, cleared
  <2> QED BY <1>1, <1>2, <1>3, <1>4, <1>5, ActivateType
<1>6. CASE /\ FailQueued(d, "ACTIVATION_FAILED")
           /\ act' = [act EXCEPT ![a] = Holding(inbox)]
           /\ UNCHANGED <<pointer, activating>>
  <2>1. prompts' \in Seq(PromptRow) /\ DOMAIN prompts' = DOMAIN prompts
    BY <1>6, FailQueuedType DEF RowsOK
  <2>2. act' \in [Actors -> Call] /\ CallsKept BY <1>6, HoldType DEF MemoryOK
  <2> QED BY <1>1, <1>2, <1>4, <1>6, <2>1, <2>2 DEF DesksOK, MemoryOK
<1>7. CASE /\ act' = [act EXCEPT ![a] = Holding(inbox)]
           /\ UNCHANGED <<pointer, activating, prompts>>
  <2>1. act' \in [Actors -> Call] /\ CallsKept BY <1>7, HoldType DEF MemoryOK
  <2> QED BY <1>1, <1>2, <1>4, <1>7, <2>1 DEF DesksOK, MemoryOK, RowsOK
<1> QED BY <1>5, <1>6, <1>7 DEF Ended

LEMMA EventType ==
  ASSUME TypeInv, NEW a \in Actors, NEW inbox \in Seq(AdapterEvent), NEW e \in AdapterEvent,
         Event(a, inbox, e)
  PROVE  /\ act' \in [Actors -> Call] /\ CallsKept
         /\ activating' \in [Desks -> Seq(AdapterEvent) \cup {NotActivating}]
         /\ live' \in [Desks -> LiveEntry]
         /\ pointer' \in [Desks -> [Runtimes -> Nat]]
         /\ prompts' \in Seq(PromptRow) /\ DOMAIN prompts' = DOMAIN prompts
         /\ procs' \in Seq(Child) /\ DOMAIN procs' = DOMAIN procs
<1> USE DEF TypeInv, TypeOK
<1> DEFINE d == e.desk
<1>1. d \in Desks /\ e.sid \in Nat BY DEF AdapterEvent
<1>2. \A q \in DOMAIN procs : procs[q] \in Child BY LenProperties, ElementOfSeq DEF RowsOK
<1>3. CASE /\ activating' = [activating EXCEPT ![d] = Append(@, e)]
           /\ activating[d] # NotActivating
           /\ act' = [act EXCEPT ![a] = Holding(inbox)]
           /\ UNCHANGED <<pointer, prompts, procs, live>>
  <2>1. activating[d] \in Seq(AdapterEvent) BY <1>1, <1>3 DEF MemoryOK
  <2>2. Append(activating[d], e) \in Seq(AdapterEvent) BY <2>1, AppendProperties
  <2>3. activating' \in [Desks -> Seq(AdapterEvent) \cup {NotActivating}]
    BY <1>1, <1>3, <2>2 DEF MemoryOK
  <2>4. act' \in [Actors -> Call] /\ CallsKept BY <1>3, HoldType DEF MemoryOK
  <2> QED BY <1>3, <2>3, <2>4 DEF DesksOK, RowsOK, MemoryOK
<1>4. CASE Readied(a, inbox, d)
  <2>1. act' \in [Actors -> Call] /\ CallsKept BY <1>4, HoldType DEF MemoryOK, Readied
  <2>2. procs' \in [DOMAIN procs -> Child] BY <1>2, <1>4 DEF Readied, Child
  <2>3. procs' \in Seq(Child) /\ DOMAIN procs' = DOMAIN procs BY <2>2, Rows DEF RowsOK
  <2>4. live' \in [Desks -> LiveEntry] BY <1>1, <1>4 DEF Readied, MemoryOK, LiveEntry
  <2> QED BY <1>4, <2>1, <2>3, <2>4 DEF Readied, DesksOK, RowsOK, MemoryOK
<1>5. CASE Discovered(a, inbox, d, e.sid)
  <2>1. act' \in [Actors -> Call] /\ CallsKept BY <1>5, HoldType DEF MemoryOK, Discovered
  <2>2. procs' \in [DOMAIN procs -> Child] BY <1>1, <1>2, <1>5 DEF Discovered, Child
  <2>3. procs' \in Seq(Child) /\ DOMAIN procs' = DOMAIN procs BY <2>2, Rows DEF RowsOK
  <2>4. pointer' \in [Desks -> [Runtimes -> Nat]] BY <1>1, <1>5 DEF Discovered, DesksOK
  <2> QED BY <1>5, <2>1, <2>3, <2>4 DEF Discovered, RowsOK, MemoryOK
<1>6. CASE Ended(a, inbox, d, "CONTROL_PLANE_LOST") BY <1>1, <1>6, EndedType
<1> QED BY <1>3, <1>4, <1>5, <1>6 DEF Event

-----------------------------------------------------------------------------
(* Each group of steps keeps the types *)

LEMMA ActorTypes ==
  ASSUME TypeInv, NEW a \in Actors, ActorStep(a)
  PROVE  TypeInv'
<1> USE DEF TypeInv, TypeOK
<1> DEFINE d == act[a].desk
<1>0. act[a] \in Call BY DEF MemoryOK
<1>1. CASE EndPrevious(a)
  <2>1. d \in Desks /\ act[a].runtime \in Runtimes /\ act[a].resume \in Nat
    BY <1>0, <1>1 DEF EndPrevious, CallsOK, Call
  <2>2. procs' \in Seq(Child) /\ DOMAIN procs' = DOMAIN procs
    BY <1>1, ShutdownType DEF EndPrevious, RowsOK
  <2>3. AdaptersOK'
    <3>1. exits' \in Seq(TerminalExit)
      BY <1>1, <2>1, ShutdownExitsType, ConcatProperties DEF EndPrevious, AdaptersOK
    <3>2. term' \in [Desks -> Nat] BY <1>1, <2>1 DEF EndPrevious, AdaptersOK, NoProc
    <3>3. codex' \in [Desks -> Thread]
      <4> DEFINE reset == [codex[d] EXCEPT !.ready = FALSE, !.gate = FALSE,
                                           !.thread = act[a].resume,
                                           !.awaiting = @ \/ act[a].resume = NoSid]
      <4>1. codex[d] \in Thread BY <2>1 DEF AdaptersOK
      <4>2. reset \in Thread BY <2>1, <4>1 DEF Thread
      <4>3. codex' = codex \/ codex' = [codex EXCEPT ![d] = reset] BY <1>1 DEF EndPrevious
      <4> HIDE DEF reset
      <4> QED BY <4>2, <4>3 DEF AdaptersOK
    <3> QED BY <1>1, <3>1, <3>2, <3>3 DEF EndPrevious, AdaptersOK
  <2>4. act' \in [Actors -> Call] BY <1>0, <1>1 DEF EndPrevious, MemoryOK, Call
  <2>5. CallsOK'
    <3>1. act'[a].desk = d /\ act'[a].runtime = act[a].runtime /\ act'[a].pc = "start"
          /\ \A b \in Actors : b # a => act'[b] = act[b]
      BY <1>0, <1>1 DEF EndPrevious, MemoryOK, Call
    <3> QED BY <2>1, <2>2, <3>1 DEF CallsOK
  <2>6. References' BY <1>1, <2>2 DEF EndPrevious, References
  <2>7. overlapped' \subseteq Desks BY <1>1, <2>1 DEF EndPrevious, HistoryOK
  <2> QED BY <1>1, <2>2, <2>3, <2>4, <2>5, <2>6, <2>7
          DEF EndPrevious, DesksOK, RowsOK, MemoryOK, HistoryOK
<1>13. CASE StartChild(a)
  <2> DEFINE p == Len(procs) + 1
             child == [desk |-> d, runtime |-> act[a].runtime, resume |-> act[a].resume,
                       alive |-> TRUE, reported |-> FALSE, row |-> "NONE", ready |-> FALSE,
                       native |-> NoSid]
  <2>1. d \in Desks /\ act[a].runtime \in Runtimes /\ act[a].resume \in Nat
    BY <1>0, <1>13 DEF StartChild, CallsOK, Call
  <2>2. p \in Nat /\ Len(procs) \in Nat /\ DOMAIN procs = 1..Len(procs) BY LenProperties DEF RowsOK
  <2>3. child \in Child BY <2>1 DEF Child, NoSid
  <2>4. procs' = Append(procs, child) BY <1>13 DEF StartChild
  <2>5. procs' \in Seq(Child) /\ Len(procs') = p
    <3> HIDE DEF child
    <3> QED BY <2>3, <2>4, AppendProperties DEF RowsOK
  <2>6. DOMAIN procs' = 1..p BY <2>5, LenProperties
  <2>7. act' \in [Actors -> Call] BY <1>0, <1>13, <2>2 DEF StartChild, MemoryOK, Call
  <2>8. CallsOK'
    <3>1. p \in DOMAIN procs' /\ DOMAIN procs \subseteq DOMAIN procs' BY <2>2, <2>6
    <3>2. act'[a].desk = d /\ act'[a].runtime = act[a].runtime /\ act'[a].proc = p
          /\ \A b \in Actors : b # a => act'[b] = act[b]
      BY <1>0, <1>13 DEF StartChild, MemoryOK, Call
    <3> QED BY <2>1, <3>1, <3>2 DEF CallsOK
  <2>9. References' BY <1>13, <2>2, <2>6 DEF StartChild, References, adapterVars
  <2> QED BY <1>13, <2>5, <2>7, <2>8, <2>9
          DEF StartChild, DesksOK, RowsOK, AdaptersOK, MemoryOK, HistoryOK, adapterVars, history
<1>14. CASE InsertTerminal(a)
  <2> DEFINE p == act[a].proc
  <2>1. d \in Desks /\ act[a].runtime \in Runtimes /\ p \in Nat /\ p \in DOMAIN procs
    BY <1>0, <1>14 DEF InsertTerminal, CallsOK, Call
  <2>2. AdaptersOK'
    <3>1. term' \in [Desks -> Nat] BY <1>14, <2>1 DEF InsertTerminal, AdaptersOK
    <3>2. codex' \in [Desks -> Thread]
      <4> DEFINE holding == [codex[d] EXCEPT !.live = p]
      <4>1. codex[d] \in Thread BY <2>1 DEF AdaptersOK
      <4>2. holding \in Thread BY <2>1, <4>1 DEF Thread
      <4>3. codex' = codex \/ codex' = [codex EXCEPT ![d] = holding] BY <1>14 DEF InsertTerminal
      <4> HIDE DEF holding
      <4> QED BY <4>2, <4>3 DEF AdaptersOK
    <3> QED BY <1>14, <3>1, <3>2 DEF InsertTerminal, AdaptersOK
  <2>3. act' \in [Actors -> Call] BY <1>0, <1>14 DEF InsertTerminal, MemoryOK, Call
  <2>4. CallsOK'
    <3>1. act'[a].desk = d /\ act'[a].runtime = act[a].runtime /\ act'[a].proc = p
          /\ \A b \in Actors : b # a => act'[b] = act[b]
      BY <1>0, <1>14 DEF InsertTerminal, MemoryOK, Call
    <3>2. procs' = procs BY <1>14 DEF InsertTerminal
    <3> QED BY <2>1, <3>1, <3>2 DEF CallsOK
  <2>5. References' BY <1>14 DEF InsertTerminal, References
  <2> QED BY <1>14, <2>2, <2>3, <2>4, <2>5
          DEF InsertTerminal, DesksOK, RowsOK, MemoryOK, HistoryOK, history
<1>2. ASSUME NEW error, GiveUp(a, error), act[a].pc # "drain" PROVE TypeInv'
  <2>1. d \in Desks /\ act[a].inbox \in Seq(AdapterEvent) BY <1>0, <1>2 DEF CallsOK, Call
  <2>2. act' \in [Actors -> Call] /\ CallsKept BY <1>2, <2>1, HoldType DEF GiveUp, MemoryOK
  <2>3. prompts' \in Seq(PromptRow) /\ DOMAIN prompts' = DOMAIN prompts
    BY <1>2, ActivationFailedType DEF GiveUp, RowsOK
  <2>4. CallsOK' BY <1>2, <2>2, KeptCalls DEF GiveUp
  <2>5. activating' \in [Desks -> Seq(AdapterEvent) \cup {NotActivating}]
    BY <1>2, <2>1 DEF GiveUp, MemoryOK
  <2> QED BY <1>2, <2>2, <2>3, <2>4, <2>5
          DEF GiveUp, DesksOK, RowsOK, AdaptersOK, MemoryOK, HistoryOK, References, adapterVars,
              history
<1>3. CASE SpawnFails(a) BY <1>2, <1>3 DEF SpawnFails
<1>4. CASE OpenRefused(a) BY <1>2, <1>4 DEF OpenRefused
<1>5. CASE OpenProcess(a)
  <2> DEFINE p == act[a].proc
  <2>1. d \in Desks /\ p \in DOMAIN procs BY <1>5 DEF OpenProcess, CallsOK
  <2>2. \A q \in DOMAIN procs : procs[q] \in Child BY LenProperties, ElementOfSeq DEF RowsOK
  <2>3. DOMAIN procs = 1..Len(procs) /\ Len(procs) \in Nat BY LenProperties DEF RowsOK
  <2>4. KnownSession(p) \in Nat BY <2>1, <2>2, <2>3 DEF KnownSession, SessionOf, Child
  <2>5. procs' \in [DOMAIN procs -> Child]
    <3> DEFINE opened == [procs[p] EXCEPT !.row = "OPEN", !.native = KnownSession(p)]
    <3>1. opened \in Child BY <2>1, <2>2, <2>4 DEF Child
    <3>2. procs' = [procs EXCEPT ![p] = opened] BY <1>5 DEF OpenProcess
    <3> HIDE DEF opened
    <3> QED BY <2>2, <2>3, <3>1, <3>2
  <2>6. procs' \in Seq(Child) /\ DOMAIN procs' = DOMAIN procs BY <2>5, Rows DEF RowsOK
  <2>7. prompts' \in Seq(PromptRow) /\ DOMAIN prompts \subseteq DOMAIN prompts'
    <3>1. CASE UNCHANGED prompts BY <3>1 DEF RowsOK
    <3>2. ASSUME NEW at \in Oldest(d), prompts' = prompts \o ActivationPrompts(d, at)
          PROVE  <2>7
      <4>1. DOMAIN prompts = 1..Len(prompts) /\ Len(prompts) \in Nat
            /\ \A q \in DOMAIN prompts : prompts[q] \in PromptRow
        BY LenProperties, ElementOfSeq DEF RowsOK
      <4>2. at \in Int BY <4>1, <3>2 DEF Oldest, Heads, Queued, PromptRow
      <4>3. /\ NewPrompt(d, "DISCLOSURE", at - 2) \in PromptRow
            /\ NewPrompt(d, "ORIENTATION", at - 1) \in PromptRow
        BY <2>1, <4>2 DEF NewPrompt, PromptRow
      <4>4. ActivationPrompts(d, at) \in Seq(PromptRow)
        BY <4>3, ConcatProperties, EmptySeq DEF ActivationPrompts
      <4>5. prompts' \in Seq(PromptRow) /\ Len(prompts') = Len(prompts) + Len(ActivationPrompts(d, at))
        BY <3>2, <4>4, ConcatProperties DEF RowsOK
      <4>6. DOMAIN prompts' = 1..Len(prompts') /\ Len(prompts') \in Nat
            /\ Len(ActivationPrompts(d, at)) \in Nat
        BY <4>4, <4>5, LenProperties
      <4> QED BY <4>1, <4>5, <4>6
    <3> QED BY <1>5, <3>1, <3>2 DEF OpenProcess
  <2>8. act' \in [Actors -> Call] /\ CallsOK'
    <3>1. act' \in [Actors -> Call] BY <1>0, <1>5 DEF OpenProcess, MemoryOK, Call
    <3>2. act'[a].desk = d /\ act'[a].runtime = act[a].runtime /\ act'[a].proc = p
          /\ \A b \in Actors : b # a => act'[b] = act[b]
      BY <1>0, <1>5 DEF OpenProcess, MemoryOK, Call
    <3> QED BY <1>5, <2>1, <2>6, <3>1, <3>2 DEF CallsOK, OpenProcess
  <2> QED BY <1>5, <2>6, <2>7, <2>8
          DEF OpenProcess, DesksOK, RowsOK, AdaptersOK, MemoryOK, HistoryOK, References,
              adapterVars, history
<1>6. CASE Install(a)
  <2> DEFINE p == act[a].proc
             held == IF activating[d] = NotActivating THEN <<>> ELSE activating[d]
             entry == [proc |-> p, runtime |-> act[a].runtime, resume |-> act[a].resume,
                       explicit |-> act[a].explicit, ready |-> FALSE]
  <2>1. d \in Desks /\ act[a].runtime \in Runtimes /\ p \in DOMAIN procs
    BY <1>6 DEF Install, CallsOK
  <2>2. \A q \in DOMAIN procs : procs[q] \in Child BY LenProperties, ElementOfSeq DEF RowsOK
  <2>3. DOMAIN procs = 1..Len(procs) /\ Len(procs) \in Nat BY LenProperties DEF RowsOK
  <2>4. KnownSession(p) \in Nat BY <2>1, <2>2, <2>3 DEF KnownSession, SessionOf, Child
  <2>5. pointer' \in [Desks -> [Runtimes -> Nat]] BY <1>6, <2>1, <2>4 DEF Install, DesksOK
  <2>6. entry \in LiveEntry BY <1>0, <2>1 DEF LiveEntry, Call
  <2>7. live' \in [Desks -> LiveEntry] /\ activating' \in [Desks -> Seq(AdapterEvent) \cup {NotActivating}]
    <3> HIDE DEF entry
    <3>1. live' = [live EXCEPT ![d] = entry] BY <1>6 DEF Install, entry
    <3> QED BY <1>6, <2>1, <2>6, <3>1 DEF Install, MemoryOK
  <2>8. held \o act[a].inbox \in Seq(AdapterEvent)
    <3>1. held \in Seq(AdapterEvent) BY <2>1, EmptySeq DEF MemoryOK
    <3>2. act[a].inbox \in Seq(AdapterEvent) BY <1>0 DEF Call
    <3> QED BY <3>1, <3>2, ConcatProperties
  <2>9. act' \in [Actors -> Call] /\ CallsKept BY <1>6, <2>8, HoldType DEF Install, MemoryOK
  <2>10. CallsOK' BY <1>6, <2>9, KeptCalls DEF Install
  <2> QED BY <1>6, <2>5, <2>7, <2>9, <2>10
          DEF Install, DesksOK, RowsOK, AdaptersOK, MemoryOK, HistoryOK, References, adapterVars,
              history
<1>7. CASE Drain(a)
  <2>1. act[a].inbox \in Seq(AdapterEvent) BY <1>0 DEF Call
  <2>2. Head(act[a].inbox) \in AdapterEvent /\ Tail(act[a].inbox) \in Seq(AdapterEvent)
    BY <1>7, <2>1, HeadTailProperties DEF Drain
  <2>3. Event(a, Tail(act[a].inbox), Head(act[a].inbox)) BY <1>7 DEF Drain
  <2>4. /\ act' \in [Actors -> Call] /\ CallsKept
        /\ activating' \in [Desks -> Seq(AdapterEvent) \cup {NotActivating}]
        /\ live' \in [Desks -> LiveEntry]
        /\ pointer' \in [Desks -> [Runtimes -> Nat]]
        /\ prompts' \in Seq(PromptRow) /\ DOMAIN prompts' = DOMAIN prompts
        /\ procs' \in Seq(Child) /\ DOMAIN procs' = DOMAIN procs
    BY <2>2, <2>3, EventType
  <2>5. CallsOK' BY <2>4, KeptCalls
  <2> QED BY <1>7, <2>3, <2>4, <2>5
          DEF Drain, Event, DesksOK, RowsOK, AdaptersOK, MemoryOK, HistoryOK, References,
              adapterVars, history
<1> QED BY <1>1, <1>13, <1>14, <1>3, <1>4, <1>5, <1>6, <1>7 DEF ActorStep, Spawn

\* A prompt is handed to a session that has an identity.
LEMMA ReceiverType ==
  ASSUME TypeOK, References, disp.pc = "call"
  PROVE  Receiver(prompts[disp.prompt].desk, procs[disp.proc].runtime) \in Nat
<1> DEFINE d == prompts[disp.prompt].desk
<1>0. /\ \A q \in DOMAIN prompts : prompts[q] \in PromptRow
      /\ \A q \in DOMAIN procs : procs[q] \in Child
      /\ DOMAIN procs = 1..Len(procs) /\ Len(procs) \in Nat
  BY LenProperties, ElementOfSeq DEF TypeOK, RowsOK
<1>1. d \in Desks BY <1>0 DEF PromptRow, References
<1>2. codex[d] \in Thread /\ chan[d] \in (DOMAIN procs) \cup {NoProc}
  BY <1>1 DEF TypeOK, AdaptersOK, References
<1>3. codex[d].thread \in Nat BY <1>2 DEF Thread
<1>4. chan[d] # NoProc => SessionOf(chan[d]) \in Nat BY <1>0, <1>2 DEF SessionOf, Child
<1> QED BY <1>3, <1>4 DEF Receiver, NoSid

LEMMA DeliveryTypes ==
  ASSUME TypeInv, Delivery
  PROVE  TypeInv'
<1> USE DEF TypeInv, TypeOK
<1>0. /\ \A q \in DOMAIN prompts : prompts[q] \in PromptRow
      /\ \A q \in DOMAIN procs : procs[q] \in Child
      /\ DOMAIN prompts = 1..Len(prompts) /\ Len(prompts) \in Nat
      /\ DOMAIN procs = 1..Len(procs) /\ Len(procs) \in Nat
  BY LenProperties, ElementOfSeq DEF RowsOK
<1>1. disp \in LoopState /\ disp.todo \in SUBSET Desks BY DEF MemoryOK, LoopState
<1>2. At("queue", disp.todo) \in LoopState /\ At("queue", disp.todo).pc = "queue" BY <1>1, AtType
<1>3. CASE MarkAttempted
  <2>1. prompts' \in [DOMAIN prompts -> PromptRow]
    <3> DEFINE marked == [prompts[disp.prompt] EXCEPT !.attempted = TRUE]
    <3>1. disp.prompt \in DOMAIN prompts => marked \in PromptRow BY <1>0, PromptMarked
    <3>2. prompts' = [prompts EXCEPT ![disp.prompt] = marked] BY <1>3 DEF MarkAttempted
    <3> HIDE DEF marked
    <3> QED BY <1>0, <3>1, <3>2 DEF RowsOK
  <2>2. prompts' \in Seq(PromptRow) /\ DOMAIN prompts' = DOMAIN prompts
    BY <2>1, Rows DEF RowsOK
  <2>3. disp' \in LoopState /\ disp'.prompt = disp.prompt
    BY <1>1, <1>3 DEF MarkAttempted, LoopState
  <2>4. References' BY <1>3, <2>2, <2>3 DEF MarkAttempted, References, Looping, adapterVars
  <2> QED BY <1>3, <2>2, <2>3, <2>4
          DEF MarkAttempted, DesksOK, RowsOK, AdaptersOK, MemoryOK, HistoryOK, CallsOK,
              adapterVars, history
<1>4. ASSUME NEW runtimes, NEW received \in BOOLEAN,
             NEW outcome \in {"DELIVERED", "DELIVERY_REFUSED", "HANDOFF_UNKNOWN",
                              "CHANNEL_UNAVAILABLE"},
             HandOver(runtimes, received, outcome)
      PROVE  TypeInv'
  <2> DEFINE d == prompts[disp.prompt].desk
             to == Receiver(d, procs[disp.proc].runtime)
  <2>1. disp.pc = "call" /\ disp.prompt \in DOMAIN prompts
    BY <1>4 DEF HandOver, Looping, References
  <2>4. to \in Nat BY <2>1, ReceiverType
  <2>5. handed' \in Seq([prompt : Nat, proc : Nat, to : Nat])
    <3>1. [prompt |-> disp.prompt, proc |-> disp.proc, to |-> to] \in [prompt : Nat, proc : Nat, to : Nat]
      BY <1>1, <2>4 DEF LoopState
    <3> HIDE DEF to
    <3>2. CASE UNCHANGED handed BY <3>2 DEF HistoryOK
    <3>3. CASE handed' = Append(handed, [prompt |-> disp.prompt, proc |-> disp.proc, to |-> to])
      BY <3>1, <3>3, AppendProperties DEF HistoryOK
    <3> QED BY <1>4, <3>2, <3>3 DEF HandOver, to
  <2>6. disp' \in LoopState /\ disp'.prompt = disp.prompt
    BY <1>1, <1>4 DEF HandOver, LoopState
  <2>7. References' BY <1>4, <2>1, <2>6 DEF HandOver, References, adapterVars
  <2> QED BY <1>4, <2>5, <2>6, <2>7
          DEF HandOver, DesksOK, RowsOK, AdaptersOK, MemoryOK, HistoryOK, CallsOK, adapterVars
<1>5. CASE Settle BY <1>4, <1>5
  DEF Settle, Delivers, DeliveryRefused, HandoffUnknown, ChannelUnavailable
<1>6. CASE Waiting
  <2>1. prompts' \in [DOMAIN prompts -> PromptRow]
    <3> DEFINE waiting == [prompts[disp.prompt] EXCEPT !.attempted = FALSE]
    <3>1. disp.prompt \in DOMAIN prompts => waiting \in PromptRow BY <1>0, PromptMarked
    <3>2. prompts' = [prompts EXCEPT ![disp.prompt] = waiting] BY <1>6 DEF Waiting
    <3> HIDE DEF waiting
    <3> QED BY <1>0, <3>1, <3>2 DEF RowsOK
  <2>2. prompts' \in Seq(PromptRow) /\ DOMAIN prompts' = DOMAIN prompts
    BY <2>1, Rows DEF RowsOK
  <2>3. References' BY <1>2, <1>6, <2>2 DEF Waiting, References, adapterVars
  <2> QED BY <1>2, <1>6, <2>2, <2>3
          DEF Waiting, DesksOK, RowsOK, AdaptersOK, MemoryOK, HistoryOK, CallsOK,
              adapterVars, history
<1>7. CASE Resolve
  <2>1. disp.outcome = "DELIVERED" \/ disp.outcome \in {"none", "DELIVERY_REFUSED",
          "HANDOFF_UNKNOWN", "CHANNEL_UNAVAILABLE"}
    BY <1>1 DEF LoopState
  <2> DEFINE delivered == disp.outcome = "DELIVERED"
             settled(q) == [prompts[q] EXCEPT !.state = IF delivered THEN "DELIVERED" ELSE "FAILED",
                                              !.failure = IF delivered THEN "none" ELSE disp.outcome]
             named(q) == [prompts[q] EXCEPT !.disclosed = prompts[q].disclosed + 1]
  <2>5. \A q \in DOMAIN prompts : settled(q) \in PromptRow BY <1>0, <2>1 DEF PromptRow
  <2>6. \A q \in DOMAIN prompts : named(q) \in PromptRow BY <1>0 DEF PromptRow
  <2>7. prompts' = [q \in DOMAIN prompts |->
          IF q = disp.prompt THEN settled(q)
          ELSE IF delivered /\ q \in disp.named THEN named(q) ELSE prompts[q]]
    BY <1>7 DEF Resolve
  <2>2. prompts' \in [DOMAIN prompts -> PromptRow]
    <3> HIDE DEF settled, named
    <3> QED BY <1>0, <2>5, <2>6, <2>7
  <2>3. prompts' \in Seq(PromptRow) /\ DOMAIN prompts' = DOMAIN prompts
    BY <2>2, Rows DEF RowsOK
  <2>4. References' BY <1>2, <1>7, <2>3 DEF Resolve, References, adapterVars
  <2> QED BY <1>2, <1>7, <2>3, <2>4
          DEF Resolve, DesksOK, RowsOK, AdaptersOK, MemoryOK, HistoryOK, CallsOK,
              adapterVars, history
<1> QED BY <1>3, <1>5, <1>6, <1>7 DEF Delivery

LEMMA LoopTypes ==
  ASSUME TypeInv, Loop
  PROVE  TypeInv'
<1> USE DEF TypeInv, TypeOK
<1>0. /\ DOMAIN prompts = 1..Len(prompts) /\ Len(prompts) \in Nat
      /\ DOMAIN procs = 1..Len(procs) /\ Len(procs) \in Nat
  BY LenProperties DEF RowsOK
<1>1. disp \in LoopState /\ disp.todo \in SUBSET Desks BY DEF MemoryOK, LoopState
<1>2. Dispatcher \in Actors BY DEF Actors
<1>3. <<>> \in Seq(AdapterEvent) BY EmptySeq
<1>4. ASSUME NEW pc \in {"pass", "queue", "deadlines"}, NEW todo \in SUBSET Desks,
             disp' = At(pc, todo), UNCHANGED chan, DOMAIN procs' = DOMAIN procs
      PROVE  disp' \in LoopState /\ References'
  BY <1>4, AtType DEF References
<1>5. ASSUME NEW pc \in {"pass", "queue", "deadlines"}, NEW todo \in SUBSET Desks,
             disp' = At(pc, todo),
             UNCHANGED <<selected, available, pointer, prompts, procs, adapterVars, events, up,
                         live, activating, act, history>>
      PROVE  TypeInv'
  <2>1. disp' \in LoopState /\ References' BY <1>4, <1>5 DEF adapterVars
  <2> QED BY <1>5, <2>1
          DEF DesksOK, RowsOK, AdaptersOK, MemoryOK, HistoryOK, CallsOK, adapterVars, history
<1>6. CASE Pass BY <1>5, <1>6 DEF Pass
<1>7. ASSUME NEW d \in Desks, Visit(d) PROVE TypeInv'
  <2> DEFINE p == LiveProcess(procs, d)
             rest == At("queue", disp.todo \ {d})
  <2>1. disp.todo \ {d} \in SUBSET Desks BY <1>1
  <2>2. CASE disp' = rest /\ Activate(Dispatcher, <<>>, procs, pointer, d, "AUTO", "queue")
    <3>1. /\ act' \in [Actors -> Call] /\ CallsKept
          /\ activating' \in [Desks -> Seq(AdapterEvent) \cup {NotActivating}]
          /\ prompts' \in Seq(PromptRow) /\ DOMAIN prompts' = DOMAIN prompts
      BY <1>2, <1>3, <2>2, ActivateType DEF DesksOK
    <3>2. procs' = procs /\ chan' = chan BY <1>7 DEF Visit, adapterVars
    <3>3. CallsOK' BY <3>1, <3>2, KeptCalls
    <3>4. disp' \in LoopState /\ References' BY <1>4, <2>1, <2>2, <3>2
    <3> QED BY <1>7, <3>1, <3>3, <3>4
            DEF Visit, DesksOK, RowsOK, AdaptersOK, MemoryOK, HistoryOK, adapterVars, history
  <2>3. ASSUME NEW head \in Heads(d),
               disp' = [rest EXCEPT !.pc = "attempt", !.proc = p, !.prompt = head,
                          !.named = IF prompts[head].kind = "DISCLOSURE"
                                      THEN Undisclosed(d) ELSE {}],
               UNCHANGED <<prompts, activating, act>>
        PROVE  TypeInv'
    <3>1. head \in DOMAIN prompts /\ Undisclosed(d) \subseteq DOMAIN prompts
      BY DEF Heads, Queued, Undisclosed
    <3>2. p \in Nat BY LiveProcessType DEF RowsOK
    <3>3. head \in Nat /\ (IF prompts[head].kind = "DISCLOSURE" THEN Undisclosed(d) ELSE {})
                             \in SUBSET Nat
      BY <1>0, <3>1
    <3>4. disp' \in LoopState /\ disp'.prompt = head
      <4> HIDE DEF p
      <4> QED BY <2>1, <2>3, <3>2, <3>3 DEF LoopState, At
    <3>5. References' BY <1>7, <3>1, <3>4, <2>3 DEF Visit, References, adapterVars
    <3> QED BY <1>7, <2>3, <3>4, <3>5
            DEF Visit, DesksOK, RowsOK, AdaptersOK, MemoryOK, HistoryOK, CallsOK, adapterVars,
                history
  <2>4. CASE disp' = rest /\ UNCHANGED <<prompts, activating, act>>
    BY <1>5, <1>7, <2>1, <2>4 DEF Visit
  <2> QED BY <1>7, <2>2, <2>3, <2>4 DEF Visit
<1>8. CASE CheckDeadlines
  <2>1. PICK expired \in SUBSET Desks : disp' = At("deadlines", expired)
    BY <1>8 DEF CheckDeadlines
  <2> QED BY <1>5, <1>8, <2>1 DEF CheckDeadlines
<1>9. ASSUME NEW d \in Desks, NEW reason \in {"ENDED", "CONTROL_PLANE_LOST"},
             NEW pc \in {"pass", "queue", "deadlines"}, NEW todo \in SUBSET Desks,
             Ended(Dispatcher, <<>>, d, reason), disp' = At(pc, todo),
             exits' \in Seq(TerminalExit), events' \in Seq(AdapterEvent),
             UNCHANGED <<selected, available, term, codex, chan, restarts, up, history>>
      PROVE  TypeInv'
  <2>1. /\ act' \in [Actors -> Call] /\ CallsKept
        /\ activating' \in [Desks -> Seq(AdapterEvent) \cup {NotActivating}]
        /\ live' \in [Desks -> LiveEntry]
        /\ pointer' \in [Desks -> [Runtimes -> Nat]]
        /\ prompts' \in Seq(PromptRow) /\ DOMAIN prompts' = DOMAIN prompts
        /\ procs' \in Seq(Child) /\ DOMAIN procs' = DOMAIN procs
    BY <1>2, <1>3, <1>9, EndedType
  <2>2. CallsOK' BY <2>1, KeptCalls
  <2>3. disp' \in LoopState /\ References' BY <1>4, <1>9, <2>1
  <2> QED BY <1>9, <2>1, <2>2, <2>3
          DEF DesksOK, RowsOK, AdaptersOK, MemoryOK, HistoryOK, history
<1>10. ASSUME NEW d \in Desks, Expire(d) PROVE TypeInv'
  <2>1. disp.todo \ {d} \in SUBSET Desks BY <1>1
  <2>2. exits' \in Seq(TerminalExit) /\ events' \in Seq(AdapterEvent)
    BY <1>10 DEF Expire, AdaptersOK, adapterVars
  <2> QED BY <1>9, <1>10, <2>1, <2>2 DEF Expire, adapterVars
<1>11. CASE Wake BY <1>5, <1>11 DEF Wake
<1>12. CASE RecvEvent
  <2>1. Head(events) \in AdapterEvent /\ Tail(events) \in Seq(AdapterEvent)
    BY <1>12, HeadTailProperties DEF RecvEvent, AdaptersOK
  <2>2. Event(Dispatcher, <<>>, Head(events)) BY <1>12 DEF RecvEvent
  <2>3. /\ act' \in [Actors -> Call] /\ CallsKept
        /\ activating' \in [Desks -> Seq(AdapterEvent) \cup {NotActivating}]
        /\ live' \in [Desks -> LiveEntry]
        /\ pointer' \in [Desks -> [Runtimes -> Nat]]
        /\ prompts' \in Seq(PromptRow) /\ DOMAIN prompts' = DOMAIN prompts
        /\ procs' \in Seq(Child) /\ DOMAIN procs' = DOMAIN procs
    BY <1>2, <1>3, <2>1, <2>2, EventType
  <2>4. CallsOK' BY <2>3, KeptCalls
  <2>5. disp' \in LoopState /\ References'
    BY <1>4, <1>12, <2>2, <2>3 DEF RecvEvent, Event, adapterVars
  <2> QED BY <1>12, <2>1, <2>2, <2>3, <2>4, <2>5
          DEF RecvEvent, Event, DesksOK, RowsOK, AdaptersOK, MemoryOK, HistoryOK, adapterVars,
              history
<1>13. CASE RecvExit
  <2>1. Head(exits) \in TerminalExit /\ Tail(exits) \in Seq(TerminalExit)
    BY <1>13, HeadTailProperties DEF RecvExit, AdaptersOK
  <2>2. Head(exits).desk \in Desks
    BY <2>1 DEF TerminalExit
  <2>3. exits' \in Seq(TerminalExit) /\ events' \in Seq(AdapterEvent)
    BY <1>13, <2>1 DEF RecvExit, AdaptersOK
  <2>4. CASE Ended(Dispatcher, <<>>, Head(exits).desk, "ENDED")
    BY <1>9, <1>13, <2>2, <2>3, <2>4 DEF RecvExit
  <2>5. CASE UNCHANGED <<pointer, prompts, procs, live, activating, act>>
    <3>1. disp' \in LoopState /\ References' BY <1>4, <1>13, <2>5 DEF RecvExit
    <3> QED BY <1>13, <2>3, <2>5, <3>1
            DEF RecvExit, DesksOK, RowsOK, AdaptersOK, MemoryOK, HistoryOK, CallsOK, history
  <2> QED BY <1>13, <2>4, <2>5 DEF RecvExit
<1> QED BY <1>6, <1>7, <1>8, <1>10, <1>11, <1>12, <1>13 DEF Loop

LEMMA ExitType ==
  ASSUME AdaptersOK, procs \in Seq(Child), NEW d \in Desks, Exit(d)
  PROVE  /\ codex' \in [Desks -> Thread]
         /\ procs' \in Seq(Child) /\ DOMAIN procs' = DOMAIN procs
         /\ exits' \in Seq(TerminalExit)
         /\ term' \in [Desks -> Nat]
<1>1. codex' \in [Desks -> Thread]
  <2>1. CASE UNCHANGED codex BY <2>1 DEF AdaptersOK
  <2>2. CASE codex' = [codex EXCEPT ![d] = [@ EXCEPT !.live = NoProc, !.ready = FALSE,
                                                     !.awaiting = FALSE]]
    BY <2>2 DEF AdaptersOK, Thread, NoProc
  <2> QED BY <2>1, <2>2 DEF Exit
<1>2. procs' \in Seq(Child) /\ DOMAIN procs' = DOMAIN procs BY ShutdownType DEF Exit
<1>3. exits' \in Seq(TerminalExit)
  BY ShutdownExitsType, ConcatProperties DEF Exit, AdaptersOK
<1>4. term' \in [Desks -> Nat] BY DEF Exit, AdaptersOK, NoProc
<1> QED BY <1>1, <1>2, <1>3, <1>4

LEMMA RouteTypes ==
  ASSUME TypeInv, NEW r \in Routes, RouteStep(r)
  PROVE  TypeInv'
<1> USE DEF TypeInv, TypeOK
<1>0. r \in Actors /\ act[r] \in Call BY DEF Actors, MemoryOK
<1>1. <<>> \in Seq(AdapterEvent) BY EmptySeq
<1>2. ASSUME NEW d \in Desks, NEW mode, SessionActivate(r, d, mode) PROVE TypeInv'
  <2>1. /\ act' \in [Actors -> Call] /\ CallsKept
        /\ activating' \in [Desks -> Seq(AdapterEvent) \cup {NotActivating}]
        /\ prompts' \in Seq(PromptRow) /\ DOMAIN prompts' = DOMAIN prompts
    BY <1>0, <1>1, <1>2, ActivateType DEF SessionActivate, DesksOK
  <2>2. CallsOK' BY <1>2, <2>1, KeptCalls DEF SessionActivate
  <2> QED BY <1>2, <2>1, <2>2
          DEF SessionActivate, DesksOK, RowsOK, AdaptersOK, MemoryOK, HistoryOK, References,
              adapterVars, history
<1>3. ASSUME NEW d \in Desks, SessionSwitch(r, d) PROVE TypeInv'
  <2>1. PICK target \in Runtimes : act' = [act EXCEPT ![r] =
          [Holding(<<>>) EXCEPT !.pc = "close", !.desk = d, !.runtime = target]]
    BY <1>3 DEF SessionSwitch
  <2> DEFINE call == [Holding(<<>>) EXCEPT !.pc = "close", !.desk = d, !.runtime = target]
  <2>2. call \in Call /\ call.pc = "close" /\ call.desk = d /\ call.runtime = target
    BY <1>1 DEF Holding, Call, NoSid, NoProc
  <2>3. /\ codex' \in [Desks -> Thread]
        /\ procs' \in Seq(Child) /\ DOMAIN procs' = DOMAIN procs
        /\ exits' \in Seq(TerminalExit)
        /\ term' \in [Desks -> Nat]
    <3>1. CASE Exit(d) BY <3>1, ExitType DEF RowsOK
    <3>2. CASE UNCHANGED <<codex, procs, exits, term>> BY <3>2 DEF AdaptersOK, RowsOK
    <3> QED BY <1>3, <3>1, <3>2 DEF SessionSwitch
  <2>4. act' \in [Actors -> Call] /\ CallsOK'
    <3> HIDE DEF call
    <3>1. act' = [act EXCEPT ![r] = call] BY <2>1 DEF call
    <3> QED BY <2>2, <2>3, <3>1 DEF MemoryOK, CallsOK
  <2> QED BY <1>3, <2>3, <2>4
          DEF SessionSwitch, DesksOK, RowsOK, AdaptersOK, MemoryOK, HistoryOK, References,
              history
<1>4. CASE SwitchClosed(r)
  <2>1. act' \in [Actors -> Call] /\ CallsOK'
    <3>1. CASE act' = [act EXCEPT ![r].pc = "switch"]
      BY <1>0, <1>4, <3>1 DEF SwitchClosed, CallsOK, MemoryOK, Call
    <3>2. CASE act' = [act EXCEPT ![r] = Holding(<<>>)]
      <4>1. act' \in [Actors -> Call] /\ CallsKept BY <1>0, <1>1, <3>2, HoldType DEF MemoryOK
      <4> QED BY <1>4, <4>1, KeptCalls DEF SwitchClosed
    <3> QED BY <1>4, <3>1, <3>2 DEF SwitchClosed
  <2> QED BY <1>4, <2>1
          DEF SwitchClosed, DesksOK, RowsOK, AdaptersOK, MemoryOK, HistoryOK, References,
              adapterVars, history
<1>5. CASE SwitchRuntime(r)
  <2>1. act[r].desk \in Desks /\ act[r].runtime \in Runtimes
    BY <1>0, <1>5 DEF SwitchRuntime, CallsOK
  <2>2. act' \in [Actors -> Call] /\ CallsKept
    BY <1>0, <1>1, <1>5, HoldType DEF SwitchRuntime, MemoryOK
  <2>3. CallsOK' BY <1>5, <2>2, KeptCalls DEF SwitchRuntime
  <2>4. selected' \in [Desks -> Runtimes] BY <1>5, <2>1 DEF SwitchRuntime, DesksOK
  <2> QED BY <1>5, <2>2, <2>3, <2>4
          DEF SwitchRuntime, DesksOK, RowsOK, AdaptersOK, MemoryOK, HistoryOK, References,
              adapterVars, history
<1> QED BY <1>2, <1>3, <1>4, <1>5 DEF RouteStep

LEMMA EnvironmentTypes ==
  ASSUME TypeInv, Environment
  PROVE  TypeInv'
<1> USE DEF TypeInv, TypeOK
<1>0. /\ \A q \in DOMAIN procs : procs[q] \in Child
      /\ DOMAIN prompts = 1..Len(prompts) /\ Len(prompts) \in Nat
      /\ DOMAIN procs = 1..Len(procs) /\ Len(procs) \in Nat
  BY LenProperties, ElementOfSeq DEF RowsOK
<1>1. ASSUME NEW d \in Desks, Enqueue(d) PROVE TypeInv'
  <2>1. NewPrompt(d, "RESULT", Len(prompts) + 1) \in PromptRow
    BY <1>0 DEF NewPrompt, PromptRow
  <2>2. prompts' \in Seq(PromptRow) /\ Len(prompts') = Len(prompts) + 1
    BY <1>1, <2>1, AppendProperties DEF Enqueue, RowsOK
  <2>3. DOMAIN prompts \subseteq DOMAIN prompts' BY <1>0, <2>2, LenProperties
  <2> QED BY <1>1, <2>2, <2>3
          DEF Enqueue, DesksOK, RowsOK, AdaptersOK, MemoryOK, HistoryOK, CallsOK, References,
              adapterVars, history
<1>2. ASSUME NEW d \in Desks, SessionExit(d) PROVE TypeInv'
  <2>1. /\ codex' \in [Desks -> Thread]
        /\ procs' \in Seq(Child) /\ DOMAIN procs' = DOMAIN procs
        /\ exits' \in Seq(TerminalExit)
        /\ term' \in [Desks -> Nat]
    BY <1>2, ExitType DEF SessionExit, RowsOK
  <2> QED BY <1>2, <2>1
          DEF SessionExit, DesksOK, RowsOK, AdaptersOK, MemoryOK, HistoryOK, CallsOK,
              References, history
<1>3. ASSUME NEW e \in AdapterEvent, events' = Append(events, e)
      PROVE  events' \in Seq(AdapterEvent)
  BY <1>3, AppendProperties DEF AdaptersOK
<1>4. ASSUME NEW d \in Desks, ThreadIdle(d) PROVE TypeInv'
  <2>1. codex' \in [Desks -> Thread] BY <1>4 DEF ThreadIdle, AdaptersOK, Thread
  <2>2. events' \in Seq(AdapterEvent)
    <3>1. [kind |-> "Ready", desk |-> d, sid |-> NoSid] \in AdapterEvent
      BY DEF AdapterEvent, NoSid
    <3> QED BY <1>3, <1>4, <3>1 DEF ThreadIdle
  <2> QED BY <1>4, <2>1, <2>2
          DEF ThreadIdle, DesksOK, RowsOK, AdaptersOK, MemoryOK, HistoryOK, CallsOK,
              References, history
<1>5. ASSUME NEW d \in Desks, ChannelCloses(d) PROVE TypeInv'
  <2>1. chan' \in [Desks -> Nat] /\ References'
    BY <1>5 DEF ChannelCloses, AdaptersOK, References, NoProc
  <2> QED BY <1>5, <2>1
          DEF ChannelCloses, DesksOK, RowsOK, AdaptersOK, MemoryOK, HistoryOK, CallsOK, history
<1>6. ASSUME NEW p \in DOMAIN procs, ChildExits(p) PROVE TypeInv'
  <2>1. procs' \in [DOMAIN procs -> Child] BY <1>0, <1>6 DEF ChildExits, Child
  <2>2. procs' \in Seq(Child) /\ DOMAIN procs' = DOMAIN procs BY <2>1, Rows DEF RowsOK
  <2>3. [desk |-> procs[p].desk, proc |-> p] \in TerminalExit
    BY <1>0, <1>6 DEF TerminalExit, Child
  <2>4. exits' \in Seq(TerminalExit) BY <1>6, <2>3, AppendProperties DEF ChildExits, AdaptersOK
  <2> QED BY <1>6, <2>2, <2>4
          DEF ChildExits, DesksOK, RowsOK, AdaptersOK, MemoryOK, HistoryOK, CallsOK,
              References, history
<1>7. ASSUME NEW p \in DOMAIN procs, ThreadStarted(p) PROVE TypeInv'
  <2> DEFINE d == procs[p].desk
  <2>1. d \in Desks /\ p \in Nat BY <1>0, <1>7 DEF Child
  <2>2. procs' \in [DOMAIN procs -> Child] BY <1>0, <1>7 DEF ThreadStarted, Child
  <2>3. procs' \in Seq(Child) /\ DOMAIN procs' = DOMAIN procs BY <2>2, Rows DEF RowsOK
  <2>4. codex' \in [Desks -> Thread]
    <3>1. codex' = [codex EXCEPT ![d] = [@ EXCEPT !.thread = p, !.awaiting = FALSE,
                                                  !.loaded = TRUE]]
      BY <1>7 DEF ThreadStarted
    <3> HIDE DEF d
    <3> QED BY <2>1, <3>1 DEF AdaptersOK, Thread
  <2>5. events' \in Seq(AdapterEvent)
    <3>1. [kind |-> "PointerDiscovered", desk |-> d, sid |-> p] \in AdapterEvent
      BY <2>1 DEF AdapterEvent
    <3> QED BY <1>3, <1>7, <3>1 DEF ThreadStarted
  <2> QED BY <1>7, <2>3, <2>4, <2>5
          DEF ThreadStarted, DesksOK, RowsOK, AdaptersOK, MemoryOK, HistoryOK, CallsOK,
              References, history
<1>8. ASSUME NEW p \in DOMAIN procs, ChannelConnects(p) PROVE TypeInv'
  <2> DEFINE d == procs[p].desk
  <2>1. d \in Desks /\ p \in Nat BY <1>0, <1>8 DEF Child
  <2>2. procs' \in [DOMAIN procs -> Child] BY <1>0, <1>8 DEF ChannelConnects, Child
  <2>3. procs' \in Seq(Child) /\ DOMAIN procs' = DOMAIN procs BY <2>2, Rows DEF RowsOK
  <2>4. chan' = [chan EXCEPT ![d] = p] BY <1>8 DEF ChannelConnects
  <2>5. chan' \in [Desks -> Nat] /\ References'
    <3> HIDE DEF d
    <3>1. chan' \in [Desks -> Nat] BY <2>1, <2>4 DEF AdaptersOK
    <3>2. \A c \in Desks : chan'[c] \in (DOMAIN procs') \cup {NoProc}
      BY <1>8, <2>1, <2>3, <2>4 DEF AdaptersOK, References
    <3> QED BY <1>8, <3>1, <3>2 DEF ChannelConnects, References
  <2>6. events' \in Seq(AdapterEvent)
    <3>1. [kind |-> "Ready", desk |-> d, sid |-> NoSid] \in AdapterEvent
      BY <2>1 DEF AdapterEvent, NoSid
    <3> QED BY <1>3, <1>8, <3>1 DEF ChannelConnects
  <2> QED BY <1>8, <2>3, <2>5, <2>6
          DEF ChannelConnects, DesksOK, RowsOK, AdaptersOK, MemoryOK, HistoryOK, CallsOK, history
<1>9. ASSUME NEW r \in Runtimes, RuntimeRetry(r) PROVE TypeInv'
  BY <1>9 DEF RuntimeRetry, DesksOK, RowsOK, AdaptersOK, MemoryOK, HistoryOK, CallsOK,
              References, history
<1>10. CASE ControlPlaneLost
  <2> DEFINE desks == {d \in Desks : codex[d].live # NoProc}
             killed == {d \in desks : term[d] = codex[d].live}
             running == {d \in killed : procs[term[d]].alive}
  <2>1. IsFiniteSet(desks) /\ IsFiniteSet(running)
    BY DispatchAssumption, FS_Subset DEF DispatchAssumption
  <2>2. events' \in Seq(AdapterEvent)
    <3>1. PICK order \in Orders(desks) : events' = events \o [i \in DOMAIN order |->
            [kind |-> "Exited", desk |-> order[i], sid |-> NoSid]]
      BY <1>10 DEF ControlPlaneLost
    <3> DEFINE sent == [i \in DOMAIN order |->
                          [kind |-> "Exited", desk |-> order[i], sid |-> NoSid]]
    <3>2. order \in [1..Cardinality(desks) -> desks] BY DEF Orders
    <3>3. sent \in [DOMAIN order -> AdapterEvent] BY <3>2 DEF AdapterEvent, NoSid
    <3>4. sent \in Seq(AdapterEvent)
      <4> HIDE DEF sent, desks
      <4> QED BY <2>1, <3>3, OrdersType
    <3> QED BY <3>1, <3>4, ConcatProperties DEF AdaptersOK
  <2>3. exits' \in Seq(TerminalExit)
    <3>1. PICK order \in Orders(running) : exits' = exits \o [i \in DOMAIN order |->
            [desk |-> order[i], proc |-> term[order[i]]]]
      BY <1>10 DEF ControlPlaneLost
    <3> DEFINE sent == [i \in DOMAIN order |->
                 [desk |-> order[i], proc |-> term[order[i]]]]
    <3>2. order \in [1..Cardinality(running) -> running] BY DEF Orders
    <3>3. sent \in [DOMAIN order -> TerminalExit] BY <3>2 DEF TerminalExit, AdaptersOK
    <3>4. sent \in Seq(TerminalExit)
      <4> HIDE DEF sent, running
      <4> QED BY <2>1, <3>3, OrdersType
    <3> QED BY <3>1, <3>4, ConcatProperties DEF AdaptersOK
  <2>4. procs' \in Seq(Child) /\ DOMAIN procs' = DOMAIN procs
    <3>1. procs' = [p \in DOMAIN procs |->
             [procs[p] EXCEPT !.alive = procs[p].alive /\ \A d \in killed : p # term[d],
                              !.reported = procs[p].reported \/ procs[p].runtime = "codex"]]
      BY <1>10 DEF ControlPlaneLost
    <3> HIDE DEF killed
    <3> DEFINE dead(p) ==
          [procs[p] EXCEPT !.alive = procs[p].alive /\ \A d \in killed : p # term[d],
                           !.reported = procs[p].reported \/ procs[p].runtime = "codex"]
    <3>2. \A p \in DOMAIN procs : dead(p) \in Child BY <1>0, ChildStopped
    <3>3. procs' \in [DOMAIN procs -> Child]
      <4>1. procs' = [p \in DOMAIN procs |-> dead(p)] BY <3>1
      <4> HIDE DEF dead
      <4> QED BY <3>2, <4>1
    <3> QED BY <3>3, Rows DEF RowsOK
  <2>5. term' \in [Desks -> Nat] BY <1>10 DEF ControlPlaneLost, AdaptersOK, NoProc
  <2>6. codex' \in [Desks -> Thread] BY <1>10 DEF ControlPlaneLost, AdaptersOK, Thread, NoProc
  <2>7. /\ losses' = losses + 1
        /\ UNCHANGED <<selected, pointer, prompts, chan, up, live, activating, act, disp,
                       handed, overlapped, crashes>>
        /\ \/ restarts' = 1 /\ UNCHANGED available
           \/ restarts' = restarts + 1 /\ available' = [available EXCEPT !["codex"] = FALSE]
    <3> HIDE DEF TypeInv, TypeOK
    <3> QED BY <1>10, Zenon DEF ControlPlaneLost
  <2>8. available' \in [Runtimes -> BOOLEAN] /\ restarts' \in Nat /\ losses' \in Nat
    <3>1. available \in [Runtimes -> BOOLEAN] BY DEF DesksOK
    <3>2. available' \in [Runtimes -> BOOLEAN]
      <4>1. available' = available
            \/ available' = [r \in Runtimes |-> IF r = "codex" THEN FALSE ELSE available[r]]
        BY <2>7, <3>1
      <4> QED BY <3>1, <4>1, Zenon
    <3>3. restarts' \in Nat /\ losses' \in Nat BY <2>7 DEF AdaptersOK, HistoryOK
    <3> QED BY <3>2, <3>3
  <2>9. DesksOK' /\ MemoryOK' /\ HistoryOK' BY <2>7, <2>8 DEF DesksOK, MemoryOK, HistoryOK
  <2>10. RowsOK' BY <2>4, <2>7 DEF RowsOK
  <2>11. AdaptersOK' BY <2>2, <2>3, <2>5, <2>6, <2>7, <2>8 DEF AdaptersOK
  <2>12. CallsOK' /\ References' BY <2>4, <2>7 DEF CallsOK, References
  <2> QED BY <2>9, <2>10, <2>11, <2>12
<1> QED BY <1>1, <1>2, <1>4, <1>5, <1>6, <1>7, <1>8, <1>9, <1>10 DEF Environment

LEMMA DeathTypes ==
  ASSUME TypeInv, Crash \/ Quit
  PROVE  TypeInv'
<1> USE DEF TypeInv, TypeOK
<1>0. /\ \A q \in DOMAIN procs : procs[q] \in Child
      /\ <<>> \in Seq(AdapterEvent) /\ <<>> \in Seq(TerminalExit)
  BY LenProperties, ElementOfSeq, EmptySeq DEF RowsOK
<1>1. PICK rows \in {procs, ClosedAll} :
        procs' = [p \in DOMAIN procs |-> [rows[p] EXCEPT !.alive = FALSE, !.reported = TRUE]]
  BY DEF Crash, Quit, Dies
<1>2. \A q \in DOMAIN procs : rows[q] \in Child
  <2>1. \A q \in DOMAIN procs : ClosedAll[q] \in Child BY <1>0 DEF ClosedAll, Child
  <2> QED BY <1>0, <1>1, <2>1
<1>3. procs' \in [DOMAIN procs -> Child]
  <2> HIDE DEF TypeInv
  <2>1. \A p \in DOMAIN procs :
          [rows[p] EXCEPT !.alive = FALSE, !.reported = TRUE] \in Child
    BY <1>2 DEF Child
  <2> QED BY <1>1, <2>1
<1>4. procs' \in Seq(Child) /\ DOMAIN procs' = DOMAIN procs BY <1>3, Rows DEF RowsOK
<1>5. act' \in [Actors -> Call] /\ CallsOK'
  <2>1. act' = [a \in Actors |-> Holding(<<>>)] BY DEF Crash, Quit, Dies
  <2>2. Holding(<<>>) \in Call /\ Holding(<<>>).pc = "drain" BY <1>0, HoldingType
  <2> QED BY <2>1, <2>2 DEF CallsOK
<1>6. disp' \in LoopState /\ disp'.pc = "pass"
  <2>1. disp' = At("pass", {}) BY DEF Crash, Quit, Dies
  <2> QED BY <2>1, AtType
<1>7. NoThread \in Thread /\ NoLive \in LiveEntry
  BY DEF NoThread, Thread, NoLive, LiveEntry, NoProc, NoSid, Runtimes
<1>8. /\ term' = [d \in Desks |-> NoProc] /\ chan' = [d \in Desks |-> NoProc]
      /\ codex' = [d \in Desks |-> NoThread] /\ live' = [d \in Desks |-> NoLive]
      /\ activating' = [d \in Desks |-> NotActivating]
      /\ restarts' = 0 /\ events' = <<>> /\ exits' = <<>> /\ up' = FALSE /\ crashes' = crashes + 1
      /\ overlapped' = {}
      /\ UNCHANGED <<selected, available, pointer, prompts, handed, losses>>
  BY DEF Crash, Quit, Dies
<1>9. AdaptersOK'
  <2> HIDE DEF NoThread
  <2> QED BY <1>0, <1>7, <1>8 DEF AdaptersOK, NoProc
<1>10. live' \in [Desks -> LiveEntry]
       /\ activating' \in [Desks -> Seq(AdapterEvent) \cup {NotActivating}]
  BY <1>7, <1>8
<1>11. References' BY <1>6, <1>8 DEF References
<1>12. DesksOK' /\ HistoryOK' BY <1>8 DEF DesksOK, HistoryOK
<1>13. RowsOK' BY <1>4, <1>8 DEF RowsOK
<1>14. MemoryOK' BY <1>5, <1>6, <1>8, <1>10 DEF MemoryOK
<1> QED BY <1>5, <1>9, <1>11, <1>12, <1>13, <1>14

LEMMA RecoverTypes ==
  ASSUME TypeInv, Recover
  PROVE  TypeInv'
<1> USE DEF TypeInv, TypeOK
<1>0. /\ \A q \in DOMAIN procs : procs[q] \in Child
      /\ \A q \in DOMAIN prompts : prompts[q] \in PromptRow
  BY LenProperties, ElementOfSeq DEF RowsOK
<1>1. procs' \in [DOMAIN procs -> Child] BY <1>0 DEF Recover, ClosedAll, Child
<1>2. prompts' \in [DOMAIN prompts -> PromptRow]
  <2> DEFINE failed(q) == [prompts[q] EXCEPT !.state = "FAILED", !.failure = "HANDOFF_UNKNOWN"]
  <2>1. \A q \in DOMAIN prompts : failed(q) \in PromptRow BY <1>0, PromptFailed
  <2>2. prompts' = [q \in DOMAIN prompts |->
          IF prompts[q].state = "QUEUED" /\ prompts[q].attempted THEN failed(q) ELSE prompts[q]]
    BY DEF Recover
  <2> HIDE DEF failed
  <2> QED BY <1>0, <2>1, <2>2
<1>3. /\ procs' \in Seq(Child) /\ DOMAIN procs' = DOMAIN procs
      /\ prompts' \in Seq(PromptRow) /\ DOMAIN prompts' = DOMAIN prompts
  BY <1>1, <1>2, Rows DEF RowsOK
<1> QED BY <1>3
  DEF Recover, DesksOK, RowsOK, AdaptersOK, MemoryOK, HistoryOK, CallsOK, References,
      adapterVars, history

LEMMA InitTypes == ASSUME Init PROVE TypeInv
<1> USE DEF TypeInv, TypeOK
<1>0. /\ <<>> \in Seq(AdapterEvent) /\ <<>> \in Seq(TerminalExit) /\ <<>> \in Seq(PromptRow)
      /\ <<>> \in Seq(Child) /\ <<>> \in Seq([prompt : Nat, proc : Nat, to : Nat])
  BY EmptySeq
<1>1. NoThread \in Thread /\ NoLive \in LiveEntry
  BY DEF NoThread, Thread, NoLive, LiveEntry, NoProc, NoSid, Runtimes
<1>2. DesksOK BY DEF Init, DesksOK, NoSid
<1>3. RowsOK /\ HistoryOK BY <1>0 DEF Init, RowsOK, HistoryOK
<1>4. AdaptersOK
  <2> HIDE DEF NoThread
  <2> QED BY <1>0, <1>1 DEF Init, AdaptersOK, NoProc
<1>5. act \in [Actors -> Call] /\ CallsOK
  <2>1. Holding(<<>>) \in Call /\ Holding(<<>>).pc = "drain" BY <1>0, HoldingType
  <2> QED BY <2>1 DEF Init, CallsOK
<1>6. disp \in LoopState /\ disp.pc = "pass" BY AtType DEF Init
<1>7. MemoryOK
  <2> HIDE DEF NoLive
  <2> QED BY <1>1, <1>5, <1>6 DEF Init, MemoryOK
<1>8. References BY <1>6 DEF Init, References
<1> QED BY <1>2, <1>3, <1>4, <1>5, <1>7, <1>8

LEMMA NextTypes == ASSUME TypeInv, [Next]_vars PROVE TypeInv'
<1>1. CASE UNCHANGED vars
  BY <1>1 DEF vars, TypeInv, TypeOK, DesksOK, RowsOK, AdaptersOK, MemoryOK, HistoryOK, CallsOK,
              References
<1> QED BY <1>1, ActorTypes, DeliveryTypes, LoopTypes, RouteTypes, EnvironmentTypes, DeathTypes,
           RecoverTypes DEF Next

\* Every variable of the daemon keeps its kind, and every call, delivery and bridge
\* refers to rows that exist, whatever races, losses and restarts happen.
THEOREM Typing == Spec => [](TypeOK /\ CallsOK /\ References)
<1>1. Init => TypeInv BY InitTypes
<1>2. TypeInv /\ [Next]_vars => TypeInv' BY NextTypes
<1>3. TypeInv => TypeOK /\ CallsOK /\ References BY DEF TypeInv
<1> QED BY <1>1, <1>2, <1>3, PTL DEF Spec

-----------------------------------------------------------------------------
(* At most one handover of a prompt *)

\* Why a prompt that was handed over is never handed over again: its row is settled,
\* or the dispatcher is about to settle it, or the daemon died in between and the row
\* still carries the attempt that recovery looks for.
OneHandover ==
  /\ AtMostOnce
  /\ \A p \in Handed : p \in DOMAIN prompts
  /\ \A p \in Handed :
       \/ prompts[p].state # "QUEUED"
       \/ disp.pc = "resolve" /\ disp.prompt = p
       \/ ~up /\ prompts[p].attempted
  /\ disp.pc \in {"attempt", "call"} => disp.prompt \notin Handed
  /\ disp.pc \in {"call", "resolve"} =>
       prompts[disp.prompt].attempted \/ prompts[disp.prompt].state # "QUEUED"
  /\ ~up => disp.pc = "pass"

Inv == TypeInv /\ OneHandover

\* What every step but the delivery's own does to the prompts: rows are added, and a
\* row that changes is settled.
PromptsKept == \A p \in DOMAIN prompts :
  /\ p \in DOMAIN prompts'
  /\ prompts'[p] = prompts[p] \/ prompts'[p].state # "QUEUED"

LEMMA FailedIsKept ==
  ASSUME RowsOK, NEW d, NEW code, FailQueued(d, code) PROVE PromptsKept
<1>1. \A p \in DOMAIN prompts : prompts[p] \in PromptRow
  BY LenProperties, ElementOfSeq DEF RowsOK
<1> QED BY <1>1 DEF FailQueued, PromptsKept, PromptRow

LEMMA ActivationKeeps ==
  ASSUME RowsOK, NEW caller, NEW d, NEW error, ActivationFailed(caller, d, error)
  PROVE  PromptsKept
<1>1. CASE FailQueued(d, "ACTIVATION_FAILED") BY <1>1, FailedIsKept
<1>2. CASE FailQueued(d, "RUNTIME_UNAVAILABLE") BY <1>2, FailedIsKept
<1>3. CASE UNCHANGED prompts BY <1>3 DEF PromptsKept
<1> QED BY <1>1, <1>2, <1>3 DEF ActivationFailed

LEMMA ActivateKeeps ==
  ASSUME RowsOK, NEW a, NEW inbox, NEW rows, NEW ptr, NEW d, NEW mode, NEW caller,
         Activate(a, inbox, rows, ptr, d, mode, caller)
  PROVE  PromptsKept
<1>1. CASE UNCHANGED prompts BY <1>1 DEF PromptsKept
<1>2. CASE ActivationFailed(caller, d, Admission(rows, ptr, d, mode)) BY <1>2, ActivationKeeps
<1> QED BY <1>1, <1>2 DEF Activate

LEMMA EndedKeeps ==
  ASSUME RowsOK, NEW a, NEW inbox, NEW d, NEW reason, Ended(a, inbox, d, reason)
  PROVE  PromptsKept
<1>1. CASE UNCHANGED prompts BY <1>1 DEF PromptsKept
<1>2. CASE FailQueued(d, "ACTIVATION_FAILED") BY <1>2, FailedIsKept
<1>3. ASSUME NEW rows, NEW ptr, Activate(a, inbox, rows, ptr, d, "NEW", "retry")
      PROVE  PromptsKept
  BY <1>3, ActivateKeeps
<1> QED BY <1>1, <1>2, <1>3 DEF Ended

LEMMA EventKeeps ==
  ASSUME RowsOK, NEW a, NEW inbox, NEW e, Event(a, inbox, e) PROVE PromptsKept
<1>1. CASE UNCHANGED prompts BY <1>1 DEF PromptsKept
<1>2. CASE Ended(a, inbox, e.desk, "CONTROL_PLANE_LOST") BY <1>2, EndedKeeps
<1> QED BY <1>1, <1>2 DEF Event, Readied, Discovered

\* A step outside the delivery keeps OneHandover when it keeps the prompts and leaves the
\* dispatcher where it is or between two deliveries.
LEMMA KeepsOneHandover ==
  ASSUME Inv, PromptsKept, up, up', UNCHANGED handed,
         disp' = disp \/ disp'.pc \in {"pass", "queue", "deadlines"},
         disp' = disp \/ disp.pc \in {"pass", "queue", "deadlines"}
  PROVE  OneHandover'
<1> USE DEF Inv, OneHandover
<1>1. Handed' = Handed /\ AtMostOnce' BY DEF Handed, AtMostOnce
<1>2. \A p \in Handed : p \in DOMAIN prompts' BY DEF PromptsKept
<1>3. CASE disp' = disp
  <2>1. disp.pc \in {"call", "resolve"} => disp.prompt \in DOMAIN prompts
    BY DEF TypeInv, References
  <2> QED BY <1>1, <1>2, <1>3, <2>1 DEF PromptsKept
<1>4. CASE /\ disp'.pc \in {"pass", "queue", "deadlines"}
           /\ disp.pc \in {"pass", "queue", "deadlines"}
  BY <1>1, <1>2, <1>4 DEF PromptsKept
<1> QED BY <1>3, <1>4

LEMMA DeliveryOnce == ASSUME Inv, Delivery PROVE OneHandover'
<1> USE DEF Inv, OneHandover
<1>0. /\ \A p \in DOMAIN prompts : prompts[p] \in PromptRow
      /\ disp \in LoopState /\ up
      /\ disp.pc \in {"attempt", "call", "resolve"} => disp.prompt \in DOMAIN prompts
  <2>1. \A p \in DOMAIN prompts : prompts[p] \in PromptRow
    BY LenProperties, ElementOfSeq DEF TypeInv, TypeOK, RowsOK
  <2>2. disp \in LoopState BY DEF TypeInv, TypeOK, MemoryOK
  <2>3. disp.pc \in {"attempt", "call", "resolve"} => disp.prompt \in DOMAIN prompts
    BY DEF TypeInv, References
  <2>4. up
    <3> HIDE DEF Inv, OneHandover
    <3> QED BY DEF Delivery, Settle, Delivers, DeliveryRefused, HandoffUnknown,
                   ChannelUnavailable, HandOver, MarkAttempted, Waiting, Resolve, Looping
  <2> QED BY <2>1, <2>2, <2>3, <2>4
<1>1. CASE MarkAttempted
  <2>1. disp.pc = "attempt" /\ UNCHANGED <<handed, up>> BY <1>1 DEF MarkAttempted, Looping, history
  <2>2. disp'.pc = "call" /\ disp'.prompt = disp.prompt
    BY <1>0, <1>1 DEF MarkAttempted, LoopState
  <2>3. DOMAIN prompts' = DOMAIN prompts /\ prompts'[disp.prompt].attempted = TRUE
        /\ \A p \in DOMAIN prompts : prompts'[p].state = prompts[p].state
    BY <1>0, <1>1, <2>1 DEF MarkAttempted, PromptRow
  <2>4. Handed' = Handed /\ AtMostOnce' BY <2>1 DEF Handed, AtMostOnce
  <2> QED BY <1>0, <2>1, <2>2, <2>3, <2>4
<1>2. ASSUME NEW runtimes, NEW received \in BOOLEAN, NEW outcome,
             HandOver(runtimes, received, outcome)
      PROVE  OneHandover'
  <2>1. disp.pc = "call" /\ UNCHANGED <<prompts, up>> BY <1>2 DEF HandOver, Looping
  <2>2. disp'.pc = "resolve" /\ disp'.prompt = disp.prompt BY <1>0, <1>2 DEF HandOver, LoopState
  <2>3. CASE UNCHANGED handed
    <3>1. Handed' = Handed /\ AtMostOnce' BY <2>3 DEF Handed, AtMostOnce
    <3> QED BY <1>0, <2>1, <2>2, <3>1
  <2>4. ASSUME NEW to, to \in Nat,
               handed' = Append(handed, [prompt |-> disp.prompt, proc |-> disp.proc, to |-> to])
        PROVE  OneHandover'
    <3> DEFINE T == [prompt : Nat, proc : Nat, to : Nat]
               new == [prompt |-> disp.prompt, proc |-> disp.proc, to |-> to]
    <3>1. handed \in Seq(T) BY DEF TypeInv, TypeOK, HistoryOK
    <3>2. new \in T /\ new.prompt = disp.prompt BY <1>0, <2>4 DEF LoopState
    <3>3. /\ Len(handed) \in Nat /\ DOMAIN handed = 1..Len(handed)
          /\ DOMAIN handed' = 1..(Len(handed) + 1)
          /\ handed'[Len(handed) + 1] = new
          /\ \A i \in 1..Len(handed) : handed'[i] = handed[i]
      <4> HIDE DEF new
      <4>1. handed' \in Seq(T) /\ Len(handed') = Len(handed) + 1
            /\ handed'[Len(handed) + 1] = new
            /\ \A i \in 1..Len(handed) : handed'[i] = handed[i]
        BY <2>4, <3>1, <3>2, AppendProperties DEF new
      <4> QED BY <3>1, <4>1, LenProperties
    <3>4. Handed' = Handed \cup {disp.prompt}
      <4>1. \A i \in DOMAIN handed : i \in DOMAIN handed' /\ handed'[i].prompt = handed[i].prompt
        BY <3>3
      <4>2. \A i \in DOMAIN handed' :
              i \in DOMAIN handed \/ handed'[i].prompt = disp.prompt
        BY <3>2, <3>3
      <4>3. Len(handed) + 1 \in DOMAIN handed' /\ handed'[Len(handed) + 1].prompt = disp.prompt
        BY <3>2, <3>3
      <4> QED BY <4>1, <4>2, <4>3 DEF Handed
    <3>5. AtMostOnce'
      <4>1. disp.prompt \notin Handed BY <2>1
      <4>2. \A i \in 1..Len(handed) : handed[i].prompt # disp.prompt
        BY <3>3, <4>1 DEF Handed
      <4> QED BY <3>2, <3>3, <4>2 DEF AtMostOnce
    <3> QED BY <1>0, <2>1, <2>2, <3>4, <3>5
  <2>5. CASE received
    <3> DEFINE to == Receiver(prompts[disp.prompt].desk, procs[disp.proc].runtime)
    <3>1. handed' = Append(handed, [prompt |-> disp.prompt, proc |-> disp.proc, to |-> to])
      BY <1>2, <2>5 DEF HandOver
    <3>2. to \in Nat BY <2>1, ReceiverType DEF TypeInv
    <3> HIDE DEF to
    <3> QED BY <2>4, <3>1, <3>2
  <2>6. CASE ~received BY <1>2, <2>3, <2>6 DEF HandOver
  <2> QED BY <2>5, <2>6
<1>3. CASE Settle
  BY <1>2, <1>3 DEF Settle, Delivers, DeliveryRefused, HandoffUnknown, ChannelUnavailable
<1>4. CASE Waiting
  <2>1. disp.pc = "call" /\ UNCHANGED <<handed, up>> BY <1>4 DEF Waiting, Looping, history
  <2>2. disp'.pc = "queue" BY <1>4 DEF Waiting, At
  <2>3. DOMAIN prompts' = DOMAIN prompts
        /\ \A p \in DOMAIN prompts : prompts'[p].state = prompts[p].state
    BY <1>0, <1>4, <2>1 DEF Waiting, PromptRow
  <2>4. Handed' = Handed /\ AtMostOnce' BY <2>1 DEF Handed, AtMostOnce
  <2> QED BY <1>0, <2>1, <2>2, <2>3, <2>4
<1>5. CASE Resolve
  <2>1. disp.pc = "resolve" /\ UNCHANGED <<handed, up>> BY <1>5 DEF Resolve, Looping, history
  <2>2. disp'.pc = "queue" BY <1>5 DEF Resolve, At
  <2>3. DOMAIN prompts' = DOMAIN prompts /\ prompts'[disp.prompt].state # "QUEUED"
    BY <1>0, <1>5, <2>1 DEF Resolve, PromptRow
  <2>4. \A p \in DOMAIN prompts : p # disp.prompt => prompts'[p].state = prompts[p].state
    BY <1>0, <1>5 DEF Resolve, PromptRow
  <2>5. Handed' = Handed /\ AtMostOnce' BY <2>1 DEF Handed, AtMostOnce
  <2> QED BY <1>0, <2>1, <2>2, <2>3, <2>4, <2>5
<1> QED BY <1>1, <1>3, <1>4, <1>5 DEF Delivery

\* The steps outside the delivery, and the daemon's death and recovery.
LEMMA ActorOnce == ASSUME Inv, NEW a \in Actors, ActorStep(a) PROVE OneHandover'
<1>0. RowsOK /\ up /\ UNCHANGED <<up, disp, handed>>
  BY DEF Inv, TypeInv, TypeOK, ActorStep, Spawn, EndPrevious, StartChild, InsertTerminal,
         SpawnFails, OpenRefused, GiveUp, OpenProcess,
         Install, Drain, Event, history
<1>1. CASE UNCHANGED prompts BY <1>0, <1>1, KeepsOneHandover DEF PromptsKept
<1>2. ASSUME NEW error, GiveUp(a, error) PROVE OneHandover'
  <2>1. PromptsKept BY <1>0, <1>2, ActivationKeeps DEF GiveUp
  <2> QED BY <1>0, <2>1, KeepsOneHandover
<1>3. CASE OpenProcess(a)
  <2>1. ASSUME NEW at \in Oldest(act[a].desk),
               prompts' = prompts \o ActivationPrompts(act[a].desk, at)
        PROVE  PromptsKept
    <3> DEFINE d == act[a].desk
               added == ActivationPrompts(d, at)
    <3>1. prompts \in Seq(PromptRow) /\ Len(prompts) \in Nat /\ DOMAIN prompts = 1..Len(prompts)
      BY <1>0, LenProperties DEF RowsOK
    <3>2. added \in Seq({NewPrompt(d, "DISCLOSURE", at - 2), NewPrompt(d, "ORIENTATION", at - 1)})
      <4> DEFINE x == NewPrompt(d, "DISCLOSURE", at - 2)
                 y == NewPrompt(d, "ORIENTATION", at - 1)
      <4> HIDE DEF x, y
      <4>1. <<>> \in Seq({x, y}) /\ <<x>> \in Seq({x, y}) /\ <<y>> \in Seq({x, y}) OBVIOUS
      <4>2. added = (IF Undisclosed(d) = {} THEN <<>> ELSE <<x>>) \o <<y>>
        BY DEF ActivationPrompts, x, y
      <4>3. added \in Seq({x, y})
        <5> HIDE DEF added
        <5> QED BY <4>1, <4>2, ConcatProperties
      <4> QED BY <4>3 DEF x, y
    <3> HIDE DEF added
    <3> DEFINE T == PromptRow \cup {NewPrompt(d, "DISCLOSURE", at - 2),
                                    NewPrompt(d, "ORIENTATION", at - 1)}
    <3>3. prompts \in Seq(T) /\ added \in Seq(T) BY <3>1, <3>2, SeqMonotonic
    <3>4. /\ prompts' \in Seq(T) /\ Len(prompts') = Len(prompts) + Len(added)
          /\ \A q \in 1..Len(prompts) + Len(added) :
               prompts'[q] = IF q <= Len(prompts) THEN prompts[q] ELSE added[q - Len(prompts)]
      <4> HIDE DEF T
      <4> QED BY <2>1, <3>3, ConcatProperties DEF added
    <3>5. Len(added) \in Nat /\ DOMAIN prompts' = 1..Len(prompts') BY <3>2, <3>4, LenProperties
    <3> QED BY <3>1, <3>4, <3>5 DEF PromptsKept
  <2>2. CASE PromptsKept BY <1>0, <2>2, KeepsOneHandover
  <2> QED BY <1>1, <1>3, <2>1, <2>2 DEF OpenProcess
<1>4. CASE Drain(a)
  <2>1. PromptsKept BY <1>0, <1>4, EventKeeps DEF Drain
  <2> QED BY <1>0, <2>1, KeepsOneHandover
<1> QED BY <1>1, <1>2, <1>3, <1>4
  DEF ActorStep, Spawn, EndPrevious, StartChild, InsertTerminal, SpawnFails, OpenRefused, Install

LEMMA LoopOnce == ASSUME Inv, Loop PROVE OneHandover'
<1>0. /\ RowsOK /\ up /\ UNCHANGED <<up, handed>> /\ disp \in LoopState
      /\ disp.pc \in {"pass", "queue", "deadlines"}
  BY DEF Inv, TypeInv, TypeOK, MemoryOK, Loop, Pass, Visit, CheckDeadlines, Expire, Wake, RecvEvent, RecvExit, Select,
         Looping, Event, history
<1>1. ASSUME PromptsKept, disp'.pc \in {"pass", "queue", "deadlines"} PROVE OneHandover'
  BY <1>0, <1>1, KeepsOneHandover
<1>2. UNCHANGED prompts => PromptsKept BY DEF PromptsKept
<1>3. CASE Pass \/ CheckDeadlines \/ Wake
  BY <1>1, <1>2, <1>3 DEF Pass, CheckDeadlines, Wake, At
<1>4. ASSUME NEW d \in Desks, Visit(d) PROVE OneHandover'
  <2> DEFINE p == LiveProcess(procs, d)
             rest == At("queue", disp.todo \ {d})
  <2>1. rest.pc = "queue" BY DEF At
  <2>2. CASE disp' = rest /\ Activate(Dispatcher, <<>>, procs, pointer, d, "AUTO", "queue")
    <3>1. PromptsKept BY <1>0, <2>2, ActivateKeeps
    <3> QED BY <1>1, <2>1, <2>2, <3>1
  <2>3. ASSUME NEW head \in Heads(d),
               disp' = [rest EXCEPT !.pc = "attempt", !.proc = p, !.prompt = head,
                          !.named = IF prompts[head].kind = "DISCLOSURE"
                                      THEN Undisclosed(d) ELSE {}],
               UNCHANGED prompts
        PROVE  OneHandover'
    <3>1. disp'.pc = "attempt" /\ disp'.prompt = head BY <2>3 DEF At
    <3>2. head \in DOMAIN prompts /\ prompts[head].state = "QUEUED"
      BY DEF Heads, Queued
    <3>3. disp.pc = "queue" BY <1>4 DEF Visit, Looping
    <3>4. head \notin Handed BY <1>0, <3>2, <3>3 DEF Inv, OneHandover
    <3>5. Handed' = Handed /\ AtMostOnce' BY <1>0 DEF Handed, AtMostOnce, Inv, OneHandover
    <3> QED BY <1>0, <2>3, <3>1, <3>3, <3>4, <3>5 DEF Inv, OneHandover
  <2>4. CASE disp' = rest /\ UNCHANGED prompts BY <1>1, <1>2, <2>1, <2>4
  <2> QED BY <1>4, <2>2, <2>3, <2>4 DEF Visit
<1>5. ASSUME NEW d \in Desks, Expire(d) PROVE OneHandover'
  <2>1. PromptsKept BY <1>0, <1>5, EndedKeeps DEF Expire
  <2> QED BY <1>1, <1>5, <2>1 DEF Expire, At
<1>6. CASE RecvEvent
  <2>1. PromptsKept BY <1>0, <1>6, EventKeeps DEF RecvEvent
  <2> QED BY <1>1, <1>6, <2>1 DEF RecvEvent, At
<1>7. CASE RecvExit
  <2>1. ASSUME NEW e, Ended(Dispatcher, <<>>, e.desk, "ENDED") PROVE PromptsKept
    BY <1>0, <2>1, EndedKeeps
  <2>2. PromptsKept BY <1>2, <1>7, <2>1 DEF RecvExit
  <2> QED BY <1>1, <1>7, <2>2 DEF RecvExit, At
<1> QED BY <1>3, <1>4, <1>5, <1>6, <1>7 DEF Loop

LEMMA RouteOnce == ASSUME Inv, NEW r \in Routes, RouteStep(r) PROVE OneHandover'
<1>0. RowsOK /\ up /\ UNCHANGED <<up, disp, handed>>
  BY DEF Inv, TypeInv, TypeOK, RouteStep, SessionActivate, SessionSwitch, SwitchClosed,
         SwitchRuntime, history
<1>1. CASE UNCHANGED prompts BY <1>0, <1>1, KeepsOneHandover DEF PromptsKept
<1>2. ASSUME NEW d, NEW mode, SessionActivate(r, d, mode) PROVE OneHandover'
  <2>1. PromptsKept BY <1>0, <1>2, ActivateKeeps DEF SessionActivate
  <2> QED BY <1>0, <2>1, KeepsOneHandover
<1> QED BY <1>1, <1>2 DEF RouteStep, SessionSwitch, SwitchClosed, SwitchRuntime

LEMMA EnvironmentOnce == ASSUME Inv, Environment PROVE OneHandover'
<1>0. RowsOK /\ up /\ UNCHANGED <<up, disp, handed>>
  BY DEF Inv, TypeInv, TypeOK, Environment, Enqueue, SessionExit, ThreadIdle, ChannelCloses,
         ChildExits, ThreadStarted, ChannelConnects, RuntimeRetry, ControlPlaneLost, history
<1>1. CASE UNCHANGED prompts BY <1>0, <1>1, KeepsOneHandover DEF PromptsKept
<1>2. ASSUME NEW d \in Desks, Enqueue(d) PROVE OneHandover'
  <2> DEFINE new == NewPrompt(d, "RESULT", Len(prompts) + 1)
  <2>1. prompts \in Seq(PromptRow) /\ Len(prompts) \in Nat /\ DOMAIN prompts = 1..Len(prompts)
    BY <1>0, LenProperties DEF RowsOK
  <2>2. new \in PromptRow BY <2>1 DEF NewPrompt, PromptRow
  <2>3. prompts' = Append(prompts, new) BY <1>2 DEF Enqueue
  <2> HIDE DEF new
  <2>4. prompts' \in Seq(PromptRow) /\ Len(prompts') = Len(prompts) + 1
        /\ \A q \in 1..Len(prompts) : prompts'[q] = prompts[q]
    BY <2>1, <2>2, <2>3, AppendProperties
  <2>5. DOMAIN prompts' = 1..Len(prompts) + 1 BY <2>4, LenProperties
  <2>6. PromptsKept BY <2>1, <2>4, <2>5 DEF PromptsKept
  <2> QED BY <1>0, <2>6, KeepsOneHandover
<1> QED BY <1>1, <1>2
  DEF Environment, SessionExit, ThreadIdle, ChannelCloses, ChildExits, ThreadStarted,
      ChannelConnects, RuntimeRetry, ControlPlaneLost

LEMMA DeathOnce == ASSUME Inv, Crash \/ Quit PROVE OneHandover'
<1>0. ASSUME NEW rows, Dies(rows)
      PROVE  up /\ up' = FALSE /\ disp' = At("pass", {}) /\ UNCHANGED <<prompts, handed>>
  BY <1>0, Zenon DEF Dies
<1>1. ~up' /\ disp'.pc = "pass" /\ up /\ UNCHANGED <<prompts, handed>>
  <2>1. up /\ up' = FALSE /\ disp' = At("pass", {}) /\ UNCHANGED <<prompts, handed>>
    BY <1>0 DEF Crash, Quit
  <2> QED BY <2>1 DEF At
<1>2. Handed' = Handed /\ AtMostOnce' BY <1>1 DEF Handed, AtMostOnce, Inv, OneHandover
<1> QED BY <1>1, <1>2 DEF Inv, OneHandover

LEMMA RecoverOnce == ASSUME Inv, Recover PROVE OneHandover'
<1>1. up' /\ ~up /\ UNCHANGED <<disp, handed>> BY DEF Recover, history
<1>2. Handed' = Handed /\ AtMostOnce' BY <1>1 DEF Handed, AtMostOnce, Inv, OneHandover
<1>3. \A p \in DOMAIN prompts : prompts[p] \in PromptRow
  BY LenProperties, ElementOfSeq DEF Inv, TypeInv, TypeOK, RowsOK
<1>4. /\ DOMAIN prompts' = DOMAIN prompts
      /\ \A p \in DOMAIN prompts :
           prompts[p].state # "QUEUED" \/ prompts[p].attempted => prompts'[p].state # "QUEUED"
  BY <1>3 DEF Recover, PromptRow
<1>5. disp.pc = "pass" BY <1>1 DEF Inv, OneHandover
<1> QED BY <1>1, <1>2, <1>4, <1>5 DEF Inv, OneHandover

LEMMA NextOnce == ASSUME Inv, [Next]_vars PROVE OneHandover'
<1>1. CASE UNCHANGED vars
  BY <1>1 DEF vars, Inv, OneHandover, Handed, AtMostOnce
<1> QED BY <1>1, ActorOnce, DeliveryOnce, LoopOnce, RouteOnce, EnvironmentOnce, DeathOnce,
           RecoverOnce DEF Next

\* No prompt is ever handed to a runtime twice: whatever the routes, the losses and the
\* restarts do, and however the delivery, its record and a crash interleave.
THEOREM HandedAtMostOnce == Spec => []AtMostOnce
<1>1. Init => Inv
  <2>1. Init => Handed = {} /\ AtMostOnce /\ up /\ disp.pc = "pass"
    BY DEF Init, Handed, AtMostOnce, At
  <2> QED BY <2>1, InitTypes DEF Inv, OneHandover
<1>2. Inv /\ [Next]_vars => Inv' BY NextTypes, NextOnce DEF Inv
<1>3. Inv => AtMostOnce BY DEF Inv, OneHandover
<1> QED BY <1>1, <1>2, <1>3, PTL DEF Spec

-----------------------------------------------------------------------------
(* How a step may write the prompts table *)

Delivering == disp.pc \in {"attempt", "call", "resolve"}

\* Rows join the table, none of them created later than its place in it.
Added ==
  /\ DOMAIN prompts \subseteq DOMAIN prompts'
  /\ \A p \in DOMAIN prompts : prompts'[p] = prompts[p]
  /\ \A p \in DOMAIN prompts' \ DOMAIN prompts :
       /\ prompts'[p].state = "QUEUED" /\ prompts'[p].failure = "none"
       /\ prompts'[p].disclosed = 0 /\ prompts'[p].created <= p

\* Waiting rows fail with one of the codes, nothing else of them changes that counts.
Failing(codes) ==
  /\ DOMAIN prompts' = DOMAIN prompts
  /\ \A p \in DOMAIN prompts :
       \/ prompts'[p] = prompts[p]
       \/ /\ prompts[p].state = "QUEUED"
          /\ prompts'[p].state = "FAILED" /\ prompts'[p].failure \in codes
          /\ prompts'[p].desk = prompts[p].desk /\ prompts'[p].created = prompts[p].created
          /\ prompts'[p].disclosed = prompts[p].disclosed

Codes == {"ACTIVATION_FAILED", "RUNTIME_UNAVAILABLE"}

\* A prompt's instant is never ahead of its place: the queue's order is the order of
\* insertion but for the prompts a new session is headed with.
Bounded == \A p \in DOMAIN prompts : prompts[p].created <= p

LEMMA PromptRows == ASSUME TypeInv PROVE /\ \A p \in DOMAIN prompts : prompts[p] \in PromptRow
                                         /\ prompts \in Seq(PromptRow)
                                         /\ Len(prompts) \in Nat
                                         /\ DOMAIN prompts = 1..Len(prompts)
BY LenProperties, ElementOfSeq DEF TypeInv, TypeOK, RowsOK

LEMMA QueuedFail ==
  ASSUME TypeInv, NEW d, NEW code \in Codes, FailQueued(d, code) PROVE Failing(Codes)
<1>1. \A p \in DOMAIN prompts : prompts[p] \in PromptRow BY PromptRows
<1> QED BY <1>1 DEF FailQueued, Failing, PromptRow, Queued

LEMMA NothingFails == ASSUME UNCHANGED prompts, NEW codes PROVE Failing(codes)
BY DEF Failing

LEMMA ActivationFails ==
  ASSUME TypeInv, NEW caller, NEW d, NEW error, ActivationFailed(caller, d, error)
  PROVE  Failing(Codes)
<1>1. CASE FailQueued(d, "ACTIVATION_FAILED") BY <1>1, QueuedFail DEF Codes
<1>2. CASE FailQueued(d, "RUNTIME_UNAVAILABLE") BY <1>2, QueuedFail DEF Codes
<1>3. CASE UNCHANGED prompts BY <1>3, NothingFails
<1> QED BY <1>1, <1>2, <1>3 DEF ActivationFailed

LEMMA ActivateFails ==
  ASSUME TypeInv, NEW a, NEW inbox, NEW rows, NEW ptr, NEW d, NEW mode, NEW caller,
         Activate(a, inbox, rows, ptr, d, mode, caller)
  PROVE  Failing(Codes)
<1>1. CASE UNCHANGED prompts BY <1>1, NothingFails
<1>2. CASE ActivationFailed(caller, d, Admission(rows, ptr, d, mode)) BY <1>2, ActivationFails
<1> QED BY <1>1, <1>2 DEF Activate

LEMMA EndedFails ==
  ASSUME TypeInv, NEW a, NEW inbox, NEW d, NEW reason, Ended(a, inbox, d, reason)
  PROVE  Failing(Codes)
<1>1. CASE UNCHANGED prompts BY <1>1, NothingFails
<1>2. CASE FailQueued(d, "ACTIVATION_FAILED") BY <1>2, QueuedFail DEF Codes
<1>3. ASSUME NEW rows, NEW ptr, Activate(a, inbox, rows, ptr, d, "NEW", "retry")
      PROVE  Failing(Codes)
  BY <1>3, ActivateFails
<1> QED BY <1>1, <1>2, <1>3 DEF Ended

LEMMA EventFails == ASSUME TypeInv, NEW a, NEW inbox, NEW e, Event(a, inbox, e)
                    PROVE  Failing(Codes)
<1>1. CASE UNCHANGED prompts BY <1>1, NothingFails
<1>2. CASE Ended(a, inbox, e.desk, "CONTROL_PLANE_LOST") BY <1>2, EndedFails
<1> QED BY <1>1, <1>2 DEF Event, Readied, Discovered

LEMMA OldestType ==
  ASSUME TypeInv, Bounded, NEW d, NEW at \in Oldest(d)
  PROVE  at \in Int /\ at <= Len(prompts) + 1
<1>1. CASE Queued(d) = {} /\ at = Len(prompts) + 1 BY <1>1, PromptRows
<1>2. CASE \E p \in Heads(d) : at = prompts[p].created
  <2>1. PICK p \in Heads(d) : at = prompts[p].created BY <1>2
  <2>2. p \in DOMAIN prompts BY DEF Heads, Queued
  <2>3. prompts[p].created \in Int BY <2>2, PromptRows DEF PromptRow
  <2> QED BY <2>1, <2>2, <2>3, PromptRows DEF Bounded
<1> QED BY <1>1, <1>2 DEF Oldest

LEMMA OpenAdds == ASSUME TypeInv, Bounded, NEW a \in Actors, OpenProcess(a) PROVE Added
<1>1. CASE UNCHANGED prompts BY <1>1 DEF Added
<1>2. ASSUME NEW at \in Oldest(act[a].desk),
             prompts' = prompts \o ActivationPrompts(act[a].desk, at)
      PROVE  Added
  <2> DEFINE d == act[a].desk
             added == ActivationPrompts(d, at)
  <2>1. PICK x, y : x = NewPrompt(d, "DISCLOSURE", at - 2) /\ y = NewPrompt(d, "ORIENTATION", at - 1)
    OBVIOUS
  <2>2. added \in Seq({x, y})
    <3>1. <<>> \in Seq({x, y}) /\ <<x>> \in Seq({x, y}) /\ <<y>> \in Seq({x, y}) OBVIOUS
    <3>2. added = (IF Undisclosed(d) = {} THEN <<>> ELSE <<x>>) \o <<y>>
      BY <2>1 DEF ActivationPrompts
    <3> HIDE DEF added
    <3> QED BY <3>1, <3>2, ConcatProperties
  <2> HIDE DEF added
  <2> DEFINE T == PromptRow \cup {x, y}
  <2>3. prompts \in Seq(T) /\ added \in Seq(T) BY <2>2, PromptRows, SeqMonotonic
  <2>4. /\ prompts' \in Seq(T) /\ Len(prompts') = Len(prompts) + Len(added)
        /\ \A q \in 1..Len(prompts) + Len(added) :
             prompts'[q] = IF q <= Len(prompts) THEN prompts[q] ELSE added[q - Len(prompts)]
    <3> HIDE DEF T
    <3> QED BY <1>2, <2>3, ConcatProperties DEF added
  <2>5. /\ Len(added) \in Nat /\ DOMAIN prompts' = 1..Len(prompts') /\ DOMAIN added = 1..Len(added)
        /\ Len(prompts) \in Nat /\ DOMAIN prompts = 1..Len(prompts)
    BY <2>2, <2>4, LenProperties, PromptRows
  <2>6. \A i \in 1..Len(added) : added[i] \in {x, y} BY <2>2, <2>5, ElementOfSeq
  <2>7. at \in Int /\ at <= Len(prompts) + 1 BY OldestType
  <2>8. \A row \in {x, y} : /\ row.state = "QUEUED" /\ row.failure = "none" /\ row.disclosed = 0
                            /\ row.created \in Int /\ row.created <= Len(prompts)
    BY <2>1, <2>5, <2>7 DEF NewPrompt
  <2>9. ASSUME NEW q \in DOMAIN prompts' \ DOMAIN prompts
        PROVE  /\ prompts'[q].state = "QUEUED" /\ prompts'[q].failure = "none"
               /\ prompts'[q].disclosed = 0 /\ prompts'[q].created <= q
    <3>1. q \in Nat /\ q > Len(prompts) /\ q - Len(prompts) \in 1..Len(added) BY <2>4, <2>5
    <3>2. prompts'[q] = added[q - Len(prompts)] BY <2>4, <2>5, <3>1
    <3>3. prompts'[q] \in {x, y} BY <2>6, <3>1, <3>2
    <3> QED BY <2>5, <2>8, <3>1, <3>3
  <2> QED BY <2>4, <2>5, <2>9 DEF Added
<1> QED BY <1>1, <1>2 DEF OpenProcess

\* A result joins behind everything: its instant is its place.
LEMMA ResultAdds ==
  ASSUME TypeInv, NEW d \in Desks, Enqueue(d)
  PROVE  Added /\ \A p \in DOMAIN prompts' \ DOMAIN prompts : prompts'[p].created = p
<1>1. PICK new : new = NewPrompt(d, "RESULT", Len(prompts) + 1) OBVIOUS
<1>2. prompts \in Seq(PromptRow) /\ Len(prompts) \in Nat /\ DOMAIN prompts = 1..Len(prompts)
  BY PromptRows
<1>3. new \in PromptRow BY <1>1, <1>2 DEF NewPrompt, PromptRow
<1>4. prompts' = Append(prompts, new) BY <1>1 DEF Enqueue
<1>5. /\ prompts' \in Seq(PromptRow) /\ Len(prompts') = Len(prompts) + 1
      /\ prompts'[Len(prompts) + 1] = new
      /\ \A q \in 1..Len(prompts) : prompts'[q] = prompts[q]
  BY <1>2, <1>3, <1>4, AppendProperties
<1>6. DOMAIN prompts' = 1..Len(prompts) + 1 BY <1>5, LenProperties
<1>7. /\ new.state = "QUEUED" /\ new.failure = "none" /\ new.disclosed = 0
      /\ new.created = Len(prompts) + 1
  BY <1>1 DEF NewPrompt
<1>8. \A p \in DOMAIN prompts' \ DOMAIN prompts : p = Len(prompts) + 1 BY <1>2, <1>6
<1> QED BY <1>2, <1>5, <1>6, <1>7, <1>8 DEF Added

-----------------------------------------------------------------------------
(* Every step is the delivery's or writes the table in one of three ways *)

\* The loop picks a prompt to deliver: the head of a desk's queue, and what it discloses.
Picks ==
  /\ up /\ ~Delivering /\ Idle(Dispatcher) /\ UNCHANGED <<prompts, act, procs, term>>
  /\ disp'.pc = "attempt" /\ disp'.outcome = "none"
  /\ \E d \in Desks : disp'.prompt \in Heads(d) /\ disp'.named \subseteq Undisclosed(d)

\* A step outside the delivery: what it does to the prompts, the history and the loop.
Outside ==
  /\ UNCHANGED handed
  /\ \/ Added
     \/ up /\ Failing(Codes)
     \/ ~up /\ Failing({"HANDOFF_UNKNOWN"})
  /\ disp' = disp \/ ~Delivering' \/ Picks

LEMMA ActorOutside == ASSUME TypeInv, Bounded, NEW a \in Actors, ActorStep(a) PROVE Outside
<1>0. up /\ UNCHANGED <<up, disp, handed>>
  BY DEF ActorStep, Spawn, EndPrevious, StartChild, InsertTerminal, SpawnFails, OpenRefused,
         GiveUp, OpenProcess, Install, Drain, Event,
         history
<1>1. CASE UNCHANGED prompts BY <1>0, <1>1 DEF Outside, Added
<1>2. ASSUME NEW error, GiveUp(a, error) PROVE Outside
  BY <1>0, <1>2, ActivationFails DEF GiveUp, Outside
<1>3. CASE OpenProcess(a) BY <1>0, <1>3, OpenAdds DEF Outside
<1>4. CASE Drain(a)
  <2>1. Failing(Codes) BY <1>4, EventFails DEF Drain
  <2> QED BY <1>0, <2>1 DEF Outside
<1> QED BY <1>1, <1>2, <1>3, <1>4
    DEF ActorStep, Spawn, EndPrevious, StartChild, InsertTerminal, SpawnFails, OpenRefused, Install

LEMMA LoopOutside == ASSUME TypeInv, Loop PROVE Outside
<1>0. /\ up /\ UNCHANGED <<up, handed>> /\ disp \in LoopState /\ Idle(Dispatcher)
      /\ disp.pc \in {"pass", "queue", "deadlines"} /\ ~Delivering
  BY DEF TypeInv, TypeOK, MemoryOK, Loop, Pass, Visit, CheckDeadlines, Expire, Wake, RecvEvent,
         RecvExit, Select, Looping, Event, history, Delivering
<1>1. ASSUME Failing(Codes), disp'.pc \in {"pass", "queue", "deadlines"} PROVE Outside
  BY <1>0, <1>1 DEF Outside, Delivering
<1>2. UNCHANGED prompts => Failing(Codes) BY NothingFails
<1>3. CASE Pass \/ CheckDeadlines \/ Wake
  BY <1>1, <1>2, <1>3 DEF Pass, CheckDeadlines, Wake, At
<1>4. ASSUME NEW d \in Desks, Visit(d) PROVE Outside
  <2> DEFINE p == LiveProcess(procs, d)
             rest == At("queue", disp.todo \ {d})
  <2>1. rest.pc = "queue" BY DEF At
  <2>2. CASE disp' = rest /\ Activate(Dispatcher, <<>>, procs, pointer, d, "AUTO", "queue")
    <3>1. Failing(Codes) BY <2>2, ActivateFails
    <3> QED BY <1>1, <2>1, <2>2, <3>1
  <2>3. ASSUME NEW head \in Heads(d),
               disp' = [rest EXCEPT !.pc = "attempt", !.proc = p, !.prompt = head,
                          !.named = IF prompts[head].kind = "DISCLOSURE"
                                      THEN Undisclosed(d) ELSE {}],
               UNCHANGED <<prompts, activating, act>>
        PROVE  Outside
    <3>1. disp'.pc = "attempt" /\ disp'.prompt = head /\ disp'.outcome = "none"
          /\ disp'.named \subseteq Undisclosed(d)
      BY <2>3 DEF At
    <3>2. UNCHANGED <<prompts, act, procs, term>> BY <1>4, <2>3 DEF Visit, adapterVars
    <3>3. Picks BY <1>0, <2>3, <3>1, <3>2 DEF Picks
    <3>4. Added BY <3>2 DEF Added
    <3> QED BY <1>0, <3>3, <3>4 DEF Outside
  <2>4. CASE disp' = rest /\ UNCHANGED prompts BY <1>1, <1>2, <2>1, <2>4
  <2> QED BY <1>4, <2>2, <2>3, <2>4 DEF Visit
<1>5. ASSUME NEW d \in Desks, Expire(d) PROVE Outside
  <2>1. Failing(Codes) BY <1>5, EndedFails DEF Expire
  <2> QED BY <1>1, <1>5, <2>1 DEF Expire, At
<1>6. CASE RecvEvent
  <2>1. Failing(Codes) BY <1>6, EventFails DEF RecvEvent
  <2> QED BY <1>1, <1>6, <2>1 DEF RecvEvent, At
<1>7. CASE RecvExit
  <2>1. ASSUME NEW e, Ended(Dispatcher, <<>>, e.desk, "ENDED") PROVE Failing(Codes)
    BY <2>1, EndedFails
  <2>2. Failing(Codes) BY <1>2, <1>7, <2>1 DEF RecvExit
  <2> QED BY <1>1, <1>7, <2>2 DEF RecvExit, At
<1> QED BY <1>3, <1>4, <1>5, <1>6, <1>7 DEF Loop

LEMMA RouteOutside == ASSUME TypeInv, NEW r \in Routes, RouteStep(r) PROVE Outside
<1>0. up /\ UNCHANGED <<up, disp, handed>>
  BY DEF RouteStep, SessionActivate, SessionSwitch, SwitchClosed, SwitchRuntime, history
<1>1. CASE UNCHANGED prompts BY <1>0, <1>1 DEF Outside, Added
<1>2. ASSUME NEW d, NEW mode, SessionActivate(r, d, mode) PROVE Outside
  BY <1>0, <1>2, ActivateFails DEF SessionActivate, Outside
<1> QED BY <1>1, <1>2 DEF RouteStep, SessionSwitch, SwitchClosed, SwitchRuntime

LEMMA EnvironmentOutside == ASSUME TypeInv, Environment PROVE Outside
<1>0. up /\ UNCHANGED <<up, disp, handed>>
  BY DEF Environment, Enqueue, SessionExit, ThreadIdle, ChannelCloses,
         ChildExits, ThreadStarted, ChannelConnects, RuntimeRetry, ControlPlaneLost, history
<1>1. CASE UNCHANGED prompts BY <1>0, <1>1 DEF Outside, Added
<1>2. ASSUME NEW d \in Desks, Enqueue(d) PROVE Outside BY <1>0, <1>2, ResultAdds DEF Outside
<1> QED BY <1>1, <1>2
  DEF Environment, SessionExit, ThreadIdle, ChannelCloses, ChildExits, ThreadStarted,
      ChannelConnects, RuntimeRetry, ControlPlaneLost

\* Memory goes, the table stays.
LEMMA Death == ASSUME Crash \/ Quit
               PROVE  ~up' /\ disp' = At("pass", {}) /\ disp'.pc = "pass"
                      /\ UNCHANGED <<prompts, handed>>
<1>0. ASSUME NEW rows, Dies(rows)
      PROVE  up' = FALSE /\ disp' = At("pass", {}) /\ UNCHANGED <<prompts, handed>>
  BY <1>0, Zenon DEF Dies
<1>1. up' = FALSE /\ disp' = At("pass", {}) /\ UNCHANGED <<prompts, handed>>
  BY <1>0 DEF Crash, Quit
<1> QED BY <1>1 DEF At

LEMMA RecoverOutside == ASSUME TypeInv, Recover PROVE Outside
<1>1. ~up /\ UNCHANGED <<disp, handed>> BY DEF Recover, history
<1>2. \A p \in DOMAIN prompts : prompts[p] \in PromptRow BY PromptRows
<1>3. Failing({"HANDOFF_UNKNOWN"}) BY <1>2 DEF Recover, Failing, PromptRow
<1> QED BY <1>1, <1>3 DEF Outside

LEMMA StepOutside == ASSUME TypeInv, Bounded, [Next]_vars PROVE Delivery \/ Outside
<1>1. CASE UNCHANGED vars BY <1>1 DEF vars, Outside, Added
<1>2. CASE Crash \/ Quit BY <1>2, Death DEF Outside, Added, Delivering
<1> QED BY <1>1, <1>2, ActorOutside, LoopOutside, RouteOutside, EnvironmentOutside, RecoverOutside
        DEF Next

-----------------------------------------------------------------------------
(* The steps of the delivery *)

LEMMA DeliverySteps ==
  ASSUME TypeInv, Delivery
  PROVE  \/ /\ disp.pc = "attempt" /\ disp'.pc = "call" /\ disp'.prompt = disp.prompt
            /\ disp'.named = disp.named /\ UNCHANGED handed
            /\ prompts' = [prompts EXCEPT ![disp.prompt].attempted = TRUE]
         \/ /\ disp.pc = "call" /\ disp'.pc = "resolve" /\ disp'.prompt = disp.prompt
            /\ disp'.named = disp.named /\ UNCHANGED prompts
         \/ /\ disp.pc = "call" /\ disp'.pc = "queue" /\ UNCHANGED handed
            /\ prompts' = [prompts EXCEPT ![disp.prompt].attempted = FALSE]
         \/ disp.pc = "resolve" /\ disp'.pc = "queue" /\ UNCHANGED handed /\ Resolve
<1>0. disp \in LoopState BY DEF TypeInv, TypeOK, MemoryOK
<1>1. CASE MarkAttempted BY <1>0, <1>1 DEF MarkAttempted, Looping, LoopState, history
<1>2. CASE Settle
  <2>1. ASSUME NEW runtimes, NEW received, NEW outcome, HandOver(runtimes, received, outcome)
        PROVE  /\ disp.pc = "call" /\ disp'.pc = "resolve" /\ disp'.prompt = disp.prompt
               /\ disp'.named = disp.named /\ UNCHANGED prompts
    BY <1>0, <2>1 DEF HandOver, Looping, LoopState
  <2> QED BY <1>2, <2>1
          DEF Settle, Delivers, DeliveryRefused, HandoffUnknown, ChannelUnavailable
<1>3. CASE Waiting BY <1>3 DEF Waiting, Looping, At, history
<1>4. CASE Resolve BY <1>4 DEF Resolve, Looping, At, history
<1> QED BY <1>1, <1>2, <1>3, <1>4 DEF Delivery

\* What the delivery leaves of the rows, whichever of its steps it is.
LEMMA DeliveryRows ==
  ASSUME TypeInv, Delivery
  PROVE  /\ DOMAIN prompts' = DOMAIN prompts
         /\ \A p \in DOMAIN prompts :
              /\ prompts'[p].created = prompts[p].created /\ prompts'[p].desk = prompts[p].desk
              /\ p # disp.prompt => prompts'[p].state = prompts[p].state
                                    /\ prompts'[p].failure = prompts[p].failure
              /\ ~Resolve => prompts'[p].state = prompts[p].state
                             /\ prompts'[p].failure = prompts[p].failure
                             /\ prompts'[p].disclosed = prompts[p].disclosed
<1>1. \A p \in DOMAIN prompts : prompts[p] \in PromptRow BY PromptRows
<1>2. CASE UNCHANGED prompts BY <1>2
<1>3. ASSUME NEW b \in BOOLEAN, prompts' = [prompts EXCEPT ![disp.prompt].attempted = b]
      PROVE  /\ DOMAIN prompts' = DOMAIN prompts
             /\ \A p \in DOMAIN prompts :
                  /\ prompts'[p].created = prompts[p].created
                  /\ prompts'[p].desk = prompts[p].desk
                  /\ prompts'[p].state = prompts[p].state
                  /\ prompts'[p].failure = prompts[p].failure
                  /\ prompts'[p].disclosed = prompts[p].disclosed
  BY <1>1, <1>3 DEF PromptRow
<1>4. CASE Resolve BY <1>1, <1>4 DEF Resolve, PromptRow
<1> QED BY <1>2, <1>3, <1>4, DeliverySteps

LEMMA BoundedKept == ASSUME TypeInv, Bounded, [Next]_vars PROVE Bounded'
<1>1. CASE Delivery BY <1>1, DeliveryRows DEF Bounded
<1>2. CASE Added BY <1>2 DEF Added, Bounded
<1>3. ASSUME NEW codes, Failing(codes) PROVE Bounded' BY <1>3 DEF Failing, Bounded
<1> QED BY <1>1, <1>2, <1>3, StepOutside DEF Outside

-----------------------------------------------------------------------------
(* A failed prompt is disclosed once *)

\* What a delivery will stamp was failed and undisclosed when it was read, and nothing
\* but a delivery, of which there is one at a time, stamps a row.
Disclosing ==
  /\ DisclosedOnce
  /\ Delivering =>
       /\ prompts[disp.prompt].disclosed = 0
       /\ \A p \in disp.named :
            /\ p \in DOMAIN prompts /\ p # disp.prompt
            /\ prompts[p].state = "FAILED" /\ prompts[p].disclosed = 0

DisclosureInv == Inv /\ Bounded /\ Disclosing

LEMMA DeliveryDiscloses == ASSUME DisclosureInv, Delivery PROVE Disclosing'
<1> USE DEF DisclosureInv, Inv, Disclosing
<1>0. /\ \A p \in DOMAIN prompts : prompts[p] \in PromptRow
      /\ Delivering => disp.prompt \in DOMAIN prompts
      /\ disp \in LoopState
  BY PromptRows DEF TypeInv, References, TypeOK, MemoryOK, Delivering
<1>1. CASE ~Resolve
  <2>1. /\ DOMAIN prompts' = DOMAIN prompts
        /\ \A p \in DOMAIN prompts : /\ prompts'[p].state = prompts[p].state
                                     /\ prompts'[p].disclosed = prompts[p].disclosed
    BY <1>1, DeliveryRows
  <2>2. DisclosedOnce' BY <2>1 DEF DisclosedOnce
  <2>3. CASE ~Delivering' BY <2>2, <2>3
  <2>4. CASE Delivering'
    <3>1. Delivering /\ disp'.prompt = disp.prompt /\ disp'.named = disp.named
      BY <1>1, <2>4, DeliverySteps DEF Delivering
    <3> QED BY <1>0, <2>1, <2>2, <3>1
  <2> QED BY <2>3, <2>4
<1>2. CASE Resolve
  <2>1. disp.pc = "resolve" /\ ~Delivering' BY <1>2 DEF Resolve, Looping, At, Delivering
  <2>2. disp.prompt \in DOMAIN prompts /\ prompts[disp.prompt].disclosed = 0
        /\ \A p \in disp.named :
            /\ p \in DOMAIN prompts /\ p # disp.prompt
            /\ prompts[p].state = "FAILED" /\ prompts[p].disclosed = 0
    BY <1>0, <2>1 DEF Delivering
  <2>3. ASSUME NEW p \in DOMAIN prompts'
        PROVE  prompts'[p].disclosed <= 1
               /\ (prompts'[p].disclosed = 1 => prompts'[p].state = "FAILED")
    <3>1. p \in DOMAIN prompts /\ prompts[p] \in PromptRow BY <1>0, <1>2, <2>3 DEF Resolve
    <3>2. CASE p = disp.prompt
      <4>1. prompts'[p].disclosed = prompts[p].disclosed BY <1>2, <3>1, <3>2 DEF Resolve, PromptRow
      <4> QED BY <2>2, <3>2, <4>1
    <3>3. CASE p # disp.prompt /\ p \in disp.named
      <4>1. prompts'[p].state = prompts[p].state
            /\ (prompts'[p].disclosed = prompts[p].disclosed
                \/ prompts'[p].disclosed = prompts[p].disclosed + 1)
        BY <1>2, <3>1, <3>3 DEF Resolve, PromptRow
      <4> QED BY <2>2, <3>3, <4>1
    <3>4. CASE p # disp.prompt /\ p \notin disp.named
      <4>1. prompts'[p] = prompts[p] BY <1>2, <3>1, <3>4 DEF Resolve
      <4> QED BY <3>1, <4>1 DEF DisclosedOnce
    <3> QED BY <3>2, <3>3, <3>4
  <2> QED BY <2>1, <2>3 DEF DisclosedOnce
<1> QED BY <1>1, <1>2

LEMMA OutsideDiscloses == ASSUME DisclosureInv, Outside PROVE Disclosing'
<1> USE DEF DisclosureInv, Inv, Disclosing
<1>0. /\ \A p \in DOMAIN prompts : prompts[p] \in PromptRow
      /\ Delivering => disp.prompt \in DOMAIN prompts
  BY PromptRows DEF TypeInv, References, Delivering
<1>1. /\ \A p \in DOMAIN prompts :
           /\ p \in DOMAIN prompts' /\ prompts'[p].disclosed = prompts[p].disclosed
           /\ prompts[p].state # "QUEUED" => prompts'[p].state = prompts[p].state
      /\ \A p \in DOMAIN prompts' \ DOMAIN prompts : prompts'[p].disclosed = 0
  <2>1. CASE Added BY <2>1 DEF Added
  <2>2. ASSUME NEW codes, Failing(codes)
        PROVE  /\ DOMAIN prompts' = DOMAIN prompts
               /\ \A p \in DOMAIN prompts :
                    /\ prompts'[p].disclosed = prompts[p].disclosed
                    /\ prompts[p].state # "QUEUED" => prompts'[p].state = prompts[p].state
    BY <2>2 DEF Failing
  <2> QED BY <2>1, <2>2 DEF Outside
<1>2. DisclosedOnce'
  <2>1. ASSUME NEW p \in DOMAIN prompts'
        PROVE  prompts'[p].disclosed <= 1
               /\ (prompts'[p].disclosed = 1 => prompts'[p].state = "FAILED")
    <3>1. CASE p \in DOMAIN prompts BY <1>0, <1>1, <3>1 DEF DisclosedOnce
    <3>2. CASE p \notin DOMAIN prompts BY <1>1, <3>2
    <3> QED BY <3>1, <3>2
  <2> QED BY <2>1 DEF DisclosedOnce
<1>3. CASE disp' = disp BY <1>0, <1>1, <1>2, <1>3 DEF Delivering
<1>4. CASE Picks
  <2>1. PICK d \in Desks : disp'.prompt \in Heads(d) /\ disp'.named \subseteq Undisclosed(d)
    BY <1>4 DEF Picks
  <2>2. disp'.prompt \in DOMAIN prompts /\ prompts[disp'.prompt].state = "QUEUED"
    BY <2>1 DEF Heads, Queued
  <2>3. \A p \in disp'.named : /\ p \in DOMAIN prompts /\ prompts[p].state = "FAILED"
                               /\ prompts[p].disclosed = 0
    BY <2>1 DEF Undisclosed
  <2>4. prompts[disp'.prompt].disclosed = 0
    <3>1. prompts[disp'.prompt].disclosed \in Nat BY <1>0, <2>2 DEF PromptRow
    <3> QED BY <2>2, <3>1 DEF DisclosedOnce
  <2>5. UNCHANGED prompts BY <1>4 DEF Picks
  <2> QED BY <1>2, <2>2, <2>3, <2>4, <2>5
<1>5. CASE ~Delivering' BY <1>2, <1>5
<1> QED BY <1>3, <1>4, <1>5 DEF Outside

\* A prompt that failed is told to at most one later session, however many disclosures
\* are queued, refused, lost or cut short by a death.
THEOREM Disclosed == Spec => []DisclosedOnce
<1>1. Init => DisclosureInv
  <2>1. ASSUME Init PROVE Handed = {} /\ AtMostOnce /\ up /\ disp.pc = "pass" /\ prompts = <<>>
    BY <2>1 DEF Init, Handed, AtMostOnce, At
  <2>2. ASSUME Init PROVE DisclosureInv
    <3>1. TypeInv /\ OneHandover BY <2>1, <2>2, InitTypes DEF OneHandover
    <3>2. Bounded /\ Disclosing BY <2>1, <2>2 DEF Bounded, Disclosing, DisclosedOnce, Delivering
    <3> QED BY <3>1, <3>2 DEF DisclosureInv, Inv
  <2> QED BY <2>2
<1>2. DisclosureInv /\ [Next]_vars => DisclosureInv'
  <2>1. ASSUME DisclosureInv, [Next]_vars PROVE DisclosureInv'
    <3>1. TypeInv' /\ OneHandover' /\ Bounded'
      BY <2>1, NextTypes, NextOnce, BoundedKept DEF DisclosureInv, Inv
    <3>2. Disclosing'
      BY <2>1, StepOutside, DeliveryDiscloses, OutsideDiscloses DEF DisclosureInv, Inv
    <3> QED BY <3>1, <3>2 DEF DisclosureInv, Inv
  <2> QED BY <2>1
<1>3. DisclosureInv => DisclosedOnce BY DEF DisclosureInv, Disclosing
<1> QED BY <1>1, <1>2, <1>3, PTL DEF Spec

-----------------------------------------------------------------------------
(* One agent a desk *)

\* A desk none of whose spawns overlapped: one spawn of it at most is under way, the map
\* then holds no terminal of it, and a living child is on the desk's terminal or is the
\* one the spawn is about to put there.
Held(d, p) == term[d] = p
              \/ \E a \in Actors : act[a].pc = "insert" /\ act[a].desk = d /\ act[a].proc = p
Alone(d) ==
  /\ \A a, b \in Actors : InSpawn(a, d) /\ InSpawn(b, d) => a = b
  /\ \A a \in Actors : InSpawn(a, d) => term[d] = NoProc
  /\ \A p \in DOMAIN procs : procs[p].desk = d /\ procs[p].alive => Held(d, p)
Agents == \A d \in Desks : d \notin overlapped => Alone(d)

LEMMA Children == ASSUME TypeInv PROVE /\ \A p \in DOMAIN procs : procs[p] \in Child
                                       /\ procs \in Seq(Child) /\ Len(procs) \in Nat
                                       /\ DOMAIN procs = 1..Len(procs)
                                       /\ term \in [Desks -> Nat]
BY LenProperties, ElementOfSeq DEF TypeInv, TypeOK, RowsOK, AdaptersOK

\* A step that starts no child: what lives was alive and stays where it is, and the map
\* only loses terminals.
ChildrenKept ==
  /\ DOMAIN procs' = DOMAIN procs
  /\ \A p \in DOMAIN procs :
       /\ procs'[p].desk = procs[p].desk
       /\ procs'[p].alive => procs[p].alive
                             /\ (term[procs[p].desk] = p => term'[procs[p].desk] = p)
  /\ \A d \in Desks : term'[d] = term[d] \/ term'[d] = NoProc

\* A step that takes no spawn further, and breaks none off that has a child.
SpawnsKept == \A b \in Actors :
  \/ act'[b] = act[b]
  \/ act[b].pc # "insert" /\ act'[b].pc \notin {"start", "insert"}

LEMMA KeptAlone ==
  ASSUME TypeInv, Agents, ChildrenKept, SpawnsKept, UNCHANGED overlapped
  PROVE  Agents'
<1> SUFFICES ASSUME NEW d \in Desks, d \notin overlapped PROVE Alone(d)'
  BY DEF Agents
<1>1. Alone(d) BY DEF Agents
<1>2. \A b \in Actors : InSpawn(b, d)' => InSpawn(b, d) BY DEF SpawnsKept, InSpawn
<1>3. \A b \in Actors : act[b].pc = "insert" => act'[b] = act[b] BY DEF SpawnsKept
<1>4. \A b \in Actors : InSpawn(b, d)' => term'[d] = NoProc BY <1>1, <1>2 DEF Alone, ChildrenKept
<1>5. ASSUME NEW p \in DOMAIN procs', procs'[p].desk = d, procs'[p].alive PROVE Held(d, p)'
  <2>1. p \in DOMAIN procs /\ procs[p].desk = d /\ procs[p].alive BY <1>5 DEF ChildrenKept
  <2>2. Held(d, p) BY <1>1, <2>1 DEF Alone
  <2>3. CASE term[d] = p BY <1>5, <2>1, <2>3 DEF ChildrenKept, Held
  <2>4. ASSUME NEW b \in Actors, act[b].pc = "insert", act[b].desk = d, act[b].proc = p
        PROVE  Held(d, p)'
    BY <1>3, <2>4 DEF Held
  <2> QED BY <2>2, <2>3, <2>4 DEF Held
<1> QED BY <1>1, <1>2, <1>4, <1>5 DEF Alone

\* Rows are closed and filled in, the children behind them are not touched.
SameChildren ==
  /\ UNCHANGED term /\ DOMAIN procs' = DOMAIN procs
  /\ \A p \in DOMAIN procs : /\ procs'[p].desk = procs[p].desk
                             /\ procs'[p].alive = procs[p].alive

LEMMA EndedSame ==
  ASSUME TypeInv, UNCHANGED term, NEW a, NEW inbox, NEW d, NEW reason, Ended(a, inbox, d, reason)
  PROVE  SameChildren
<1>1. PICK x : procs' = Close(procs, x, reason) BY DEF Ended
<1> QED BY <1>1, Children DEF Close, Child, SameChildren

LEMMA EventSame ==
  ASSUME TypeInv, NEW a, NEW inbox, NEW e, Event(a, inbox, e) PROVE SameChildren
<1>0. UNCHANGED term BY DEF Event, adapterVars
<1>1. CASE UNCHANGED procs BY <1>0, <1>1 DEF SameChildren
<1>2. CASE Readied(a, inbox, e.desk) BY <1>0, <1>2, Children DEF Readied, Child, SameChildren
<1>3. CASE Discovered(a, inbox, e.desk, e.sid)
  BY <1>0, <1>3, Children DEF Discovered, Child, SameChildren
<1>4. CASE Ended(a, inbox, e.desk, "CONTROL_PLANE_LOST") BY <1>0, <1>4, EndedSame
<1> QED BY <1>1, <1>2, <1>3, <1>4 DEF Event

LEMMA ShutdownEnds ==
  ASSUME TypeInv, NEW d
  PROVE  /\ DOMAIN Shutdown(d) = DOMAIN procs /\ Shutdown(d) \in Seq(Child)
         /\ \A q \in DOMAIN procs :
              /\ Shutdown(d)[q].desk = procs[q].desk
              /\ Shutdown(d)[q].alive => procs[q].alive /\ q # term[d]
BY Children, ShutdownType DEF Shutdown, Child

LEMMA ExitEnds == ASSUME TypeInv, NEW d \in Desks, Exit(d) PROVE ChildrenKept
<1>1. procs' = Shutdown(d) /\ term' = [term EXCEPT ![d] = NoProc] BY DEF Exit
<1>2. ASSUME NEW q \in DOMAIN procs, procs'[q].alive, term[procs[q].desk] = q
      PROVE  term'[procs[q].desk] = q
  <2>1. q # term[d] BY <1>1, <1>2, ShutdownEnds
  <2>2. procs[q].desk # d /\ procs[q].desk \in Desks BY <1>2, <2>1, Children DEF Child
  <2> QED BY <1>1, <1>2, <2>2, Children
<1> QED BY <1>1, <1>2, Children, ShutdownEnds DEF ChildrenKept

\* The three steps of a spawn.
Spawning == \E a \in Actors : Spawn(a)

LEMMA StepChildren ==
  ASSUME TypeInv, [Next]_vars, ~Spawning, ~(Crash \/ Quit) PROVE ChildrenKept
<1>0. SameChildren => ChildrenKept BY DEF SameChildren, ChildrenKept
<1>1. CASE UNCHANGED <<procs, term>> BY <1>0, <1>1 DEF SameChildren
<1>2. ASSUME NEW a \in Actors, ActorStep(a) PROVE ChildrenKept
  <2>1. CASE OpenProcess(a)
    <3>1. UNCHANGED term BY <2>1 DEF OpenProcess, adapterVars
    <3>2. DOMAIN procs' = DOMAIN procs
          /\ \A p \in DOMAIN procs : procs'[p].desk = procs[p].desk /\ procs'[p].alive = procs[p].alive
      BY <2>1, Children DEF OpenProcess, Child
    <3> QED BY <1>0, <3>1, <3>2 DEF SameChildren
  <2>2. CASE Drain(a) BY <1>0, <2>2, EventSame DEF Drain
  <2> QED BY <1>1, <1>2, <2>1, <2>2
          DEF ActorStep, Spawning, SpawnFails, OpenRefused, GiveUp, Install, adapterVars
<1>3. CASE Delivery
  BY <1>1, <1>3 DEF Delivery, MarkAttempted, Settle, Delivers, DeliveryRefused, HandoffUnknown,
                    ChannelUnavailable, HandOver, Waiting, Resolve, adapterVars
<1>4. CASE Loop
  <2>1. ASSUME NEW d \in Desks, Expire(d) PROVE ChildrenKept
    BY <1>0, <2>1, EndedSame DEF Expire, adapterVars
  <2>2. CASE RecvEvent BY <1>0, <2>2, EventSame DEF RecvEvent
  <2>3. CASE RecvExit
    <3>1. ASSUME NEW e, Ended(Dispatcher, <<>>, e.desk, "ENDED") PROVE ChildrenKept
      BY <1>0, <2>3, <3>1, EndedSame DEF RecvExit
    <3> QED BY <1>1, <2>3, <3>1 DEF RecvExit
  <2> QED BY <1>1, <1>4, <2>1, <2>2, <2>3
          DEF Loop, Pass, Visit, CheckDeadlines, Wake, adapterVars
<1>5. ASSUME NEW r \in Routes, RouteStep(r) PROVE ChildrenKept
  <2>1. ASSUME NEW d \in Desks, SessionSwitch(r, d) PROVE ChildrenKept
    BY <1>1, <2>1, ExitEnds DEF SessionSwitch
  <2> QED BY <1>1, <1>5, <2>1
          DEF RouteStep, SessionActivate, SwitchClosed, SwitchRuntime, adapterVars
<1>6. CASE Environment
  <2>1. ASSUME NEW d \in Desks, SessionExit(d) PROVE ChildrenKept
    BY <2>1, ExitEnds DEF SessionExit
  <2>2. ASSUME NEW p \in DOMAIN procs, ChildExits(p) \/ ThreadStarted(p) \/ ChannelConnects(p)
        PROVE  ChildrenKept
    <3>1. UNCHANGED term BY <2>2 DEF ChildExits, ThreadStarted, ChannelConnects
    <3>2. procs' = [procs EXCEPT ![p].alive = FALSE] \/ procs' = [procs EXCEPT ![p].reported = TRUE]
      BY <2>2 DEF ChildExits, ThreadStarted, ChannelConnects
    <3>3. ASSUME NEW child \in Child
          PROVE  /\ [child EXCEPT !.alive = FALSE].desk = child.desk
                 /\ ~[child EXCEPT !.alive = FALSE].alive
                 /\ [child EXCEPT !.reported = TRUE].desk = child.desk
                 /\ [child EXCEPT !.reported = TRUE].alive = child.alive
      BY DEF Child
    <3>4. DOMAIN procs' = DOMAIN procs
          /\ \A q \in DOMAIN procs : \/ procs'[q] = procs[q]
                                     \/ procs'[q] = [procs[q] EXCEPT !.alive = FALSE]
                                     \/ procs'[q] = [procs[q] EXCEPT !.reported = TRUE]
      BY <3>2, Zenon
    <3>5. ASSUME NEW q \in DOMAIN procs
          PROVE  procs'[q].desk = procs[q].desk /\ (procs'[q].alive => procs[q].alive)
      <4>1. procs[q] \in Child BY Children
      <4>2. CASE procs'[q] = procs[q] BY <4>2
      <4>3. CASE procs'[q] = [procs[q] EXCEPT !.alive = FALSE] BY <3>3, <4>1, <4>3
      <4>4. CASE procs'[q] = [procs[q] EXCEPT !.reported = TRUE] BY <3>3, <4>1, <4>4
      <4> QED BY <3>4, <4>2, <4>3, <4>4
    <3> QED BY <3>1, <3>4, <3>5 DEF ChildrenKept
  <2>3. CASE ControlPlaneLost
    <3> DEFINE desks == {d \in Desks : codex[d].live # NoProc}
               killed == {d \in desks : term[d] = codex[d].live}
    <3>1. /\ procs' = [p \in DOMAIN procs |->
               [procs[p] EXCEPT !.alive = @ /\ \A d \in killed : p # term[d],
                                !.reported = @ \/ procs[p].runtime = "codex"]]
          /\ term' = [d \in Desks |-> IF d \in killed THEN NoProc ELSE term[d]]
      BY <2>3 DEF ControlPlaneLost
    <3> HIDE DEF killed
    <3>2. ASSUME NEW p \in DOMAIN procs
          PROVE  procs'[p].desk = procs[p].desk
                 /\ (procs'[p].alive => procs[p].alive /\ \A d \in killed : p # term[d])
      BY <3>1, <3>2, Children DEF Child
    <3>3. ASSUME NEW p \in DOMAIN procs, procs'[p].alive, term[procs[p].desk] = p
          PROVE  term'[procs[p].desk] = p
      <4>1. procs[p].desk \in Desks BY Children DEF Child
      <4>2. procs[p].desk \notin killed BY <3>2, <3>3
      <4> QED BY <3>1, <3>3, <4>1, <4>2
    <3> QED BY <3>1, <3>2, <3>3 DEF ChildrenKept
  <2> QED BY <1>1, <1>6, <2>1, <2>2, <2>3
          DEF Environment, Enqueue, ThreadIdle, ChannelCloses, RuntimeRetry, adapterVars
<1>7. CASE Recover
  BY <1>0, <1>7, Children DEF Recover, ClosedAll, Child, SameChildren, adapterVars
<1>8. CASE UNCHANGED vars BY <1>1, <1>8 DEF vars
<1> QED BY <1>2, <1>3, <1>4, <1>5, <1>6, <1>7, <1>8 DEF Next

\* A call outside the last step of a spawn ends, or goes on to something else.
LEMMA CallMoves ==
  ASSUME TypeInv, NEW a \in Actors, act[a].pc # "insert", NEW call,
         call.pc \notin {"start", "insert"}, act' = [act EXCEPT ![a] = call]
  PROVE  SpawnsKept
BY DEF TypeInv, TypeOK, MemoryOK, SpawnsKept

LEMMA Holds == \A inbox : Holding(inbox).pc = "drain" BY DEF Holding

LEMMA ActivateSpawns ==
  ASSUME TypeInv, NEW a \in Actors, act[a].pc # "insert", NEW inbox, NEW rows, NEW ptr, NEW d,
         NEW mode, NEW caller, Activate(a, inbox, rows, ptr, d, mode, caller)
  PROVE  SpawnsKept
<1>1. PICK call : act' = [act EXCEPT ![a] = call] /\ call.pc \in {"spawn", "drain"}
  <2>1. CASE Admission(rows, ptr, d, mode) = "ADMITTED"
    <3> DEFINE spawn == [pc |-> "spawn", desk |-> d, caller |-> caller, runtime |-> selected[d],
                         resume |-> IF mode = "NEW" THEN NoSid ELSE ptr[d][selected[d]],
                         explicit |-> mode = "CONTINUE", proc |-> NoProc, inbox |-> inbox]
    <3>1. act' = [act EXCEPT ![a] = spawn] BY <2>1, Zenon DEF Activate
    <3>2. spawn.pc = "spawn" OBVIOUS
    <3> HIDE DEF spawn
    <3> QED BY <3>1, <3>2
  <2>2. CASE Admission(rows, ptr, d, mode) # "ADMITTED" BY <2>2, Holds DEF Activate
  <2> QED BY <2>1, <2>2
<1> QED BY <1>1, CallMoves

LEMMA EndedSpawns ==
  ASSUME TypeInv, NEW a \in Actors, act[a].pc # "insert", NEW inbox, NEW d, NEW reason,
         Ended(a, inbox, d, reason)
  PROVE  SpawnsKept
<1>1. CASE act' = [act EXCEPT ![a] = Holding(inbox)] BY <1>1, Holds, CallMoves
<1>2. ASSUME NEW rows, NEW ptr, Activate(a, inbox, rows, ptr, d, "NEW", "retry") PROVE SpawnsKept
  BY <1>2, ActivateSpawns
<1> QED BY <1>1, <1>2 DEF Ended

LEMMA EventSpawns ==
  ASSUME TypeInv, NEW a \in Actors, act[a].pc # "insert", NEW inbox, NEW e, Event(a, inbox, e)
  PROVE  SpawnsKept
<1>1. CASE act' = [act EXCEPT ![a] = Holding(inbox)] BY <1>1, Holds, CallMoves
<1>2. CASE Ended(a, inbox, e.desk, "CONTROL_PLANE_LOST") BY <1>2, EndedSpawns
<1> QED BY <1>1, <1>2 DEF Event, Readied, Discovered

LEMMA StepSpawns ==
  ASSUME TypeInv, [Next]_vars, ~Spawning, ~(Crash \/ Quit)
  PROVE  SpawnsKept /\ UNCHANGED overlapped
<1>0. UNCHANGED act => SpawnsKept BY DEF SpawnsKept
<1>1. ASSUME NEW a \in Actors, ActorStep(a) PROVE SpawnsKept /\ UNCHANGED overlapped
  <2>1. ASSUME NEW error, GiveUp(a, error), act[a].pc # "insert"
        PROVE  SpawnsKept /\ UNCHANGED overlapped
    BY <2>1, Holds, CallMoves DEF GiveUp, history
  <2>2. CASE SpawnFails(a) BY <2>1, <2>2 DEF SpawnFails
  <2>3. CASE OpenRefused(a) BY <2>1, <2>3 DEF OpenRefused
  <2>4. CASE OpenProcess(a)
    <3> DEFINE call == [act[a] EXCEPT !.pc = "install"]
    <3>1. act[a] \in Call /\ act[a].pc = "open" BY <2>4 DEF OpenProcess, TypeInv, TypeOK, MemoryOK
    <3>2. call.pc = "install" BY <3>1 DEF Call
    <3>3. act' = [act EXCEPT ![a] = call] BY <2>4 DEF OpenProcess
    <3> HIDE DEF call
    <3>4. SpawnsKept BY <3>1, <3>2, <3>3, CallMoves
    <3> QED BY <2>4, <3>4 DEF OpenProcess, history
  <2>5. CASE Install(a)
    <3>1. PICK inbox : act' = [act EXCEPT ![a] = Holding(inbox)] BY <2>5 DEF Install
    <3>2. act[a].pc = "install" /\ UNCHANGED overlapped BY <2>5 DEF Install, history
    <3> QED BY <3>1, <3>2, Holds, CallMoves
  <2>6. CASE Drain(a)
    <3>1. act[a].pc = "drain" /\ UNCHANGED overlapped BY <2>6 DEF Drain, Event, history
    <3> QED BY <2>6, <3>1, EventSpawns DEF Drain
  <2> QED BY <1>1, <2>2, <2>3, <2>4, <2>5, <2>6 DEF ActorStep, Spawning
<1>2. CASE Delivery
  BY <1>0, <1>2 DEF Delivery, MarkAttempted, Settle, Delivers, DeliveryRefused, HandoffUnknown,
                    ChannelUnavailable, HandOver, Waiting, Resolve, history
<1>3. CASE Loop
  <2>0. Idle(Dispatcher) => act[Dispatcher].pc = "drain" BY Holds DEF Idle
  <2> Dispatcher \in Actors BY DEF Actors
  <2>1. ASSUME NEW d \in Desks, Expire(d) PROVE SpawnsKept /\ UNCHANGED overlapped
    BY <2>0, <2>1, EndedSpawns DEF Expire, Looping, history
  <2>2. CASE RecvEvent
    <3>1. act[Dispatcher].pc = "drain" /\ UNCHANGED overlapped
      BY <2>0, <2>2 DEF RecvEvent, Select, Looping, Event, history
    <3> QED BY <2>2, <3>1, EventSpawns DEF RecvEvent
  <2>3. CASE RecvExit
    <3>1. act[Dispatcher].pc = "drain" /\ UNCHANGED overlapped
      BY <2>0, <2>3 DEF RecvExit, Select, Looping, history
    <3>2. ASSUME NEW e, Ended(Dispatcher, <<>>, e.desk, "ENDED") PROVE SpawnsKept
      BY <3>1, <3>2, EndedSpawns
    <3> QED BY <1>0, <2>3, <3>1, <3>2 DEF RecvExit
  <2>4. ASSUME NEW d \in Desks, Visit(d) PROVE SpawnsKept /\ UNCHANGED overlapped
    <3>1. act[Dispatcher].pc = "drain" /\ UNCHANGED overlapped
      BY <2>0, <2>4 DEF Visit, Looping, history
    <3>2. CASE Activate(Dispatcher, <<>>, procs, pointer, d, "AUTO", "queue")
      BY <3>1, <3>2, ActivateSpawns
    <3> QED BY <1>0, <2>4, <3>1, <3>2 DEF Visit
  <2> QED BY <1>0, <1>3, <2>1, <2>2, <2>3, <2>4 DEF Loop, Pass, CheckDeadlines, Wake, history
<1>4. ASSUME NEW r \in Routes, RouteStep(r) PROVE SpawnsKept /\ UNCHANGED overlapped
  <2> r \in Actors BY DEF Actors
  <2>0. Idle(r) => act[r].pc = "drain" BY Holds DEF Idle
  <2>1. ASSUME NEW d \in Desks, NEW mode, SessionActivate(r, d, mode)
        PROVE  SpawnsKept /\ UNCHANGED overlapped
    BY <2>0, <2>1, ActivateSpawns DEF SessionActivate, history
  <2>2. ASSUME NEW d \in Desks, SessionSwitch(r, d) PROVE SpawnsKept /\ UNCHANGED overlapped
    <3>1. PICK target : act' = [act EXCEPT ![r] =
              [Holding(<<>>) EXCEPT !.pc = "close", !.desk = d, !.runtime = target]]
      BY <2>2 DEF SessionSwitch
    <3>2. [Holding(<<>>) EXCEPT !.pc = "close", !.desk = d, !.runtime = target].pc = "close"
      BY DEF Holding
    <3>3. act[r].pc = "drain" /\ UNCHANGED overlapped BY <2>0, <2>2 DEF SessionSwitch, history
    <3> QED BY <3>1, <3>2, <3>3, CallMoves
  <2>3. CASE SwitchClosed(r)
    <3>1. act[r].pc = "close" /\ UNCHANGED overlapped BY <2>3 DEF SwitchClosed, history
    <3>2. [act[r] EXCEPT !.pc = "switch"].pc = "switch" BY DEF TypeInv, TypeOK, MemoryOK, Call
    <3>3. \/ act' = [act EXCEPT ![r] = [act[r] EXCEPT !.pc = "switch"]]
          \/ act' = [act EXCEPT ![r] = Holding(<<>>)]
      BY <2>3 DEF SwitchClosed
    <3> QED BY <3>1, <3>2, <3>3, Holds, CallMoves
  <2>4. CASE SwitchRuntime(r) BY <2>4, Holds, CallMoves DEF SwitchRuntime, history
  <2> QED BY <1>4, <2>1, <2>2, <2>3, <2>4 DEF RouteStep
<1>5. CASE Environment
  BY <1>0, <1>5
     DEF Environment, Enqueue, SessionExit, ThreadIdle, ChannelCloses, ChildExits, ThreadStarted,
         ChannelConnects, RuntimeRetry, ControlPlaneLost, history
<1>6. CASE Recover BY <1>0, <1>6 DEF Recover, history
<1>7. CASE UNCHANGED vars BY <1>0, <1>7 DEF vars
<1> QED BY <1>1, <1>2, <1>3, <1>4, <1>5, <1>6, <1>7 DEF Next

\* The previous terminal is ended: nothing of the desk lives on, and the map is empty.
LEMMA EndPreviousAlone ==
  ASSUME TypeInv, Agents, NEW a \in Actors, EndPrevious(a) PROVE Agents'
<1> DEFINE e == act[a].desk
<1>1. /\ procs' = Shutdown(e) /\ term' = [term EXCEPT ![e] = NoProc]
      /\ act' = [act EXCEPT ![a] = [@ EXCEPT !.pc = "start"]]
      /\ overlapped' = IF \E b \in Actors : InSpawn(b, e) THEN overlapped \cup {e} ELSE overlapped
  BY DEF EndPrevious
<1>2. act[a] \in Call /\ act[a].pc = "spawn" /\ e \in Desks
  BY DEF EndPrevious, TypeInv, TypeOK, MemoryOK, CallsOK
<1>3. act'[a].pc = "start" /\ act'[a].desk = e /\ \A b \in Actors : b # a => act'[b] = act[b]
  BY <1>1, <1>2 DEF TypeInv, TypeOK, MemoryOK, Call
<1> HIDE DEF e
<1> SUFFICES ASSUME NEW d \in Desks, d \notin overlapped' PROVE Alone(d)'
  BY DEF Agents
<1>4. d \notin overlapped BY <1>1
<1>5. Alone(d) BY <1>4 DEF Agents
<1>6. CASE d # e
  <2>1. \A b \in Actors : InSpawn(b, d)' <=> InSpawn(b, d) BY <1>2, <1>3, <1>6 DEF InSpawn, e
  <2>2. term'[d] = term[d] BY <1>1, <1>6, Children
  <2>3. ASSUME NEW p \in DOMAIN procs', procs'[p].desk = d, procs'[p].alive PROVE Held(d, p)'
    <3>1. p \in DOMAIN procs /\ procs[p].desk = d /\ procs[p].alive BY <1>1, <2>3, ShutdownEnds
    <3>2. Held(d, p) BY <1>5, <3>1 DEF Alone
    <3> QED BY <1>2, <1>3, <2>2, <3>2 DEF Held
  <2> QED BY <1>5, <2>1, <2>2, <2>3 DEF Alone
<1>7. CASE d = e
  <2>1. \A b \in Actors : ~InSpawn(b, d) BY <1>1, <1>7
  <2>2. \A b \in Actors : InSpawn(b, d)' => b = a BY <1>3, <2>1 DEF InSpawn
  <2>3. term'[d] = NoProc BY <1>1, <1>7, Children
  <2>4. ASSUME NEW p \in DOMAIN procs', procs'[p].desk = d, procs'[p].alive PROVE FALSE
    <3>1. p \in DOMAIN procs /\ procs[p].desk = d /\ procs[p].alive /\ p # term[d]
      BY <1>1, <1>7, <2>4, ShutdownEnds
    <3>2. Held(d, p) BY <1>5, <3>1 DEF Alone
    <3> QED BY <2>1, <3>1, <3>2 DEF Held, InSpawn
  <2> QED BY <2>2, <2>3, <2>4 DEF Alone
<1> QED BY <1>6, <1>7

\* The child started is the one about to be inserted, and the only one of its desk.
LEMMA StartChildAlone ==
  ASSUME TypeInv, Agents, NEW a \in Actors, StartChild(a) PROVE Agents'
<1> DEFINE e == act[a].desk
           n == Len(procs) + 1
<1>1. PICK child : /\ procs' = Append(procs, child) /\ child.desk = e
                   /\ child = [desk |-> e, runtime |-> act[a].runtime, resume |-> act[a].resume,
                               alive |-> TRUE, reported |-> FALSE, row |-> "NONE",
                               ready |-> FALSE, native |-> NoSid]
  BY DEF StartChild
<1>2. /\ act[a] \in Call /\ act[a].pc = "start" /\ e \in Desks /\ act[a].runtime \in Runtimes
      /\ act[a].resume \in Nat
  BY DEF StartChild, TypeInv, TypeOK, MemoryOK, CallsOK, Call
<1>3. /\ DOMAIN procs' = 1..n /\ procs'[n] = child
      /\ \A q \in DOMAIN procs : procs'[q] = procs[q]
  <2>1. child \in Child BY <1>1, <1>2 DEF Child, NoSid
  <2>2. procs' \in Seq(Child) /\ Len(procs') = n /\ procs'[n] = child
        /\ \A q \in 1..Len(procs) : procs'[q] = procs[q]
    BY <1>1, <2>1, Children, AppendProperties
  <2> QED BY <2>2, Children, LenProperties
<1>4. /\ act'[a].pc = "insert" /\ act'[a].desk = e /\ act'[a].proc = n
      /\ \A b \in Actors : b # a => act'[b] = act[b]
  BY <1>2 DEF StartChild, TypeInv, TypeOK, MemoryOK, Call
<1>5. term' = term /\ overlapped' = overlapped BY DEF StartChild, adapterVars, history
<1> HIDE DEF e, n
<1> SUFFICES ASSUME NEW d \in Desks, d \notin overlapped PROVE Alone(d)'
  BY <1>5 DEF Agents
<1>6. Alone(d) BY DEF Agents
<1>7. \A b \in Actors : InSpawn(b, d)' <=> InSpawn(b, d) BY <1>2, <1>4 DEF InSpawn, e
<1>8. ASSUME NEW p \in DOMAIN procs', procs'[p].desk = d, procs'[p].alive PROVE Held(d, p)'
  <2>1. CASE p = n BY <1>1, <1>3, <1>4, <1>8, <2>1 DEF Held
  <2>2. CASE p # n
    <3>1. p \in DOMAIN procs BY <1>3, <2>2, Children DEF n
    <3>2. Held(d, p) BY <1>3, <1>6, <1>8, <3>1 DEF Alone
    <3> QED BY <1>2, <1>4, <1>5, <3>2 DEF Held
  <2> QED BY <2>1, <2>2
<1> QED BY <1>5, <1>6, <1>7, <1>8 DEF Alone

\* The child inserted takes the empty place.
LEMMA InsertTerminalAlone ==
  ASSUME TypeInv, Agents, NEW a \in Actors, InsertTerminal(a) PROVE Agents'
<1> DEFINE e == act[a].desk
<1>1. /\ term' = [term EXCEPT ![e] = act[a].proc] /\ procs' = procs /\ overlapped' = overlapped
  BY DEF InsertTerminal, history
<1>2. act[a] \in Call /\ act[a].pc = "insert" /\ e \in Desks
  BY DEF InsertTerminal, TypeInv, TypeOK, MemoryOK, CallsOK
<1>3. act'[a].pc = "open" /\ \A b \in Actors : b # a => act'[b] = act[b]
  BY <1>2 DEF InsertTerminal, TypeInv, TypeOK, MemoryOK, Call
<1> HIDE DEF e
<1> SUFFICES ASSUME NEW d \in Desks, d \notin overlapped PROVE Alone(d)'
  BY <1>1 DEF Agents
<1>4. Alone(d) BY DEF Agents
<1>5. \A b \in Actors : InSpawn(b, d)' => InSpawn(b, d) /\ b # a BY <1>3 DEF InSpawn
<1>6. CASE d = e
  <2>1. InSpawn(a, d) BY <1>2, <1>6 DEF InSpawn, e
  <2>2. \A b \in Actors : ~InSpawn(b, d)' BY <1>4, <1>5, <2>1 DEF Alone
  <2>3. term'[d] = act[a].proc /\ term[d] = NoProc BY <1>1, <1>4, <1>6, <2>1, Children DEF Alone
  <2>4. ASSUME NEW p \in DOMAIN procs, procs[p].desk = d, procs[p].alive PROVE term'[d] = p
    <3>1. Held(d, p) BY <1>4, <2>4 DEF Alone
    <3>2. term[d] # p BY <2>3, <2>4, Children DEF NoProc
    <3>3. PICK b \in Actors : act[b].pc = "insert" /\ act[b].desk = d /\ act[b].proc = p
      BY <3>1, <3>2 DEF Held
    <3>4. InSpawn(b, d) BY <3>3 DEF InSpawn
    <3>5. b = a BY <1>4, <2>1, <3>4 DEF Alone
    <3> QED BY <2>3, <3>3, <3>5
  <2> QED BY <1>1, <2>2, <2>4 DEF Alone, Held
<1>7. CASE d # e
  <2>1. term'[d] = term[d] BY <1>1, <1>7, Children
  <2>2. ASSUME NEW p \in DOMAIN procs, procs[p].desk = d, procs[p].alive PROVE Held(d, p)'
    <3>1. Held(d, p) BY <1>4, <2>2 DEF Alone
    <3> QED BY <1>3, <1>7, <2>1, <3>1 DEF Held, e
  <2> QED BY <1>1, <1>4, <1>5, <2>1, <2>2 DEF Alone
<1> QED BY <1>6, <1>7

LEMMA DeathAlone == ASSUME TypeInv, Crash \/ Quit PROVE Agents'
<1>1. ASSUME NEW rows, Dies(rows), \A p \in DOMAIN procs : rows[p] \in Child
      PROVE  Agents'
  <2>1. procs' = [p \in DOMAIN procs |-> [rows[p] EXCEPT !.alive = FALSE, !.reported = TRUE]]
    BY <1>1, Zenon DEF Dies
  <2>2. \A p \in DOMAIN procs' : ~procs'[p].alive BY <1>1, <2>1 DEF Child
  <2>3. \A b \in Actors : act'[b].pc = "drain" BY <1>1, Holds DEF Dies
  <2> QED BY <2>2, <2>3 DEF Agents, Alone, InSpawn
<1>2. \A p \in DOMAIN procs : ClosedAll[p] \in Child BY Children DEF ClosedAll, Child
<1> QED BY <1>1, <1>2, Children DEF Crash, Quit

LEMMA AgentKept == ASSUME TypeInv, Agents, [Next]_vars PROVE Agents'
<1>1. CASE Spawning
  BY <1>1, EndPreviousAlone, StartChildAlone, InsertTerminalAlone DEF Spawning, Spawn
<1>2. CASE Crash \/ Quit BY <1>2, DeathAlone
<1>3. CASE ~Spawning /\ ~(Crash \/ Quit) BY <1>3, StepChildren, StepSpawns, KeptAlone
<1> QED BY <1>1, <1>2, <1>3

LEMMA AgentsAreOne == ASSUME TypeInv, Agents PROVE OneAgent
<1> SUFFICES ASSUME NEW p \in DOMAIN procs, NEW q \in DOMAIN procs, procs[p].alive, procs[q].alive,
                    procs[p].desk = procs[q].desk, procs[p].desk \notin overlapped
             PROVE  p = q
  BY DEF OneAgent
<1> DEFINE d == procs[p].desk
<1>1. d \in Desks /\ p # NoProc /\ q # NoProc BY Children DEF Child, NoProc
<1>2. Alone(d) BY <1>1 DEF Agents
<1>3. Held(d, p) /\ Held(d, q) BY <1>2 DEF Alone
<1> HIDE DEF d
<1> QED BY <1>1, <1>2, <1>3 DEF Alone, Held, InSpawn

\* However routes, the queue and restarts after an early end start sessions for a desk, at
\* most one child of it is alive, unless two of its terminal spawns overlapped.
THEOREM OneAgentADesk == Spec => []OneAgent
<1>1. Init => TypeInv /\ Agents
  <2>1. Init => Agents BY Holds DEF Init, Agents, Alone, InSpawn
  <2> QED BY <2>1, InitTypes
<1>2. TypeInv /\ Agents /\ [Next]_vars => TypeInv' /\ Agents' BY NextTypes, AgentKept
<1>3. TypeInv /\ Agents => OneAgent BY AgentsAreOne
<1> QED BY <1>1, <1>2, <1>3, PTL DEF Spec

-----------------------------------------------------------------------------
(* What a runtime answered is on record, whoever else activates the desk *)

LEMMA HandedGrows ==
  ASSUME Inv, NEW runtimes, NEW received \in BOOLEAN, NEW outcome,
         HandOver(runtimes, received, outcome)
  PROVE  Handed' = IF received THEN Handed \cup {disp.prompt} ELSE Handed
<1>1. CASE ~received BY <1>1 DEF HandOver, Handed
<1>2. CASE received
  <2> DEFINE T == [prompt : Nat, proc : Nat, to : Nat]
  <2>1. PICK to, new : /\ to = Receiver(prompts[disp.prompt].desk, procs[disp.proc].runtime)
                       /\ new = [prompt |-> disp.prompt, proc |-> disp.proc, to |-> to]
    OBVIOUS
  <2>2. disp.pc = "call" BY DEF HandOver, Looping
  <2>3. to \in Nat BY <2>1, <2>2, ReceiverType DEF Inv, TypeInv
  <2>4. new \in T /\ new.prompt = disp.prompt
    BY <2>1, <2>3 DEF Inv, TypeInv, TypeOK, MemoryOK, LoopState
  <2>5. handed' = Append(handed, new) BY <1>2, <2>1 DEF HandOver
  <2>6. handed \in Seq(T) BY DEF Inv, TypeInv, TypeOK, HistoryOK
  <2>7. /\ Len(handed) \in Nat /\ DOMAIN handed = 1..Len(handed)
        /\ DOMAIN handed' = 1..(Len(handed) + 1)
        /\ handed'[Len(handed) + 1] = new
        /\ \A i \in 1..Len(handed) : handed'[i] = handed[i]
    <3>1. handed' \in Seq(T) /\ Len(handed') = Len(handed) + 1
          /\ handed'[Len(handed) + 1] = new
          /\ \A i \in 1..Len(handed) : handed'[i] = handed[i]
      BY <2>4, <2>5, <2>6, AppendProperties
    <3> QED BY <2>6, <3>1, LenProperties
  <2>8. \A i \in DOMAIN handed : i \in DOMAIN handed' /\ handed'[i].prompt = handed[i].prompt
    BY <2>7
  <2>9. \A i \in DOMAIN handed' : i \in DOMAIN handed \/ handed'[i].prompt = disp.prompt
    BY <2>4, <2>7
  <2>10. Len(handed) + 1 \in DOMAIN handed' /\ handed'[Len(handed) + 1].prompt = disp.prompt
    BY <2>4, <2>7
  <2> QED BY <1>2, <2>8, <2>9, <2>10 DEF Handed
<1> QED BY <1>1, <1>2

Refusals == {"DELIVERY_REFUSED", "CHANNEL_UNAVAILABLE"}

\* The part of OutcomeTruthful that is about the adapters' answers.
AnswersTold == \A p \in DOMAIN prompts :
  /\ prompts[p].state = "DELIVERED" => p \in Handed
  /\ prompts[p].failure \in Refusals => p \notin Handed

\* Only Resolve writes an answer, and it writes the one this delivery has got.
Answers ==
  /\ AnswersTold
  /\ \A p \in DOMAIN prompts : prompts[p].state = "QUEUED" => prompts[p].failure = "none"
  /\ Delivering => prompts[disp.prompt].failure \notin Refusals
  /\ disp.pc = "resolve" =>
       /\ disp.outcome = "DELIVERED" => disp.prompt \in Handed
       /\ disp.outcome \in Refusals => disp.prompt \notin Handed

AnswerInv == Inv /\ Answers

LEMMA HandOverAnswers ==
  ASSUME AnswerInv, NEW runtimes, NEW received \in BOOLEAN, NEW outcome,
         HandOver(runtimes, received, outcome),
         \/ outcome = "DELIVERED" /\ received
         \/ outcome \in {"DELIVERY_REFUSED", "CHANNEL_UNAVAILABLE"} /\ ~received
         \/ outcome = "HANDOFF_UNKNOWN"
  PROVE  Answers'
<1> USE DEF Refusals
<1>1. disp \in LoopState BY DEF AnswerInv, Inv, TypeInv, TypeOK, MemoryOK
<1>2. /\ disp.pc = "call" /\ Delivering /\ UNCHANGED prompts
      /\ disp'.pc = "resolve" /\ disp'.prompt = disp.prompt /\ disp'.outcome = outcome
  BY <1>1 DEF HandOver, Looping, LoopState, Delivering
<1>3. disp.prompt \notin Handed /\ prompts[disp.prompt].failure \notin Refusals
  BY <1>2 DEF AnswerInv, Answers, Inv, OneHandover
<1>4. Handed' = IF received THEN Handed \cup {disp.prompt} ELSE Handed
  BY HandedGrows DEF AnswerInv
<1>5. AnswersTold' BY <1>2, <1>3, <1>4 DEF AnswersTold, AnswerInv, Answers
<1> QED BY <1>2, <1>3, <1>4, <1>5 DEF Answers, AnswerInv

LEMMA DeliveryAnswers == ASSUME AnswerInv, Delivery PROVE Answers'
<1>0. /\ TypeInv /\ Delivering /\ disp.prompt \in DOMAIN prompts
      /\ \A p \in DOMAIN prompts : prompts[p] \in PromptRow
  BY PromptRows, DeliverySteps DEF AnswerInv, Inv, TypeInv, References, Delivering
<1>1. CASE MarkAttempted \/ Waiting
  <2>1. UNCHANGED handed /\ ~Resolve BY <1>1 DEF MarkAttempted, Waiting, Looping, Resolve, history
  <2>2. /\ DOMAIN prompts' = DOMAIN prompts /\ Handed' = Handed
        /\ \A q \in DOMAIN prompts : /\ prompts'[q].state = prompts[q].state
                                     /\ prompts'[q].failure = prompts[q].failure
    BY <1>0, <2>1, DeliveryRows DEF Handed
  <2>3. (disp'.pc = "call" /\ disp'.prompt = disp.prompt) \/ disp'.pc = "queue"
    <3>1. disp \in LoopState BY <1>0 DEF TypeInv, TypeOK, MemoryOK
    <3> QED BY <1>1, <3>1 DEF MarkAttempted, Waiting, At, LoopState
  <2> QED BY <1>0, <2>2, <2>3 DEF AnswerInv, Answers, AnswersTold, Delivering
<1>2. CASE Settle
  BY <1>2, HandOverAnswers
     DEF Settle, Delivers, DeliveryRefused, HandoffUnknown, ChannelUnavailable
<1>3. CASE Resolve
  <2>1. disp.pc = "resolve" /\ disp'.pc = "queue" /\ Handed' = Handed
    BY <1>3 DEF Resolve, Looping, At, history, Handed
  <2>2. DOMAIN prompts' = DOMAIN prompts
        /\ \A p \in DOMAIN prompts : p # disp.prompt =>
             prompts'[p].state = prompts[p].state /\ prompts'[p].failure = prompts[p].failure
    BY <1>0, DeliveryRows
  <2>3. IF disp.outcome = "DELIVERED"
          THEN prompts'[disp.prompt].state = "DELIVERED" /\ prompts'[disp.prompt].failure = "none"
          ELSE prompts'[disp.prompt].state = "FAILED" /\ prompts'[disp.prompt].failure = disp.outcome
    BY <1>0, <1>3 DEF Resolve, PromptRow
  <2>4. AnswersTold' BY <2>1, <2>2, <2>3 DEF AnswerInv, Answers, AnswersTold, Refusals
  <2> QED BY <2>1, <2>2, <2>3, <2>4 DEF AnswerInv, Answers, Delivering
<1> QED BY <1>1, <1>2, <1>3 DEF Delivery

LEMMA OutsideAnswers == ASSUME AnswerInv, Outside PROVE Answers'
<1>0. /\ TypeInv /\ (Delivering => disp.prompt \in DOMAIN prompts /\ up) /\ Handed' = Handed
      /\ \A p \in DOMAIN prompts : prompts[p] \in PromptRow
  BY PromptRows DEF AnswerInv, Inv, TypeInv, References, Delivering, Outside, Handed, OneHandover
<1>1. /\ \A p \in DOMAIN prompts :
           \/ prompts'[p] = prompts[p]
           \/ prompts'[p].state = "FAILED" /\ prompts'[p].failure \notin Refusals
      /\ \A p \in DOMAIN prompts' \ DOMAIN prompts :
           prompts'[p].state = "QUEUED" /\ prompts'[p].failure = "none"
      /\ DOMAIN prompts \subseteq DOMAIN prompts'
  BY DEF Outside, Added, Failing, Codes, Refusals
<1>2. AnswersTold' /\ (\A p \in DOMAIN prompts : prompts[p].state = "QUEUED" =>
                                                  prompts[p].failure = "none")'
  BY <1>0, <1>1 DEF AnswerInv, Answers, AnswersTold, Refusals
<1>3. CASE disp' = disp BY <1>0, <1>1, <1>2, <1>3 DEF AnswerInv, Answers, Delivering
<1>4. CASE ~Delivering' BY <1>2, <1>4 DEF Answers, Delivering
<1>5. CASE Picks
  <2>1. /\ disp'.pc = "attempt" /\ UNCHANGED prompts /\ disp'.prompt \in DOMAIN prompts
        /\ prompts[disp'.prompt].state = "QUEUED"
    BY <1>5 DEF Picks, Heads, Queued
  <2> QED BY <1>2, <2>1 DEF AnswerInv, Answers, Refusals
<1> QED BY <1>3, <1>4, <1>5 DEF Outside

\* With any number of routes: DELIVERED means received, and DELIVERY_REFUSED and
\* CHANNEL_UNAVAILABLE mean not received.
THEOREM AnswersTruthful == Spec => []AnswersTold
<1>1. Init => AnswerInv /\ Bounded
  <2>1. ASSUME Init PROVE AnswerInv /\ Bounded
    <3>1. Handed = {} /\ AtMostOnce /\ up /\ disp.pc = "pass" /\ prompts = <<>>
      BY <2>1 DEF Init, Handed, AtMostOnce, At
    <3>2. TypeInv /\ OneHandover BY <2>1, <3>1, InitTypes DEF OneHandover
    <3>3. Bounded /\ Answers BY <3>1 DEF Bounded, Answers, AnswersTold, Delivering
    <3> QED BY <3>2, <3>3 DEF AnswerInv, Inv
  <2> QED BY <2>1
<1>2. AnswerInv /\ Bounded /\ [Next]_vars => AnswerInv' /\ Bounded'
  <2>1. ASSUME AnswerInv, Bounded, [Next]_vars PROVE AnswerInv' /\ Bounded'
    <3>1. TypeInv' /\ OneHandover' /\ Bounded'
      BY <2>1, NextTypes, NextOnce, BoundedKept DEF AnswerInv, Inv
    <3>2. Answers' BY <2>1, StepOutside, DeliveryAnswers, OutsideAnswers DEF AnswerInv, Inv
    <3> QED BY <3>1, <3>2 DEF AnswerInv, Inv
  <2> QED BY <2>1
<1>3. AnswerInv => AnswersTold BY DEF AnswerInv, Answers
<1> QED BY <1>1, <1>2, <1>3, PTL DEF Spec

-----------------------------------------------------------------------------
(* The truth of the outcomes, where no route activates a desk beside the dispatcher *)

\* While a prompt is being delivered the dispatcher is inside no activation, the prompt is
\* the head of its desk's queue, and once the adapter has answered the outcome agrees with
\* the handover.
Truth ==
  /\ OutcomeTruthful
  /\ Delivering => Idle(Dispatcher) /\ disp.prompt \in Heads(prompts[disp.prompt].desk)
  /\ disp.pc = "resolve" =>
       \/ disp.outcome = "DELIVERED" /\ disp.prompt \in Handed
       \/ disp.outcome \in {"DELIVERY_REFUSED", "CHANNEL_UNAVAILABLE"} /\ disp.prompt \notin Handed
       \/ disp.outcome = "HANDOFF_UNKNOWN"

TruthInv == Inv /\ Bounded /\ Truth

\* A prompt stays the head of its queue while the rows keep their places.
LEMMA HeadKept ==
  ASSUME NEW p, p \in Heads(prompts[p].desk), DOMAIN prompts' = DOMAIN prompts,
         \A q \in DOMAIN prompts : /\ prompts'[q].desk = prompts[q].desk
                                   /\ prompts'[q].created = prompts[q].created
                                   /\ prompts'[q].state = prompts[q].state
  PROVE  (p \in Heads(prompts[p].desk))'
BY DEF Heads, Queued, Before

\* A result never overtakes the head.
LEMMA HeadStays ==
  ASSUME TypeInv, Bounded, NEW p, p \in Heads(prompts[p].desk), NEW d \in Desks, Enqueue(d)
  PROVE  (p \in Heads(prompts[p].desk))'
<1>1. /\ DOMAIN prompts \subseteq DOMAIN prompts'
      /\ \A q \in DOMAIN prompts : prompts'[q] = prompts[q]
      /\ \A q \in DOMAIN prompts' \ DOMAIN prompts : prompts'[q].created = q
  BY ResultAdds DEF Added
<1>2. p \in Queued(prompts[p].desk) /\ p \in DOMAIN prompts /\ prompts[p].created <= p
      /\ prompts[p].created \in Int /\ p \in 1..Len(prompts) /\ Len(prompts) \in Nat
  BY PromptRows DEF Heads, Queued, Bounded, PromptRow
<1>3. prompts' \in Seq(PromptRow) /\ Len(prompts') \in Nat /\ DOMAIN prompts' = 1..Len(prompts')
  BY NextTypes, PromptRows, LenProperties DEF TypeInv, TypeOK, RowsOK, Next, Environment
<1>4. \A q \in DOMAIN prompts' \ DOMAIN prompts : q \in Nat /\ q > p
  BY <1>1, <1>2, <1>3, PromptRows
<1>5. ASSUME NEW q \in Queued(prompts[p].desk)' PROVE p = q \/ Before(p, q)'
  <2>1. CASE q \in DOMAIN prompts
    <3>1. q \in Queued(prompts[p].desk) BY <1>1, <1>2, <1>5, <2>1 DEF Queued
    <3> QED BY <1>1, <1>2, <2>1, <3>1 DEF Heads, Before
  <2>2. CASE q \notin DOMAIN prompts
    <3>1. q \in DOMAIN prompts' BY <1>5 DEF Queued
    <3>2. prompts'[q].created = q /\ q > p /\ q \in Nat BY <1>1, <1>4, <2>2, <3>1
    <3>3. prompts'[p].created < prompts'[q].created BY <1>1, <1>2, <3>2
    <3> QED BY <3>3 DEF Before
  <2> QED BY <2>1, <2>2
<1>6. p \in Queued(prompts[p].desk)' BY <1>1, <1>2 DEF Queued
<1> QED BY <1>5, <1>6 DEF Heads

\* While a prompt is being delivered nobody else writes the table but a producer.
LEMMA Undisturbed ==
  ASSUME Routes = {}, TruthInv, Delivering, [Next]_vars
  PROVE  \/ Delivery
         \/ /\ UNCHANGED <<act, disp, handed>>
            /\ UNCHANGED prompts \/ \E d \in Desks : Enqueue(d)
         \/ ~Delivering' /\ UNCHANGED <<prompts, handed>>
<1>0. /\ act[Dispatcher] = Holding(<<>>) /\ disp.pc \in {"attempt", "call", "resolve"}
      /\ act[Dispatcher].pc = "drain" /\ act[Dispatcher].inbox = <<>> /\ up
  BY DEF TruthInv, Truth, Delivering, Idle, Holding, Inv, OneHandover
<1>1. CASE UNCHANGED vars BY <1>1 DEF vars
<1>2. ASSUME NEW a \in Actors, ActorStep(a) PROVE FALSE
  <2>1. a = Dispatcher BY DEF Actors
  <2> QED BY <1>0, <1>2, <2>1
          DEF ActorStep, Spawn, EndPrevious, StartChild, InsertTerminal, SpawnFails, OpenRefused,
              OpenProcess, Install, Drain
<1>3. CASE Loop
  BY <1>0, <1>3 DEF Loop, Pass, Visit, CheckDeadlines, Expire, Wake, RecvEvent, RecvExit, Select,
                    Looping
<1>4. CASE Environment
  BY <1>4 DEF Environment, Enqueue, SessionExit, ThreadIdle, ChannelCloses, ChildExits,
              ThreadStarted, ChannelConnects, RuntimeRetry, ControlPlaneLost, history
<1>5. CASE Crash \/ Quit BY <1>5, Death DEF Delivering
<1>6. CASE Recover BY <1>0, <1>6 DEF Recover
<1> QED BY <1>1, <1>2, <1>3, <1>4, <1>5, <1>6 DEF Next

LEMMA HandOverTells ==
  ASSUME TruthInv, NEW runtimes, NEW received \in BOOLEAN, NEW outcome,
         HandOver(runtimes, received, outcome),
         \/ outcome = "DELIVERED" /\ received
         \/ outcome \in {"DELIVERY_REFUSED", "CHANNEL_UNAVAILABLE"} /\ ~received
         \/ outcome = "HANDOFF_UNKNOWN"
  PROVE  Truth'
<1>1. disp \in LoopState BY DEF TruthInv, Inv, TypeInv, TypeOK, MemoryOK
<1>2. /\ disp.pc = "call" /\ Delivering /\ UNCHANGED <<prompts, act>>
      /\ disp'.pc = "resolve" /\ disp'.prompt = disp.prompt /\ disp'.outcome = outcome
  BY <1>1 DEF HandOver, Looping, LoopState, Delivering
<1>3. /\ disp.prompt \in Heads(prompts[disp.prompt].desk) /\ Idle(Dispatcher)
      /\ disp.prompt \notin Handed /\ prompts[disp.prompt].state = "QUEUED"
  BY <1>2 DEF TruthInv, Truth, Inv, OneHandover, Heads, Queued
<1>4. Handed' = IF received THEN Handed \cup {disp.prompt} ELSE Handed
  BY HandedGrows DEF TruthInv
<1>5. OutcomeTruthful' BY <1>2, <1>3, <1>4 DEF OutcomeTruthful, TruthInv, Truth
<1>6. (Idle(Dispatcher) /\ disp.prompt \in Heads(prompts[disp.prompt].desk))'
  BY <1>2, <1>3 DEF Idle, Heads, Queued, Before
<1> QED BY <1>2, <1>3, <1>4, <1>5, <1>6 DEF Truth

LEMMA DeliveryTells == ASSUME TruthInv, Delivery PROVE Truth'
<1>0. /\ TypeInv /\ \A p \in DOMAIN prompts : prompts[p] \in PromptRow
      /\ Delivering /\ Idle(Dispatcher) /\ disp.prompt \in Heads(prompts[disp.prompt].desk)
      /\ disp.prompt \in DOMAIN prompts
  BY PromptRows, DeliverySteps DEF TruthInv, Inv, Truth, Delivering, Heads, Queued
<1>1. CASE MarkAttempted \/ Waiting
  <2>1. UNCHANGED <<handed, act>> /\ ~Resolve
    BY <1>1 DEF MarkAttempted, Waiting, Looping, Resolve, history
  <2>2. /\ DOMAIN prompts' = DOMAIN prompts
        /\ \A q \in DOMAIN prompts : /\ prompts'[q].desk = prompts[q].desk
                                     /\ prompts'[q].created = prompts[q].created
                                     /\ prompts'[q].state = prompts[q].state
                                     /\ prompts'[q].failure = prompts[q].failure
    BY <1>0, <2>1, DeliveryRows
  <2>3. OutcomeTruthful' BY <2>1, <2>2 DEF OutcomeTruthful, Handed, TruthInv, Truth
  <2>4. (disp'.pc = "call" /\ disp'.prompt = disp.prompt) \/ disp'.pc = "queue"
    <3>1. disp \in LoopState BY <1>0 DEF TypeInv, TypeOK, MemoryOK
    <3> QED BY <1>1, <3>1 DEF MarkAttempted, Waiting, At, LoopState
  <2>5. PICK p : p = disp.prompt OBVIOUS
  <2>6. (p \in Heads(prompts[p].desk))' BY <1>0, <2>2, <2>5, HeadKept
  <2>7. Idle(Dispatcher)' BY <1>0, <2>1 DEF Idle
  <2> QED BY <2>3, <2>4, <2>5, <2>6, <2>7 DEF Truth, Delivering
<1>2. CASE Settle
  BY <1>2, HandOverTells
     DEF Settle, Delivers, DeliveryRefused, HandoffUnknown, ChannelUnavailable
<1>3. CASE Resolve
  <2>1. disp.pc = "resolve" /\ disp'.pc = "queue" /\ UNCHANGED handed
    BY <1>3 DEF Resolve, Looping, At, history
  <2>2. DOMAIN prompts' = DOMAIN prompts
        /\ \A p \in DOMAIN prompts : p # disp.prompt =>
             prompts'[p].state = prompts[p].state /\ prompts'[p].failure = prompts[p].failure
    BY <1>0, DeliveryRows
  <2>3. IF disp.outcome = "DELIVERED"
          THEN prompts'[disp.prompt].state = "DELIVERED"
          ELSE prompts'[disp.prompt].state = "FAILED" /\ prompts'[disp.prompt].failure = disp.outcome
    BY <1>0, <1>3 DEF Resolve, PromptRow
  <2>4. OutcomeTruthful' BY <2>1, <2>2, <2>3 DEF OutcomeTruthful, Handed, TruthInv, Truth
  <2> QED BY <2>1, <2>4 DEF Truth, Delivering
<1> QED BY <1>1, <1>2, <1>3 DEF Delivery

LEMMA OutsideTells ==
  ASSUME Routes = {}, TruthInv, [Next]_vars, ~Delivery PROVE Truth'
<1>0. TypeInv /\ Bounded /\ \A p \in DOMAIN prompts : prompts[p] \in PromptRow
  BY PromptRows DEF TruthInv, Inv
<1>1. UNCHANGED handed /\ Handed' = Handed BY <1>0, StepOutside DEF Outside, Handed
<1>2. CASE Delivering
  <2>1. CASE /\ UNCHANGED <<act, disp, handed>>
             /\ UNCHANGED prompts \/ \E d \in Desks : Enqueue(d)
    <3>1. PICK p : p = disp.prompt OBVIOUS
    <3>2. p \in Heads(prompts[p].desk) /\ Idle(Dispatcher) BY <1>2, <3>1 DEF TruthInv, Truth
    <3>3. (p \in Heads(prompts[p].desk))'
      <4>1. CASE UNCHANGED prompts BY <3>2, <4>1, HeadKept
      <4>2. CASE \E d \in Desks : Enqueue(d) BY <1>0, <3>2, <4>2, HeadStays
      <4> QED BY <2>1, <4>1, <4>2
    <3>4. OutcomeTruthful'
      <4>1. Added BY <1>0, <2>1, ResultAdds DEF Added
      <4> QED BY <1>1, <4>1 DEF Added, OutcomeTruthful, TruthInv, Truth
    <3> QED BY <1>1, <2>1, <3>1, <3>2, <3>3, <3>4 DEF Truth, TruthInv, Idle, Delivering
  <2>2. CASE ~Delivering' /\ UNCHANGED <<prompts, handed>>
    BY <1>1, <2>2 DEF Truth, TruthInv, OutcomeTruthful, Delivering
  <2> QED BY <1>2, <2>1, <2>2, Undisturbed
<1>3. CASE ~Delivering
  <2>1. Outside BY <1>0, StepOutside
  <2>2. OutcomeTruthful'
    <3>1. CASE Added BY <1>1, <3>1 DEF Added, OutcomeTruthful, TruthInv, Truth
    <3>2. CASE up /\ Failing(Codes)
      <4>1. \A p \in DOMAIN prompts : prompts[p].state = "QUEUED" => p \notin Handed
        BY <1>3, <3>2 DEF TruthInv, Inv, OneHandover, Delivering
      <4> QED BY <1>1, <3>2, <4>1 DEF Failing, OutcomeTruthful, TruthInv, Truth
    <3>3. CASE Failing({"HANDOFF_UNKNOWN"})
      BY <1>1, <3>3 DEF Failing, OutcomeTruthful, TruthInv, Truth
    <3> QED BY <2>1, <3>1, <3>2, <3>3 DEF Outside
  <2>3. CASE ~Delivering' BY <2>2, <2>3 DEF Truth, Delivering
  <2>4. CASE Picks
    <3>1. /\ disp'.pc = "attempt" /\ UNCHANGED <<prompts, act>> /\ Idle(Dispatcher)
          /\ \E d \in Desks : disp'.prompt \in Heads(d)
      BY <2>4 DEF Picks
    <3>2. disp'.prompt \in Heads(prompts[disp'.prompt].desk) BY <3>1 DEF Heads, Queued
    <3>3. (disp.prompt \in Heads(prompts[disp.prompt].desk))'
      BY <3>1, <3>2 DEF Heads, Queued, Before
    <3> QED BY <2>2, <3>1, <3>3 DEF Truth, Idle
  <2>5. CASE disp' = disp BY <1>3, <2>3, <2>5 DEF Delivering
  <2> QED BY <2>1, <2>3, <2>4, <2>5 DEF Outside
<1> QED BY <1>2, <1>3

LEMMA TruthInit == ASSUME Init PROVE TruthInv
<1>1. Handed = {} /\ AtMostOnce /\ up /\ disp.pc = "pass" /\ prompts = <<>>
  BY DEF Init, Handed, AtMostOnce, At
<1>2. TypeInv /\ OneHandover BY <1>1, InitTypes DEF OneHandover
<1>3. Bounded /\ Truth BY <1>1 DEF Bounded, Truth, OutcomeTruthful, Delivering
<1> QED BY <1>2, <1>3 DEF TruthInv, Inv

LEMMA TruthNext == ASSUME Routes = {}, TruthInv, [Next]_vars PROVE TruthInv'
<1>1. TypeInv' /\ OneHandover' /\ Bounded'
  BY NextTypes, NextOnce, BoundedKept DEF TruthInv, Inv
<1>2. Truth' BY DeliveryTells, OutsideTells
<1> QED BY <1>1, <1>2 DEF TruthInv, Inv

\* Where the dispatcher alone starts sessions, DELIVERED means received and FAILED, with any
\* code but HANDOFF_UNKNOWN, means not received, also across deaths at any point.
THEOREM Truthful == ASSUME Routes = {} PROVE Spec => []OutcomeTruthful
<1>1. Init => TruthInv BY TruthInit
<1>2. TruthInv /\ [Next]_vars => TruthInv' BY TruthNext
<1>3. TruthInv => OutcomeTruthful BY DEF TruthInv, Truth
<1> QED BY <1>1, <1>2, <1>3, PTL DEF Spec

-----------------------------------------------------------------------------
(* The abstract promise, where no route activates a desk beside the dispatcher *)

LEMMA SeenRows ==
  ASSUME NEW rows \in Seq(PromptRow), NEW seen,
         seen = [p \in DOMAIN rows |-> [desk |-> rows[p].desk, created |-> rows[p].created,
                                       state |-> rows[p].state, failure |-> rows[p].failure]]
  PROVE  /\ seen \in Seq({seen[p] : p \in DOMAIN rows})
         /\ DOMAIN seen = DOMAIN rows /\ Len(seen) = Len(rows)
<1> DEFINE T == {seen[p] : p \in DOMAIN rows}
<1>1. seen \in [DOMAIN rows -> T] OBVIOUS
<1> HIDE DEF T
<1>2. seen \in Seq(T) /\ DOMAIN seen = DOMAIN rows /\ Len(seen) = Len(rows) BY <1>1, Rows
<1> QED BY <1>2 DEF T

LEMMA Seen ==
  ASSUME TypeInv
  PROVE  /\ RowsSeen \in Seq({RowsSeen[p] : p \in DOMAIN prompts})
         /\ DOMAIN RowsSeen = DOMAIN prompts /\ Len(RowsSeen) = Len(prompts)
BY SeenRows DEF RowsSeen, TypeInv, TypeOK, RowsOK

LEMMA AddedSeen ==
  ASSUME TypeInv, TypeInv', Added, UNCHANGED handed
  PROVE  Promise!Add \/ UNCHANGED <<RowsSeen, Handed>>
<1>1. Handed' = Handed BY DEF Handed
<1>2. /\ Len(prompts) \in Nat /\ DOMAIN prompts = 1..Len(prompts) /\ Len(RowsSeen) = Len(prompts)
      /\ DOMAIN RowsSeen = DOMAIN prompts
  BY PromptRows, Seen
<1>3. /\ Len(prompts') \in Nat /\ DOMAIN prompts' = 1..Len(prompts') /\ Len(RowsSeen') = Len(prompts')
      /\ DOMAIN RowsSeen' = DOMAIN prompts' /\ \A p \in DOMAIN prompts' : prompts'[p] \in PromptRow
      /\ RowsSeen' \in Seq({RowsSeen'[p] : p \in DOMAIN prompts'})
  <2>1. prompts' \in Seq(PromptRow) BY DEF TypeInv, TypeOK, RowsOK
  <2>2. /\ Len(prompts') \in Nat /\ DOMAIN prompts' = 1..Len(prompts')
        /\ \A p \in DOMAIN prompts' : prompts'[p] \in PromptRow
    BY <2>1, LenProperties, ElementOfSeq
  <2>3. /\ RowsSeen' \in Seq({RowsSeen'[p] : p \in DOMAIN prompts'})
        /\ DOMAIN RowsSeen' = DOMAIN prompts' /\ Len(RowsSeen') = Len(prompts')
    BY <2>1, SeenRows DEF RowsSeen
  <2> QED BY <2>2, <2>3
<1>4. Len(prompts') >= Len(prompts) BY <1>2, <1>3 DEF Added
<1>5. \A p \in DOMAIN prompts : RowsSeen'[p] = RowsSeen[p] BY DEF Added, RowsSeen
<1>6. CASE Len(prompts') = Len(prompts)
  <2>1. RowsSeen' = RowsSeen BY <1>2, <1>3, <1>6 DEF Added, RowsSeen
  <2> QED BY <1>1, <2>1
<1>7. CASE Len(prompts') > Len(prompts)
  <2>1. SubSeq(RowsSeen', 1, Len(RowsSeen)) = RowsSeen
    <3> DEFINE T == {RowsSeen[p] : p \in DOMAIN prompts} \cup {RowsSeen'[p] : p \in DOMAIN prompts'}
    <3>1. RowsSeen \in Seq(T) /\ RowsSeen' \in Seq(T) BY <1>3, Seen, SeqMonotonic
    <3> HIDE DEF T
    <3>2. /\ SubSeq(RowsSeen', 1, Len(RowsSeen)) \in Seq(T)
          /\ Len(SubSeq(RowsSeen', 1, Len(RowsSeen))) = Len(RowsSeen)
          /\ \A i \in 1..Len(RowsSeen) :
               SubSeq(RowsSeen', 1, Len(RowsSeen))[i] = RowsSeen'[i]
      BY <1>2, <1>3, <1>7, <3>1
    <3> QED BY <1>2, <1>5, <3>1, <3>2, SeqEqual
  <2>2. \A p \in Len(RowsSeen) + 1 .. Len(RowsSeen') : RowsSeen'[p] \in Promise!Fresh
    <3> SUFFICES ASSUME NEW p \in Len(RowsSeen) + 1 .. Len(RowsSeen')
                 PROVE  RowsSeen'[p] \in Promise!Fresh
      OBVIOUS
    <3>1. p \in DOMAIN prompts' \ DOMAIN prompts BY <1>2, <1>3
    <3>2. RowsSeen'[p] = [desk |-> prompts'[p].desk, created |-> prompts'[p].created,
                          state |-> prompts'[p].state, failure |-> prompts'[p].failure]
      BY <3>1 DEF RowsSeen
    <3>3. prompts'[p].desk \in Desks /\ prompts'[p].created \in Int BY <1>3, <3>1 DEF PromptRow
    <3> QED BY <3>1, <3>2, <3>3 DEF Added, Promise!Fresh
  <2> QED BY <1>1, <1>2, <1>3, <1>7, <2>1, <2>2 DEF Promise!Add
<1>8. Len(prompts) \in Nat /\ Len(prompts') \in Nat BY <1>2, <1>3
<1>9. Len(prompts') = Len(prompts) \/ Len(prompts') > Len(prompts) BY <1>4, <1>8
<1> QED BY <1>6, <1>7, <1>9

\* Waiting rows that change are settled with an outcome that agrees with the handover.
LEMMA SettledSeen ==
  ASSUME TypeInv, TypeInv', DOMAIN prompts' = DOMAIN prompts, UNCHANGED handed,
         \A p \in DOMAIN prompts :
           \/ /\ prompts'[p].desk = prompts[p].desk /\ prompts'[p].created = prompts[p].created
              /\ prompts'[p].state = prompts[p].state /\ prompts'[p].failure = prompts[p].failure
           \/ /\ prompts[p].state = "QUEUED"
              /\ prompts'[p].desk = prompts[p].desk /\ prompts'[p].created = prompts[p].created
              /\ Promise!Outcome(prompts'[p].state, prompts'[p].failure, p \in Handed)
  PROVE  Promise!Settle
<1>1. Handed' = Handed BY DEF Handed
<1>2. DOMAIN RowsSeen = DOMAIN prompts /\ DOMAIN RowsSeen' = DOMAIN prompts' BY DEF RowsSeen
<1>3. \A p \in DOMAIN prompts :
        /\ RowsSeen[p] = [desk |-> prompts[p].desk, created |-> prompts[p].created,
                          state |-> prompts[p].state, failure |-> prompts[p].failure]
        /\ RowsSeen'[p] = [desk |-> prompts'[p].desk, created |-> prompts'[p].created,
                           state |-> prompts'[p].state, failure |-> prompts'[p].failure]
  BY DEF RowsSeen
<1>4. ASSUME NEW p \in DOMAIN RowsSeen
      PROVE  \/ RowsSeen'[p] = RowsSeen[p]
             \/ /\ Promise!Waiting(p)
                /\ RowsSeen'[p].desk = RowsSeen[p].desk
                /\ RowsSeen'[p].created = RowsSeen[p].created
                /\ Promise!Outcome(RowsSeen'[p].state, RowsSeen'[p].failure, p \in Handed)
  <2>1. CASE /\ prompts'[p].desk = prompts[p].desk /\ prompts'[p].created = prompts[p].created
             /\ prompts'[p].state = prompts[p].state /\ prompts'[p].failure = prompts[p].failure
    BY <1>2, <1>3, <2>1
  <2>2. CASE /\ prompts[p].state = "QUEUED"
             /\ prompts'[p].desk = prompts[p].desk /\ prompts'[p].created = prompts[p].created
             /\ Promise!Outcome(prompts'[p].state, prompts'[p].failure, p \in Handed)
    <3>1. RowsSeen'[p].state = prompts'[p].state /\ RowsSeen'[p].failure = prompts'[p].failure
          /\ RowsSeen'[p].desk = RowsSeen[p].desk /\ RowsSeen'[p].created = RowsSeen[p].created
          /\ RowsSeen[p].state = "QUEUED"
      BY <1>2, <1>3, <2>2
    <3> QED BY <1>2, <2>2, <3>1 DEF Promise!Waiting
  <2> QED BY <1>2, <2>1, <2>2
<1> QED BY <1>1, <1>2, <1>4 DEF Promise!Settle

LEMMA FailingSeen ==
  ASSUME TypeInv, TypeInv', NEW codes, Failing(codes), UNCHANGED handed,
         \/ codes = {"HANDOFF_UNKNOWN"}
         \/ codes = Codes /\ \A p \in DOMAIN prompts : prompts[p].state = "QUEUED" => p \notin Handed
  PROVE  Promise!Settle
BY SettledSeen DEF Failing, Codes, Promise!Outcome, Promise!NotGiven

LEMMA HandOverSeen ==
  ASSUME TruthInv, NEW runtimes, NEW received \in BOOLEAN, NEW outcome,
         HandOver(runtimes, received, outcome)
  PROVE  Promise!Give \/ UNCHANGED <<RowsSeen, Handed>>
<1>1. /\ disp.pc = "call" /\ UNCHANGED prompts /\ RowsSeen' = RowsSeen
  BY DEF HandOver, Looping, RowsSeen
<1>2. Handed' = IF received THEN Handed \cup {disp.prompt} ELSE Handed
  BY HandedGrows DEF TruthInv
<1>3. CASE ~received BY <1>1, <1>2, <1>3
<1>4. CASE received
  <2>1. PICK p : p = disp.prompt OBVIOUS
  <2>2. p \in Heads(prompts[p].desk) /\ p \notin Handed /\ TypeInv
    BY <1>1, <2>1 DEF TruthInv, Truth, Delivering, Inv, OneHandover
  <2>3. p \in DOMAIN prompts /\ prompts[p].state = "QUEUED" BY <2>2 DEF Heads, Queued
  <2>4. /\ DOMAIN RowsSeen = DOMAIN prompts
        /\ \A q \in DOMAIN prompts : /\ RowsSeen[q].desk = prompts[q].desk
                                     /\ RowsSeen[q].created = prompts[q].created
                                     /\ RowsSeen[q].state = prompts[q].state
                                     /\ prompts[q].created \in Int
    BY <2>2, PromptRows DEF PromptRow, RowsSeen
  <2>5. Promise!Waiting(p) BY <2>3, <2>4 DEF Promise!Waiting
  <2>6. ASSUME NEW q \in DOMAIN RowsSeen, Promise!Waiting(q), RowsSeen[q].desk = RowsSeen[p].desk
        PROVE  ~Promise!Older(q, p)
    <3>1. q \in Queued(prompts[p].desk) BY <2>3, <2>4, <2>6 DEF Promise!Waiting, Queued
    <3>2. p = q \/ Before(p, q) BY <2>2, <3>1 DEF Heads
    <3>3. p \in Nat /\ q \in Nat BY <2>2, <2>3, <2>4, PromptRows
    <3> QED BY <2>3, <2>4, <2>6, <3>2, <3>3 DEF Before, Promise!Older
  <2>7. Handed' = Handed \cup {p} BY <1>2, <1>4, <2>1
  <2> QED BY <1>1, <2>2, <2>3, <2>4, <2>5, <2>6, <2>7 DEF Promise!Give
<1> QED BY <1>3, <1>4

LEMMA DeliverySeen ==
  ASSUME TruthInv, TypeInv', Delivery
  PROVE  Promise!Give \/ Promise!Settle \/ UNCHANGED <<RowsSeen, Handed>>
<1>0. TypeInv /\ \A p \in DOMAIN prompts : prompts[p] \in PromptRow
  BY PromptRows DEF TruthInv, Inv
<1>1. CASE MarkAttempted \/ Waiting
  <2>1. UNCHANGED handed /\ ~Resolve BY <1>1 DEF MarkAttempted, Waiting, Looping, Resolve, history
  <2>2. /\ DOMAIN prompts' = DOMAIN prompts
        /\ \A p \in DOMAIN prompts : /\ prompts'[p].desk = prompts[p].desk
                                     /\ prompts'[p].created = prompts[p].created
                                     /\ prompts'[p].state = prompts[p].state
                                     /\ prompts'[p].failure = prompts[p].failure
    BY <1>0, <2>1, DeliveryRows
  <2> QED BY <1>0, <2>1, <2>2, SettledSeen
<1>2. CASE Settle
  BY <1>2, HandOverSeen DEF Settle, Delivers, DeliveryRefused, HandoffUnknown, ChannelUnavailable
<1>3. CASE Resolve
  <2>1. disp.pc = "resolve" /\ UNCHANGED handed BY <1>3 DEF Resolve, Looping, history
  <2>2. /\ DOMAIN prompts' = DOMAIN prompts
        /\ \A p \in DOMAIN prompts :
             /\ prompts'[p].desk = prompts[p].desk /\ prompts'[p].created = prompts[p].created
             /\ p # disp.prompt => /\ prompts'[p].state = prompts[p].state
                                   /\ prompts'[p].failure = prompts[p].failure
    BY <1>0, DeliveryRows
  <2>3. disp.prompt \in DOMAIN prompts /\ prompts[disp.prompt].state = "QUEUED"
    BY <2>1 DEF TruthInv, Truth, Delivering, Heads, Queued
  <2>4. IF disp.outcome = "DELIVERED"
          THEN /\ prompts'[disp.prompt].state = "DELIVERED"
               /\ prompts'[disp.prompt].failure = "none"
          ELSE /\ prompts'[disp.prompt].state = "FAILED"
               /\ prompts'[disp.prompt].failure = disp.outcome
    BY <1>0, <1>3, <2>3 DEF Resolve, PromptRow
  <2>5. \/ disp.outcome = "DELIVERED" /\ disp.prompt \in Handed
        \/ disp.outcome \in {"DELIVERY_REFUSED", "CHANNEL_UNAVAILABLE"} /\ disp.prompt \notin Handed
        \/ disp.outcome = "HANDOFF_UNKNOWN"
    BY <2>1 DEF TruthInv, Truth
  <2>6. Promise!Outcome(prompts'[disp.prompt].state, prompts'[disp.prompt].failure,
                        disp.prompt \in Handed)
    BY <2>4, <2>5 DEF Promise!Outcome, Promise!NotGiven
  <2>7. \A p \in DOMAIN prompts :
           \/ /\ prompts'[p].desk = prompts[p].desk /\ prompts'[p].created = prompts[p].created
              /\ prompts'[p].state = prompts[p].state /\ prompts'[p].failure = prompts[p].failure
           \/ /\ prompts[p].state = "QUEUED"
              /\ prompts'[p].desk = prompts[p].desk /\ prompts'[p].created = prompts[p].created
              /\ Promise!Outcome(prompts'[p].state, prompts'[p].failure, p \in Handed)
    BY <2>2, <2>3, <2>6
  <2> QED BY <1>0, <2>1, <2>2, <2>7, SettledSeen
<1> QED BY <1>1, <1>2, <1>3 DEF Delivery

LEMMA StepSeen ==
  ASSUME Routes = {}, TruthInv, TruthInv', [Next]_vars
  PROVE  Promise!Next \/ UNCHANGED <<RowsSeen, Handed>>
<1>0. TypeInv /\ TypeInv' /\ Bounded BY DEF TruthInv, Inv
<1>1. CASE Delivery BY <1>0, <1>1, DeliverySeen DEF Promise!Next
<1>2. CASE ~Delivery /\ Delivering
  <2>1. Added /\ UNCHANGED handed BY <1>0, <1>2, Undisturbed, ResultAdds DEF Added
  <2> QED BY <1>0, <2>1, AddedSeen DEF Promise!Next
<1>3. CASE ~Delivery /\ ~Delivering
  <2>1. Outside BY <1>0, <1>3, StepOutside
  <2>2. up => \A p \in DOMAIN prompts : prompts[p].state = "QUEUED" => p \notin Handed
    BY <1>3 DEF TruthInv, Inv, OneHandover, Delivering
  <2>3. Added \/ Promise!Settle
    BY <1>0, <2>1, <2>2, FailingSeen DEF Outside
  <2> QED BY <1>0, <2>1, <2>3, AddedSeen DEF Promise!Next, Outside
<1> QED BY <1>1, <1>2, <1>3

\* Where the dispatcher alone starts sessions the daemon keeps PromptDelivery's promise: the
\* oldest prompt of a desk goes first, once, and is settled once with an outcome that
\* agrees with the handover.
THEOREM PromiseKept == ASSUME Routes = {} PROVE Spec => DeliveryPromise
<1>1. Init => TruthInv /\ Promise!Init
  <2>1. ASSUME Init PROVE Promise!Init
    <3>1. prompts = <<>> /\ handed = <<>> BY <2>1 DEF Init
    <3>2. RowsSeen = <<>> BY <3>1 DEF RowsSeen
    <3>3. Handed = {} BY <3>1 DEF Handed
    <3> QED BY <3>2, <3>3 DEF Promise!Init
  <2> QED BY <2>1, TruthInit
<1>2. TruthInv /\ [Next]_vars => TruthInv' BY TruthNext
<1>3. TruthInv /\ TruthInv' /\ [Next]_vars => [Promise!Next]_(Promise!vars)
  BY StepSeen DEF Promise!vars
<1> QED BY <1>1, <1>2, <1>3, PTL DEF Spec, DeliveryPromise, Promise!Spec

-----------------------------------------------------------------------------
(* No orphan row, where no route starts a session beside the dispatcher *)

\* The exit of a desk's child waits to be received.
Waits(es, d, p) == \E i \in DOMAIN es : es[i].proc = p /\ es[i].desk = d

\* A child that is being started, or whose row is open, and that is gone has its exit
\* waiting; a desk has one open row, the one its live entry names or is about to name.
Orphans ==
  /\ up => \A p \in DOMAIN procs :
        ~procs[p].alive /\ (procs[p].row = "OPEN" \/ act[Dispatcher].proc = p)
          => Waits(exits, procs[p].desk, p)
  /\ \A p, q \in DOMAIN procs :
        procs[p].row = "OPEN" /\ procs[q].row = "OPEN" /\ procs[p].desk = procs[q].desk => p = q
  /\ \A p \in DOMAIN procs : procs[p].row = "OPEN" =>
        \/ live[procs[p].desk] = NoLive
        \/ live[procs[p].desk].proc = p
        \/ act[Dispatcher].pc = "install" /\ act[Dispatcher].proc = p
  /\ \A d \in Desks : term[d] # NoProc => term[d] \in DOMAIN procs /\ procs[term[d]].desk = d

\* Where the dispatcher is in an activation, and the child it is starting.
Starting ==
  /\ act[Dispatcher].pc \in {"drain", "spawn", "start", "insert", "open", "install"}
  /\ act[Dispatcher].pc \in {"drain", "spawn", "start"} => act[Dispatcher].proc = NoProc
  /\ act[Dispatcher].pc \in {"insert", "open", "install"} =>
       /\ act[Dispatcher].proc \in DOMAIN procs
       /\ procs[act[Dispatcher].proc].desk = act[Dispatcher].desk
  /\ act[Dispatcher].pc = "install" => procs[act[Dispatcher].proc].row = "OPEN"
  /\ ~up => act[Dispatcher].pc = "drain"

OrphanInv == TypeInv /\ Orphans /\ Starting

\* Rows are closed or filled in, exits that count are kept: the dispatcher between or at
\* the end of its calls.
Settles ==
  /\ up /\ up' /\ UNCHANGED term
  /\ act[Dispatcher].pc = "drain"
  /\ act'[Dispatcher].pc \in {"drain", "spawn"} /\ act'[Dispatcher].proc = NoProc
  /\ DOMAIN procs' = DOMAIN procs
  /\ \A p \in DOMAIN procs :
       /\ procs'[p].desk = procs[p].desk /\ procs'[p].alive = procs[p].alive
       /\ procs'[p].row = "OPEN" =>
            /\ procs[p].row = "OPEN"
            /\ Waits(exits, procs[p].desk, p) => Waits(exits', procs[p].desk, p)
  /\ \A d \in Desks :
       live'[d] = NoLive \/ (live[d] # NoLive /\ live'[d].proc = live[d].proc)

LEMMA SettlesKeeps == ASSUME OrphanInv, Settles PROVE Orphans' /\ Starting'
<1>0. \A p \in DOMAIN procs : p # NoProc /\ procs[p].desk \in Desks
  BY Children DEF OrphanInv, Child, NoProc
<1>1. Starting' BY DEF Settles, Starting
<1>2. Orphans'
  <2>1. (\A p \in DOMAIN procs :
          ~procs[p].alive /\ (procs[p].row = "OPEN" \/ act[Dispatcher].proc = p)
             => Waits(exits, procs[p].desk, p))'
    BY <1>0 DEF OrphanInv, Orphans, Settles
  <2>2. (\A p, q \in DOMAIN procs :
          procs[p].row = "OPEN" /\ procs[q].row = "OPEN" /\ procs[p].desk = procs[q].desk => p = q)'
    BY DEF OrphanInv, Orphans, Settles
  <2>3. (\A p \in DOMAIN procs : procs[p].row = "OPEN" =>
          \/ live[procs[p].desk] = NoLive
          \/ live[procs[p].desk].proc = p
          \/ act[Dispatcher].pc = "install" /\ act[Dispatcher].proc = p)'
    BY <1>0 DEF OrphanInv, Orphans, Settles
  <2>4. (\A d \in Desks : term[d] # NoProc => term[d] \in DOMAIN procs /\ procs[term[d]].desk = d)'
    BY DEF OrphanInv, Orphans, Settles
  <2> QED BY <2>1, <2>2, <2>3, <2>4 DEF Orphans
<1> QED BY <1>1, <1>2

\* Children die, each with its exit sent; rows, live entries and calls stay, but for the
\* call that ended one to start another.
Dying ==
  /\ up /\ UNCHANGED <<up, live>>
  /\ \/ UNCHANGED act
     \/ act[Dispatcher].pc = "spawn" /\ act'[Dispatcher].pc = "start"
        /\ act'[Dispatcher].proc = act[Dispatcher].proc
  /\ DOMAIN procs' = DOMAIN procs
  /\ \A p \in DOMAIN procs :
       /\ procs'[p].desk = procs[p].desk /\ procs'[p].row = procs[p].row
       /\ ~procs'[p].alive => ~procs[p].alive \/ Waits(exits', procs[p].desk, p)
       /\ Waits(exits, procs[p].desk, p) => Waits(exits', procs[p].desk, p)
  /\ \A d \in Desks : term'[d] = term[d] \/ term'[d] = NoProc

LEMMA DyingKeeps == ASSUME OrphanInv, Dying PROVE Orphans' /\ Starting'
<1>1. Starting' BY DEF OrphanInv, Dying, Starting
<1>2. (up => \A p \in DOMAIN procs :
          ~procs[p].alive /\ (procs[p].row = "OPEN" \/ act[Dispatcher].proc = p)
            => Waits(exits, procs[p].desk, p))'
  BY DEF OrphanInv, Orphans, Dying
<1>3. (\A p, q \in DOMAIN procs :
        procs[p].row = "OPEN" /\ procs[q].row = "OPEN" /\ procs[p].desk = procs[q].desk => p = q)'
  BY DEF OrphanInv, Orphans, Dying
<1>4. (\A p \in DOMAIN procs : procs[p].row = "OPEN" =>
        \/ live[procs[p].desk] = NoLive
        \/ live[procs[p].desk].proc = p
        \/ act[Dispatcher].pc = "install" /\ act[Dispatcher].proc = p)'
  BY DEF OrphanInv, Orphans, Dying
<1>5. (\A d \in Desks : term[d] # NoProc => term[d] \in DOMAIN procs /\ procs[term[d]].desk = d)'
  BY DEF OrphanInv, Orphans, Dying
<1> QED BY <1>1, <1>2, <1>3, <1>4, <1>5 DEF Orphans

\* Exits join the stream behind those that wait.
LEMMA Sent ==
  ASSUME exits \in Seq(TerminalExit), NEW more \in Seq(TerminalExit), exits' = exits \o more
  PROVE  /\ \A d, p : Waits(exits, d, p) => Waits(exits', d, p)
         /\ \A d, p : Waits(more, d, p) => Waits(exits', d, p)
<1>1. /\ Len(exits) \in Nat /\ DOMAIN exits = 1..Len(exits)
      /\ Len(more) \in Nat /\ DOMAIN more = 1..Len(more)
  BY LenProperties
<1>2. /\ exits' \in Seq(TerminalExit) /\ Len(exits') = Len(exits) + Len(more)
      /\ \A i \in 1..Len(exits) + Len(more) :
           exits'[i] = IF i <= Len(exits) THEN exits[i] ELSE more[i - Len(exits)]
  BY ConcatProperties
<1>3. DOMAIN exits' = 1..Len(exits) + Len(more) BY <1>2, LenProperties
<1>4. \A i \in DOMAIN exits : i \in DOMAIN exits' /\ exits'[i] = exits[i] BY <1>1, <1>2, <1>3
<1>5. ASSUME NEW i \in DOMAIN more PROVE \E j \in DOMAIN exits' : exits'[j] = more[i]
  <2>1. Len(exits) + i \in DOMAIN exits' /\ exits'[Len(exits) + i] = more[i]
    BY <1>1, <1>2, <1>3
  <2> QED BY <2>1
<1> QED BY <1>4, <1>5 DEF Waits

LEMMA ShutdownSends ==
  ASSUME OrphanInv, NEW d \in Desks, exits' = exits \o ShutdownExits(d)
  PROVE  /\ \A e, p : Waits(exits, e, p) => Waits(exits', e, p)
         /\ term[d] # NoProc /\ procs[term[d]].alive => Waits(exits', d, term[d])
<1>1. ShutdownExits(d) \in Seq(TerminalExit) /\ exits \in Seq(TerminalExit)
  BY ShutdownExitsType DEF OrphanInv, TypeInv, TypeOK, AdaptersOK
<1>2. term[d] # NoProc /\ procs[term[d]].alive => Waits(ShutdownExits(d), d, term[d])
  <2>1. PICK e : e = [desk |-> d, proc |-> term[d]] OBVIOUS
  <2>2. ASSUME term[d] # NoProc /\ procs[term[d]].alive PROVE ShutdownExits(d) = <<e>>
    BY <2>1, <2>2 DEF ShutdownExits
  <2>3. 1 \in DOMAIN <<e>> /\ <<e>>[1] = e OBVIOUS
  <2> QED BY <2>1, <2>2, <2>3 DEF Waits
<1> QED BY <1>1, <1>2, Sent

LEMMA ExitDying ==
  ASSUME OrphanInv, NEW d \in Desks, Exit(d), up, UNCHANGED <<up, live, act>>
  PROVE  Dying
<1>1. /\ procs' = Shutdown(d) /\ term' = [term EXCEPT ![d] = NoProc]
      /\ exits' = exits \o ShutdownExits(d)
  BY DEF Exit
<1>2. \A q \in DOMAIN procs :
        /\ Shutdown(d)[q].desk = procs[q].desk /\ Shutdown(d)[q].row = procs[q].row
        /\ ~Shutdown(d)[q].alive => ~procs[q].alive \/ q = term[d]
  BY Children DEF Shutdown, Child, OrphanInv
<1>3. DOMAIN procs' = DOMAIN procs BY <1>1, Children, ShutdownType DEF OrphanInv
<1>4. \A q \in DOMAIN procs : q = term[d] => q # NoProc /\ procs[q].desk = d
  BY Children DEF OrphanInv, Orphans, NoProc
<1>5. \A d0 \in Desks : term'[d0] = term[d0] \/ term'[d0] = NoProc
  BY <1>1, Children DEF OrphanInv
<1> QED BY <1>1, <1>2, <1>3, <1>4, <1>5, ShutdownSends DEF Dying

LEMMA OrdersOnto ==
  ASSUME NEW S, IsFiniteSet(S), NEW order \in Orders(S)
  PROVE  /\ order \in [1..Cardinality(S) -> S] /\ Cardinality(S) \in Nat
         /\ \A s \in S : \E i \in DOMAIN order : order[i] = s
<1>1. Cardinality(S) \in Nat BY FS_CardinalityType
<1>2. order \in Injection(1..Cardinality(S), S) BY DEF Orders, Injection, IsInjective
<1>3. Cardinality(1..Cardinality(S)) = Cardinality(S) BY <1>1, FS_Interval
<1>4. order \in Surjection(1..Cardinality(S), S) BY <1>2, <1>3, FS_Injection
<1> QED BY <1>1, <1>4 DEF Surjection, Orders

LEMMA LossDying == ASSUME OrphanInv, ControlPlaneLost PROVE Dying
<1> DEFINE desks == {d \in Desks : codex[d].live # NoProc}
           killed == {d \in desks : term[d] = codex[d].live}
           ended == {d \in killed : procs[term[d]].alive}
<1>1. /\ procs' = [p \in DOMAIN procs |->
           [procs[p] EXCEPT !.alive = @ /\ \A d \in killed : p # term[d],
                            !.reported = @ \/ procs[p].runtime = "codex"]]
      /\ term' = [d \in Desks |-> IF d \in killed THEN NoProc ELSE term[d]]
      /\ up /\ UNCHANGED <<up, live, act>>
  BY DEF ControlPlaneLost
<1>2. PICK order \in Orders(ended) : exits' = exits \o [i \in DOMAIN order |->
            [desk |-> order[i], proc |-> term[order[i]]]]
  BY DEF ControlPlaneLost
<1>3. killed \subseteq Desks /\ ended \subseteq killed /\ IsFiniteSet(ended)
      /\ \A d \in killed : term[d] # NoProc
  <2>1. ended \subseteq Desks OBVIOUS
  <2> QED BY <2>1, DispatchAssumption, FS_Subset
<1>4. \A d \in killed : procs[term[d]].alive => d \in ended OBVIOUS
<1> HIDE DEF killed, ended
<1>5. /\ order \in [1..Cardinality(ended) -> ended] /\ Cardinality(ended) \in Nat
      /\ \A s \in ended : \E i \in DOMAIN order : order[i] = s
  BY <1>3, OrdersOnto
<1>6. PICK more : more = [i \in DOMAIN order |->
            [desk |-> order[i], proc |-> term[order[i]]]]
  OBVIOUS
<1>7. more \in Seq(TerminalExit) /\ DOMAIN more = DOMAIN order
  <2>1. \A i \in DOMAIN order :
          [desk |-> order[i], proc |-> term[order[i]]] \in TerminalExit
    BY <1>3, <1>5, Children DEF TerminalExit, OrphanInv
  <2>2. more \in [1..Cardinality(ended) -> TerminalExit] BY <1>5, <1>6, <2>1
  <2>3. DOMAIN more = DOMAIN order BY <1>6
  <2>4. more \in Seq(TerminalExit) BY <1>5, <2>2, SeqDef
  <2> QED BY <2>3, <2>4
<1>8. \A d \in ended : Waits(more, d, term[d])
  <2>1. ASSUME NEW d \in ended PROVE Waits(more, d, term[d])
    <3>1. PICK i \in DOMAIN order : order[i] = d BY <1>5, <2>1
    <3>2. more[i].proc = term[d] /\ more[i].desk = d BY <1>6, <3>1
    <3> QED BY <1>7, <3>2 DEF Waits
  <2> QED BY <2>1
<1>9. /\ \A d, p : Waits(exits, d, p) => Waits(exits', d, p)
      /\ \A d \in ended : Waits(exits', d, term[d])
  BY <1>2, <1>6, <1>7, <1>8, Sent DEF OrphanInv, TypeInv, TypeOK, AdaptersOK
<1>10. ASSUME NEW p \in DOMAIN procs
       PROVE  /\ procs'[p].desk = procs[p].desk /\ procs'[p].row = procs[p].row
              /\ ~procs'[p].alive => ~procs[p].alive \/ \E d \in killed : p = term[d]
  BY <1>1, <1>10, Children DEF Child, OrphanInv
<1>11. ASSUME NEW p \in DOMAIN procs, ~procs'[p].alive, procs[p].alive
       PROVE  Waits(exits', procs[p].desk, p)
  <2>1. PICK d \in killed : p = term[d] BY <1>10, <1>11
  <2>2. d \in ended /\ procs[p].desk = d BY <1>3, <1>4, <1>11, <2>1 DEF OrphanInv, Orphans
  <2> QED BY <1>9, <2>1, <2>2
<1>12. \A d \in Desks : term'[d] = term[d] \/ term'[d] = NoProc BY <1>1
<1>13. DOMAIN procs' = DOMAIN procs BY <1>1
<1> QED BY <1>1, <1>9, <1>10, <1>11, <1>12, <1>13 DEF Dying

LEMMA EnvironmentOrphans == ASSUME OrphanInv, Environment PROVE Orphans' /\ Starting'
<1>1. ASSUME up, UNCHANGED <<up, live, act, procs, exits, term>> PROVE Dying
  BY <1>1 DEF Dying
<1>2. ASSUME NEW d \in Desks, SessionExit(d) PROVE Dying BY <1>2, ExitDying DEF SessionExit
<1>3. ASSUME NEW p \in DOMAIN procs, ChildExits(p) PROVE Dying
  <2>1. PICK e : e = [desk |-> procs[p].desk, proc |-> p] OBVIOUS
  <2>2. up /\ UNCHANGED <<up, live, act, term>> /\ exits' = Append(exits, e)
        /\ procs' = [procs EXCEPT ![p].alive = FALSE]
    BY <1>3, <2>1 DEF ChildExits
  <2>3. e \in TerminalExit /\ <<e>> \in Seq(TerminalExit)
    BY <2>1, Children DEF TerminalExit, OrphanInv, Child
  <2>4. exits' = exits \o <<e>>
    BY <2>2, <2>3, AppendIsConcat DEF OrphanInv, TypeInv, TypeOK, AdaptersOK
  <2>5. Waits(<<e>>, procs[p].desk, p)
    <3>1. 1 \in DOMAIN <<e>> /\ <<e>>[1] = e OBVIOUS
    <3> QED BY <2>1, <3>1 DEF Waits
  <2>6. /\ \A d, q : Waits(exits, d, q) => Waits(exits', d, q)
        /\ Waits(exits', procs[p].desk, p)
    BY <2>3, <2>4, <2>5, Sent DEF OrphanInv, TypeInv, TypeOK, AdaptersOK
  <2>7. DOMAIN procs' = DOMAIN procs
        /\ \A q \in DOMAIN procs : /\ procs'[q].desk = procs[q].desk
                                   /\ procs'[q].row = procs[q].row
                                   /\ ~procs'[q].alive => ~procs[q].alive \/ q = p
    <3>1. \A q \in DOMAIN procs : q # p => procs'[q] = procs[q] BY <2>2
    <3>2. procs'[p] = [procs[p] EXCEPT !.alive = FALSE] BY <2>2
    <3>3. procs'[p].desk = procs[p].desk /\ procs'[p].row = procs[p].row
      BY <3>2, Children DEF Child, OrphanInv
    <3> QED BY <2>2, <3>1, <3>3
  <2> QED BY <2>2, <2>6, <2>7 DEF Dying
<1>4. ASSUME NEW p \in DOMAIN procs, ThreadStarted(p) \/ ChannelConnects(p) PROVE Dying
  <2>1. up /\ UNCHANGED <<up, live, act, term, exits>>
        /\ procs' = [procs EXCEPT ![p].reported = TRUE]
    BY <1>4 DEF ThreadStarted, ChannelConnects
  <2>2. \A q \in DOMAIN procs : q # p => procs'[q] = procs[q] BY <2>1
  <2>3. procs'[p] = [procs[p] EXCEPT !.reported = TRUE] BY <2>1
  <2>4. /\ procs'[p].desk = procs[p].desk /\ procs'[p].row = procs[p].row
        /\ procs'[p].alive = procs[p].alive
    BY <2>3, Children DEF Child, OrphanInv
  <2> QED BY <2>1, <2>2, <2>4 DEF Dying
<1> QED BY <1>1, <1>2, <1>3, <1>4, LossDying, DyingKeeps
        DEF Environment, Enqueue, ThreadIdle, ChannelCloses, RuntimeRetry, adapterVars

-----------------------------------------------------------------------------
(* The dispatcher's own steps *)

\* activate leaves the actor at the start of a call, or outside one.
LEMMA ActivateHolds ==
  ASSUME TypeInv, NEW inbox, NEW rows, NEW ptr, NEW d, NEW mode, NEW caller,
         Activate(Dispatcher, inbox, rows, ptr, d, mode, caller)
  PROVE  act'[Dispatcher].pc \in {"drain", "spawn"} /\ act'[Dispatcher].proc = NoProc
<1>1. Dispatcher \in DOMAIN act BY DEF TypeInv, TypeOK, MemoryOK, Actors
<1>2. CASE act' = [act EXCEPT ![Dispatcher] = Holding(inbox)] BY <1>1, <1>2 DEF Holding
<1>3. ASSUME NEW call, call.pc = "spawn", call.proc = NoProc,
             act' = [act EXCEPT ![Dispatcher] = call]
      PROVE  act'[Dispatcher].pc \in {"drain", "spawn"} /\ act'[Dispatcher].proc = NoProc
  BY <1>1, <1>3
<1>4. CASE Admission(rows, ptr, d, mode) = "ADMITTED"
  <2>1. PICK call :
          call = [pc |-> "spawn", desk |-> d, caller |-> caller, runtime |-> selected[d],
                  resume |-> IF mode = "NEW" THEN NoSid ELSE ptr[d][selected[d]],
                  explicit |-> mode = "CONTINUE", proc |-> NoProc, inbox |-> inbox]
    OBVIOUS
  <2>2. call.pc = "spawn" /\ call.proc = NoProc BY <2>1
  <2>3. act' = [act EXCEPT ![Dispatcher] = call] BY <1>4, <2>1 DEF Activate
  <2> QED BY <1>3, <2>2, <2>3
<1> QED BY <1>2, <1>4 DEF Activate

LEMMA HoldHolds ==
  ASSUME TypeInv, NEW inbox, act' = [act EXCEPT ![Dispatcher] = Holding(inbox)]
  PROVE  act'[Dispatcher].pc \in {"drain", "spawn"} /\ act'[Dispatcher].proc = NoProc
<1>1. Dispatcher \in DOMAIN act BY DEF TypeInv, TypeOK, MemoryOK, Actors
<1> QED BY <1>1 DEF Holding

\* Evidence of an end closes the desk's open row and forgets its live entry.
LEMMA EndedSettles ==
  ASSUME OrphanInv, NEW inbox, NEW d \in Desks,
         NEW reason \in {"ENDED", "CONTROL_PLANE_LOST"},
         act[Dispatcher].pc = "drain", Ended(Dispatcher, inbox, d, reason)
  PROVE  /\ act'[Dispatcher].pc \in {"drain", "spawn"} /\ act'[Dispatcher].proc = NoProc
         /\ DOMAIN procs' = DOMAIN procs
         /\ \A p \in DOMAIN procs :
              /\ procs'[p].desk = procs[p].desk /\ procs'[p].alive = procs[p].alive
              /\ procs'[p].row = "OPEN" => procs[p].row = "OPEN" /\ procs[p].desk # d
         /\ \A e \in Desks : live'[e] = NoLive \/ live'[e] = live[e]
<1> DEFINE l == live[d]
           x == IF l = NoLive THEN LiveProcess(procs, d) ELSE l.proc
<1>1. procs' = Close(procs, x, reason) /\ live' = [live EXCEPT ![d] = NoLive]
  BY DEF Ended
<1>2. act'[Dispatcher].pc \in {"drain", "spawn"} /\ act'[Dispatcher].proc = NoProc
  <2>1. CASE act' = [act EXCEPT ![Dispatcher] = Holding(inbox)] BY <2>1, HoldHolds DEF OrphanInv
  <2>2. ASSUME NEW rows, NEW ptr, Activate(Dispatcher, inbox, rows, ptr, d, "NEW", "retry")
        PROVE  act'[Dispatcher].pc \in {"drain", "spawn"} /\ act'[Dispatcher].proc = NoProc
    BY <2>2, ActivateHolds DEF OrphanInv
  <2> QED BY <2>1, <2>2 DEF Ended
<1>3. \A p \in DOMAIN procs : procs[p].row = "OPEN" /\ procs[p].desk = d => x = p
  <2> SUFFICES ASSUME NEW p \in DOMAIN procs, procs[p].row = "OPEN", procs[p].desk = d
               PROVE  x = p
    OBVIOUS
  <2>1. CASE l # NoLive BY <2>1 DEF OrphanInv, Orphans
  <2>2. CASE l = NoLive
    <3>1. p \in OpenRows(procs, d) BY DEF OpenRows
    <3>2. \A q \in OpenRows(procs, d) : q = p BY DEF OpenRows, OrphanInv, Orphans
    <3> QED BY <2>2, <3>1, <3>2 DEF LiveProcess
  <2> QED BY <2>1, <2>2
<1> HIDE DEF x
<1>4. /\ DOMAIN procs' = DOMAIN procs
      /\ \A p \in DOMAIN procs :
           /\ procs'[p].desk = procs[p].desk /\ procs'[p].alive = procs[p].alive
           /\ procs'[p].row = "OPEN" => procs[p].row = "OPEN" /\ p # x
  BY <1>1, Children DEF Close, Child, OrphanInv
<1>5. \A e \in Desks : live'[e] = NoLive \/ live'[e] = live[e]
  BY <1>1 DEF OrphanInv, TypeInv, TypeOK, MemoryOK
<1> QED BY <1>2, <1>3, <1>4, <1>5

LEMMA EventSettles ==
  ASSUME OrphanInv, NEW inbox, NEW e \in AdapterEvent, up, UNCHANGED exits,
         act[Dispatcher].pc = "drain", Event(Dispatcher, inbox, e)
  PROVE  Settles
<1>0. UNCHANGED <<up, term>> /\ e.desk \in Desks BY DEF Event, adapterVars, AdapterEvent
<1>1. CASE /\ act' = [act EXCEPT ![Dispatcher] = Holding(inbox)] /\ UNCHANGED <<procs, live>>
  BY <1>0, <1>1, HoldHolds DEF Settles, OrphanInv
<1>2. CASE Readied(Dispatcher, inbox, e.desk)
  <2>1. act'[Dispatcher].pc \in {"drain", "spawn"} /\ act'[Dispatcher].proc = NoProc
    BY <1>2, HoldHolds DEF Readied, OrphanInv
  <2>2. /\ DOMAIN procs' = DOMAIN procs
        /\ \A p \in DOMAIN procs : /\ procs'[p].desk = procs[p].desk
                                   /\ procs'[p].alive = procs[p].alive
                                   /\ procs'[p].row = procs[p].row
    BY <1>2, Children DEF Readied, Child, OrphanInv
  <2>3. \A d \in Desks : live'[d] = NoLive \/ (live[d] # NoLive /\ live'[d].proc = live[d].proc)
    <3>1. live \in [Desks -> LiveEntry] BY DEF OrphanInv, TypeInv, TypeOK, MemoryOK
    <3>2. CASE live[e.desk] = NoLive BY <1>2, <3>1, <3>2 DEF Readied
    <3>3. CASE live[e.desk] # NoLive
      <4>1. live' = [live EXCEPT ![e.desk] = [live[e.desk] EXCEPT !.ready = TRUE]]
        BY <1>2, <3>3 DEF Readied
      <4>2. live'[e.desk].proc = live[e.desk].proc
            /\ \A d \in Desks : d # e.desk => live'[d] = live[d]
        BY <1>0, <3>1, <4>1 DEF LiveEntry
      <4> QED BY <3>3, <4>2
    <3> QED BY <3>2, <3>3
  <2> QED BY <1>0, <2>1, <2>2, <2>3 DEF Settles
<1>3. CASE Discovered(Dispatcher, inbox, e.desk, e.sid)
  <2>1. act'[Dispatcher].pc \in {"drain", "spawn"} /\ act'[Dispatcher].proc = NoProc
    BY <1>3, HoldHolds DEF Discovered, OrphanInv
  <2>2. /\ DOMAIN procs' = DOMAIN procs /\ UNCHANGED live
        /\ \A p \in DOMAIN procs : /\ procs'[p].desk = procs[p].desk
                                   /\ procs'[p].alive = procs[p].alive
                                   /\ procs'[p].row = procs[p].row
    BY <1>3, Children DEF Discovered, Child, OrphanInv
  <2> QED BY <1>0, <2>1, <2>2 DEF Settles
<1>4. CASE Ended(Dispatcher, inbox, e.desk, "CONTROL_PLANE_LOST")
  BY <1>0, <1>4, EndedSettles DEF Settles
<1> QED BY <1>1, <1>2, <1>3, <1>4 DEF Event

LEMMA DispatcherLoops == ASSUME OrphanInv, Loop PROVE Orphans' /\ Starting'
<1>0. up /\ UNCHANGED up /\ act[Dispatcher].pc = "drain" /\ act[Dispatcher].proc = NoProc
  <2>1. Looping(disp.pc) /\ UNCHANGED up
    BY DEF Loop, Pass, Visit, CheckDeadlines, Expire, Wake, RecvEvent, RecvExit, Select, Looping,
           Event
  <2> QED BY <2>1 DEF Looping, Idle, Holding
<1>1. ASSUME UNCHANGED <<procs, exits, live, term>>,
             act'[Dispatcher].pc \in {"drain", "spawn"} /\ act'[Dispatcher].proc = NoProc
      PROVE  Orphans' /\ Starting'
  BY <1>0, <1>1, SettlesKeeps DEF Settles
<1>2. CASE UNCHANGED <<procs, exits, live, term, act>> BY <1>0, <1>1, <1>2
<1>3. ASSUME NEW d \in Desks, Visit(d) PROVE Orphans' /\ Starting'
  <2>1. UNCHANGED <<procs, exits, live, term>> BY <1>3 DEF Visit, adapterVars
  <2>2. CASE Activate(Dispatcher, <<>>, procs, pointer, d, "AUTO", "queue")
    BY <1>1, <2>1, <2>2, ActivateHolds DEF OrphanInv
  <2>3. CASE UNCHANGED act BY <1>2, <2>1, <2>3
  <2> QED BY <1>3, <2>2, <2>3 DEF Visit
<1>4. ASSUME NEW d \in Desks, Expire(d) PROVE Orphans' /\ Starting'
  <2>1. UNCHANGED <<exits, term, up>> /\ Ended(Dispatcher, <<>>, d, "ENDED")
    BY <1>4 DEF Expire, adapterVars
  <2>2. Settles BY <1>0, <2>1, EndedSettles DEF Settles
  <2> QED BY <2>2, SettlesKeeps
<1>5. CASE RecvEvent
  <2>1. events \in Seq(AdapterEvent) /\ events # <<>> /\ UNCHANGED exits
        /\ Event(Dispatcher, <<>>, Head(events))
    BY <1>5 DEF RecvEvent, Event, adapterVars, OrphanInv, TypeInv, TypeOK, AdaptersOK
  <2>2. Head(events) \in AdapterEvent BY <2>1, HeadTailProperties
  <2>3. Settles BY <1>0, <2>1, <2>2, EventSettles
  <2> QED BY <2>3, SettlesKeeps
<1>6. CASE RecvExit
  <2>1. exits \in Seq(TerminalExit) /\ exits # <<>> /\ exits' = Tail(exits) /\ UNCHANGED term
    BY <1>6 DEF RecvExit, OrphanInv, TypeInv, TypeOK, AdaptersOK
  <2>2. PICK e : e = Head(exits) OBVIOUS
  <2>3. e \in TerminalExit BY <2>1, <2>2, HeadTailProperties
  <2>4. \A d, p : Waits(exits, d, p) => Waits(exits', d, p) \/ (e.desk = d /\ e.proc = p)
    <3> SUFFICES ASSUME NEW d, NEW p, NEW i \in DOMAIN exits, exits[i].proc = p, exits[i].desk = d
                 PROVE  Waits(exits', d, p) \/ (e.desk = d /\ e.proc = p)
      BY DEF Waits
    <3>1. Len(exits) \in Nat /\ DOMAIN exits = 1..Len(exits) BY <2>1, LenProperties
    <3>2. exits' \in Seq(TerminalExit) /\ Len(exits') = Len(exits) - 1
          /\ \A j \in 1..Len(exits') : exits'[j] = exits[j + 1]
      BY <2>1, HeadTailProperties
    <3>3. DOMAIN exits' = 1..Len(exits') BY <3>2, LenProperties
    <3>4. CASE i = 1 BY <2>1, <2>2, <3>4
    <3>5. CASE i # 1
      <4>1. i - 1 \in DOMAIN exits' /\ exits'[i - 1] = exits[i] BY <3>1, <3>2, <3>3, <3>5
      <4> QED BY <4>1 DEF Waits
    <3> QED BY <3>4, <3>5
  <2>5. CASE LiveProcess(procs, e.desk) = e.proc
    <3>1. Ended(Dispatcher, <<>>, e.desk, "ENDED") BY <1>6, <2>2, <2>5 DEF RecvExit
    <3>2. e.desk \in Desks
      BY <2>3 DEF TerminalExit
    <3>3. Settles BY <1>0, <2>1, <2>4, <3>1, <3>2, EndedSettles DEF Settles
    <3> QED BY <3>3, SettlesKeeps
  <2>6. CASE LiveProcess(procs, e.desk) # e.proc
    <3>1. UNCHANGED <<procs, live, act>> BY <1>6, <2>2, <2>6 DEF RecvExit
    <3>2. ASSUME NEW p \in DOMAIN procs, procs[p].row = "OPEN", procs[p].desk = e.desk
          PROVE  e.proc # p
      <4>1. p \in OpenRows(procs, e.desk) BY <3>2 DEF OpenRows
      <4>2. \A q \in OpenRows(procs, e.desk) : q = p BY <3>2 DEF OpenRows, OrphanInv, Orphans
      <4> QED BY <2>6, <4>1, <4>2 DEF LiveProcess
    <3>3. Settles BY <1>0, <2>1, <2>4, <3>1, <3>2 DEF Settles
    <3> QED BY <3>3, SettlesKeeps
  <2> QED BY <2>5, <2>6
<1> QED BY <1>2, <1>3, <1>4, <1>5, <1>6
        DEF Loop, Pass, CheckDeadlines, Wake, adapterVars

LEMMA DispatcherEndsPrevious ==
  ASSUME OrphanInv, EndPrevious(Dispatcher) PROVE Orphans' /\ Starting'
<1> DEFINE a == Dispatcher
           d == act[a].desk
<1>1. /\ procs' = Shutdown(d) /\ exits' = exits \o ShutdownExits(d)
      /\ term' = [term EXCEPT ![d] = NoProc] /\ up /\ UNCHANGED <<live, up>>
      /\ act[a].pc = "spawn" /\ act' = [act EXCEPT ![a] = [@ EXCEPT !.pc = "start"]]
  BY DEF EndPrevious
<1>2. d \in Desks /\ act \in [Actors -> Call] /\ a \in Actors
  BY <1>1 DEF OrphanInv, TypeInv, TypeOK, MemoryOK, CallsOK, Actors
<1>3. act'[a].pc = "start" /\ act'[a].proc = act[a].proc BY <1>1, <1>2 DEF Call
<1>4. DOMAIN procs' = DOMAIN procs BY <1>1, Children, ShutdownType DEF OrphanInv
<1>5. \A q \in DOMAIN procs :
        /\ Shutdown(d)[q].desk = procs[q].desk /\ Shutdown(d)[q].row = procs[q].row
        /\ ~Shutdown(d)[q].alive => ~procs[q].alive \/ q = term[d]
  BY Children DEF Shutdown, Child, OrphanInv
<1>6. /\ \A e, q : Waits(exits, e, q) => Waits(exits', e, q)
      /\ term[d] # NoProc /\ procs[term[d]].alive => Waits(exits', d, term[d])
  BY <1>1, <1>2, ShutdownSends
<1> HIDE DEF d
<1>7. ASSUME NEW q \in DOMAIN procs, ~procs'[q].alive
      PROVE  ~procs[q].alive \/ Waits(exits', procs[q].desk, q)
  <2>1. SUFFICES ASSUME procs[q].alive PROVE Waits(exits', procs[q].desk, q) OBVIOUS
  <2>2. q = term[d] BY <1>1, <1>5, <1>7, <2>1
  <2>3. q # NoProc BY Children DEF OrphanInv, NoProc
  <2>4. procs[q].desk = d BY <1>2, <2>2, <2>3 DEF OrphanInv, Orphans
  <2> QED BY <1>6, <2>1, <2>2, <2>3, <2>4
<1>8. Dying BY <1>1, <1>2, <1>3, <1>4, <1>5, <1>6, <1>7, Children DEF Dying, OrphanInv
<1> QED BY <1>8, DyingKeeps

LEMMA DispatcherStarts ==
  ASSUME OrphanInv, StartChild(Dispatcher) PROVE Orphans' /\ Starting'
<1> DEFINE a == Dispatcher
           d == act[a].desk
           p == Len(procs) + 1
<1>1. PICK child : /\ procs' = Append(procs, child)
                   /\ child = [desk |-> d, runtime |-> act[a].runtime, resume |-> act[a].resume,
                               alive |-> TRUE, reported |-> FALSE, row |-> "NONE",
                               ready |-> FALSE, native |-> NoSid]
  BY DEF StartChild
<1>2. /\ d \in Desks /\ act[a].runtime \in Runtimes /\ act[a].resume \in Nat
      /\ act \in [Actors -> Call] /\ a \in Actors /\ act[a].pc = "start" /\ up
  BY DEF StartChild, OrphanInv, TypeInv, TypeOK, MemoryOK, CallsOK, Call, Actors
<1>3. child \in Child /\ child.desk = d /\ child.row = "NONE" /\ child.alive
  BY <1>1, <1>2 DEF Child, NoSid
<1>4. /\ act' = [act EXCEPT ![a] = [@ EXCEPT !.pc = "insert", !.proc = p]]
      /\ UNCHANGED <<live, up, term, exits>>
  BY DEF StartChild, adapterVars
<1>5. act'[a].pc = "insert" /\ act'[a].proc = p /\ act'[a].desk = d BY <1>2, <1>4 DEF Call
<1> HIDE DEF d
<1>6. Len(procs) \in Nat /\ DOMAIN procs = 1..Len(procs) /\ p \notin DOMAIN procs
  BY Children DEF OrphanInv
<1>7. /\ DOMAIN procs' = 1..p /\ procs'[p] = child
      /\ \A q \in DOMAIN procs : procs'[q] = procs[q]
  <2>1. procs' \in Seq(Child) /\ Len(procs') = p /\ procs'[p] = child
        /\ \A q \in 1..Len(procs) : procs'[q] = procs[q]
    BY <1>1, <1>3, Children, AppendProperties DEF OrphanInv
  <2> QED BY <2>1, <1>6, LenProperties
<1>8. DOMAIN procs' = (DOMAIN procs) \cup {p} BY <1>6, <1>7
<1> HIDE DEF p
<1>9. Starting' BY <1>2, <1>3, <1>4, <1>5, <1>7, <1>8 DEF Starting
<1>10. (up => \A q \in DOMAIN procs :
          ~procs[q].alive /\ (procs[q].row = "OPEN" \/ act[Dispatcher].proc = q)
            => Waits(exits, procs[q].desk, q))'
  BY <1>2, <1>3, <1>4, <1>5, <1>7, <1>8 DEF OrphanInv, Orphans
<1>11. (\A x, y \in DOMAIN procs :
        procs[x].row = "OPEN" /\ procs[y].row = "OPEN" /\ procs[x].desk = procs[y].desk => x = y)'
  <2>1. \A x \in DOMAIN procs' : procs'[x].row = "OPEN" =>
          x \in DOMAIN procs /\ procs'[x] = procs[x]
    BY <1>3, <1>7, <1>8
  <2>2. \A x, y \in DOMAIN procs :
          procs[x].row = "OPEN" /\ procs[y].row = "OPEN" /\ procs[x].desk = procs[y].desk => x = y
    BY DEF OrphanInv, Orphans
  <2> QED BY <2>1, <2>2
<1>12. (\A q \in DOMAIN procs : procs[q].row = "OPEN" =>
        \/ live[procs[q].desk] = NoLive
        \/ live[procs[q].desk].proc = q
        \/ act[Dispatcher].pc = "install" /\ act[Dispatcher].proc = q)'
  BY <1>2, <1>3, <1>4, <1>7, <1>8 DEF OrphanInv, Orphans
<1>13. (\A e \in Desks : term[e] # NoProc => term[e] \in DOMAIN procs /\ procs[term[e]].desk = e)'
  BY <1>4, <1>7, <1>8 DEF OrphanInv, Orphans
<1> QED BY <1>9, <1>10, <1>11, <1>12, <1>13 DEF Orphans

LEMMA DispatcherInserts ==
  ASSUME OrphanInv, InsertTerminal(Dispatcher) PROVE Orphans' /\ Starting'
<1> DEFINE a == Dispatcher
           d == act[a].desk
           p == act[a].proc
<1>1. /\ up /\ act[a].pc = "insert" /\ term' = [term EXCEPT ![d] = p]
      /\ act' = [act EXCEPT ![a] = [@ EXCEPT !.pc = "open"]]
      /\ UNCHANGED <<procs, exits, live, up>>
  BY DEF InsertTerminal
<1>2. /\ act \in [Actors -> Call] /\ a \in Actors /\ p \in DOMAIN procs /\ procs[p].desk = d
  BY <1>1 DEF OrphanInv, Starting, TypeInv, TypeOK, MemoryOK, Actors
<1>3. act'[a].pc = "open" /\ act'[a].proc = p /\ act'[a].desk = d BY <1>1, <1>2 DEF Call
<1> HIDE DEF d, p
<1>4. Starting' BY <1>1, <1>2, <1>3 DEF Starting
<1>5. (\A e \in Desks : term[e] # NoProc => term[e] \in DOMAIN procs /\ procs[term[e]].desk = e)'
  <2>1. \A e \in Desks : term'[e] = IF e = d THEN p ELSE term[e]
    BY <1>1, Children DEF OrphanInv
  <2> QED BY <1>1, <1>2, <2>1 DEF OrphanInv, Orphans
<1> QED BY <1>1, <1>3, <1>4, <1>5 DEF OrphanInv, Orphans, p

\* The row of the child that was started opens; or the call ends, the row's live entry
\* written first when there is one.
LEMMA DispatcherOpens == ASSUME OrphanInv, OpenProcess(Dispatcher) PROVE Orphans' /\ Starting'
<1> DEFINE a == Dispatcher
           d == act[a].desk
           p == act[a].proc
<1>1. /\ up /\ act[a].pc = "open" /\ OpenRows(procs, d) = {}
      /\ procs' = [procs EXCEPT ![p].row = "OPEN", ![p].native = KnownSession(p)]
      /\ act' = [act EXCEPT ![a].pc = "install"] /\ UNCHANGED <<exits, term, live, up>>
  BY DEF OpenProcess, adapterVars
<1>2. /\ act \in [Actors -> Call] /\ a \in Actors /\ p \in DOMAIN procs /\ procs[p].desk = d
  BY <1>1 DEF OrphanInv, Starting, TypeInv, TypeOK, MemoryOK, Actors
<1>3. act'[a].pc = "install" /\ act'[a].proc = p /\ act'[a].desk = d BY <1>1, <1>2 DEF Call
<1> HIDE DEF d, p
<1>4. DOMAIN procs' = DOMAIN procs /\ \A q \in DOMAIN procs : q # p => procs'[q] = procs[q]
  BY <1>1, Children DEF OrphanInv
<1>5. procs'[p].row = "OPEN" /\ procs'[p].desk = d /\ procs'[p].alive = procs[p].alive
  BY <1>1, <1>2, Children DEF OrphanInv, Child
<1>6. \A q \in DOMAIN procs : procs[q].row = "OPEN" => procs[q].desk # d
  BY <1>1 DEF OpenRows
<1>7. Starting' BY <1>1, <1>2, <1>3, <1>4, <1>5 DEF Starting
<1>8. (\A q \in DOMAIN procs :
          ~procs[q].alive /\ (procs[q].row = "OPEN" \/ act[Dispatcher].proc = q)
            => Waits(exits, procs[q].desk, q))'
  BY <1>1, <1>2, <1>3, <1>4, <1>5 DEF OrphanInv, Orphans, p
<1>9. (\A x, y \in DOMAIN procs :
        procs[x].row = "OPEN" /\ procs[y].row = "OPEN" /\ procs[x].desk = procs[y].desk => x = y)'
  BY <1>4, <1>5, <1>6 DEF OrphanInv, Orphans
<1>10. (\A q \in DOMAIN procs : procs[q].row = "OPEN" =>
        \/ live[procs[q].desk] = NoLive
        \/ live[procs[q].desk].proc = q
        \/ act[Dispatcher].pc = "install" /\ act[Dispatcher].proc = q)'
  BY <1>1, <1>3, <1>4, <1>5 DEF OrphanInv, Orphans
<1>11. (\A e \in Desks : term[e] # NoProc => term[e] \in DOMAIN procs /\ procs[term[e]].desk = e)'
  BY <1>1, <1>2, <1>4, <1>5 DEF OrphanInv, Orphans
<1> QED BY <1>1, <1>7, <1>8, <1>9, <1>10, <1>11 DEF Orphans

LEMMA DispatcherInstalls == ASSUME OrphanInv, Install(Dispatcher) PROVE Orphans' /\ Starting'
<1> DEFINE a == Dispatcher
           d == act[a].desk
           p == act[a].proc
<1>1. PICK entry, inbox :
        /\ entry = [proc |-> p, runtime |-> act[a].runtime, resume |-> act[a].resume,
                    explicit |-> act[a].explicit, ready |-> FALSE]
        /\ live' = [live EXCEPT ![d] = entry] /\ act' = [act EXCEPT ![a] = Holding(inbox)]
  BY DEF Install
<1>2. up /\ act[a].pc = "install" /\ UNCHANGED <<procs, exits, term, up>>
  BY DEF Install, adapterVars
<1>3. p \in DOMAIN procs /\ procs[p].desk = d /\ procs[p].row = "OPEN"
  BY <1>2 DEF OrphanInv, Starting
<1>4. entry.proc = p BY <1>1
<1>5. \A e \in Desks : live'[e] = IF e = d THEN entry ELSE live[e]
  BY <1>1 DEF OrphanInv, TypeInv, TypeOK, MemoryOK
<1>6. act'[a].pc = "drain" /\ act'[a].proc = NoProc
  BY <1>1 DEF OrphanInv, TypeInv, TypeOK, MemoryOK, Actors, Holding
<1> HIDE DEF d, p
<1>7. Starting' BY <1>2, <1>6 DEF Starting
<1>8. \A q \in DOMAIN procs : q # NoProc /\ procs[q].desk \in Desks
  BY Children DEF OrphanInv, Child, NoProc
<1>9. (\A q \in DOMAIN procs :
          ~procs[q].alive /\ (procs[q].row = "OPEN" \/ act[Dispatcher].proc = q)
            => Waits(exits, procs[q].desk, q))'
  BY <1>2, <1>6, <1>8 DEF OrphanInv, Orphans
<1>10. (\A q \in DOMAIN procs : procs[q].row = "OPEN" =>
        \/ live[procs[q].desk] = NoLive
        \/ live[procs[q].desk].proc = q
        \/ act[Dispatcher].pc = "install" /\ act[Dispatcher].proc = q)'
  <2>1. ASSUME NEW q \in DOMAIN procs, procs[q].row = "OPEN"
        PROVE  live'[procs[q].desk] = NoLive \/ live'[procs[q].desk].proc = q
    <3>1. CASE procs[q].desk = d
      <4>1. q = p BY <1>3, <2>1, <3>1 DEF OrphanInv, Orphans
      <4> QED BY <1>4, <1>5, <1>8, <3>1, <4>1
    <3>2. CASE procs[q].desk # d
      <4>1. q # p BY <1>3, <3>2
      <4> QED BY <1>5, <1>8, <2>1, <3>2, <4>1 DEF OrphanInv, Orphans, p
    <3> QED BY <3>1, <3>2
  <2> QED BY <1>2, <2>1
<1> QED BY <1>2, <1>7, <1>9, <1>10 DEF OrphanInv, Orphans

\* A start that fails after the spawn leaves a child that has no row.
LEMMA DispatcherGivesUp ==
  ASSUME OrphanInv, SpawnFails(Dispatcher) \/ OpenRefused(Dispatcher)
  PROVE  Orphans' /\ Starting'
<1>1. PICK inbox : act' = [act EXCEPT ![Dispatcher] = Holding(inbox)]
  BY DEF SpawnFails, OpenRefused, GiveUp
<1>2. up /\ act[Dispatcher].pc \in {"spawn", "start", "open"} /\ UNCHANGED <<procs, exits, term, live, up>>
  BY DEF SpawnFails, OpenRefused, GiveUp, adapterVars
<1>3. act'[Dispatcher].pc = "drain" /\ act'[Dispatcher].proc = NoProc
  BY <1>1 DEF OrphanInv, TypeInv, TypeOK, MemoryOK, Actors, Holding
<1>4. Starting' BY <1>2, <1>3 DEF Starting
<1>5. \A q \in DOMAIN procs : q # NoProc BY Children DEF OrphanInv, NoProc
<1> QED BY <1>2, <1>3, <1>4, <1>5 DEF OrphanInv, Orphans

LEMMA DispatcherActs ==
  ASSUME OrphanInv, ActorStep(Dispatcher)
  PROVE  Orphans' /\ Starting'
<1>1. CASE Drain(Dispatcher)
  <2>1. PICK inbox : inbox = act[Dispatcher].inbox OBVIOUS
  <2>2. inbox \in Seq(AdapterEvent) /\ inbox # <<>> /\ up /\ act[Dispatcher].pc = "drain"
        /\ Event(Dispatcher, Tail(inbox), Head(inbox))
    BY <1>1, <2>1 DEF Drain, OrphanInv, TypeInv, TypeOK, MemoryOK, Actors, Call
  <2>3. Head(inbox) \in AdapterEvent BY <2>2, HeadTailProperties
  <2>4. UNCHANGED exits BY <1>1 DEF Drain, Event, adapterVars
  <2>5. Settles BY <2>2, <2>3, <2>4, EventSettles
  <2> QED BY <2>5, SettlesKeeps
<1> QED BY <1>1, DispatcherEndsPrevious, DispatcherStarts, DispatcherInserts, DispatcherOpens,
           DispatcherInstalls, DispatcherGivesUp
        DEF ActorStep, Spawn

\* After a death nothing is alive, and no row is open once the next daemon has recovered.
LEMMA DeathOrphans == ASSUME OrphanInv, Crash \/ Quit PROVE Orphans' /\ Starting'
<1>1. PICK rows \in {procs, ClosedAll} :
        procs' = [p \in DOMAIN procs |-> [rows[p] EXCEPT !.alive = FALSE, !.reported = TRUE]]
  BY DEF Crash, Quit, Dies
<1>2. \A q \in DOMAIN procs : /\ rows[q] \in Child /\ rows[q].desk = procs[q].desk
                              /\ rows[q].row = "OPEN" => procs[q].row = "OPEN"
  <2>1. \A q \in DOMAIN procs :
          /\ ClosedAll[q] \in Child /\ ClosedAll[q].desk = procs[q].desk
          /\ ClosedAll[q].row # "OPEN"
    BY Children DEF ClosedAll, Child, OrphanInv
  <2> QED BY <1>1, <2>1, Children DEF OrphanInv
<1>3. DOMAIN procs' = DOMAIN procs
      /\ \A q \in DOMAIN procs : /\ procs'[q].desk = procs[q].desk
                                 /\ procs'[q].row = "OPEN" => procs[q].row = "OPEN"
  BY <1>1, <1>2 DEF Child
<1>4. ~up' /\ term' = [d \in Desks |-> NoProc] /\ live' = [d \in Desks |-> NoLive]
      /\ act' = [b \in Actors |-> Holding(<<>>)]
  BY DEF Crash, Quit, Dies
<1>5. act'[Dispatcher].pc = "drain" /\ act'[Dispatcher].proc = NoProc
  BY <1>4 DEF Actors, Holding
<1>6. \A q \in DOMAIN procs : procs[q].desk \in Desks BY Children DEF OrphanInv, Child
<1>7. Starting' BY <1>5 DEF Starting
<1>8. \A d \in Desks : term'[d] = NoProc /\ live'[d] = NoLive BY <1>4
<1> QED BY <1>3, <1>4, <1>6, <1>7, <1>8 DEF OrphanInv, Orphans

LEMMA RecoverOrphans == ASSUME OrphanInv, Recover PROVE Orphans' /\ Starting'
<1>1. procs' = ClosedAll /\ ~up /\ UNCHANGED <<act, live, term>>
  BY DEF Recover, adapterVars
<1>2. DOMAIN procs' = DOMAIN procs
      /\ \A q \in DOMAIN procs : procs'[q].row # "OPEN" /\ procs'[q].desk = procs[q].desk
  BY <1>1, Children DEF ClosedAll, Child, OrphanInv
<1>3. act[Dispatcher].pc = "drain" /\ act[Dispatcher].proc = NoProc
  BY <1>1 DEF OrphanInv, Starting
<1>4. \A q \in DOMAIN procs : q # NoProc BY Children DEF OrphanInv, NoProc
<1>5. Starting' BY <1>1, <1>3 DEF Starting
<1> QED BY <1>1, <1>2, <1>3, <1>4, <1>5 DEF OrphanInv, Orphans

LEMMA OrphansNext == ASSUME Routes = {}, OrphanInv, [Next]_vars PROVE OrphanInv'
<1>1. TypeInv' BY NextTypes DEF OrphanInv
<1>2. Orphans' /\ Starting'
  <2>1. CASE UNCHANGED <<procs, exits, live, term, act, up>>
    BY <2>1 DEF OrphanInv, Orphans, Starting, Waits
  <2>2. CASE Delivery
    BY <2>1, <2>2 DEF Delivery, MarkAttempted, Settle, Delivers, DeliveryRefused,
                      HandoffUnknown, ChannelUnavailable, HandOver, Waiting, Resolve, adapterVars
  <2>3. CASE UNCHANGED vars BY <2>1, <2>3 DEF vars
  <2>4. CASE \E a \in Actors : ActorStep(a)
    <3>1. Actors = {Dispatcher} BY DEF Actors
    <3> QED BY <2>4, <3>1, DispatcherActs
  <2>5. CASE \E r \in Routes : RouteStep(r) BY <2>5
  <2> QED BY <2>2, <2>3, <2>4, <2>5, DispatcherLoops, EnvironmentOrphans, DeathOrphans,
             RecoverOrphans DEF Next
<1> QED BY <1>1, <1>2 DEF OrphanInv

LEMMA OrphansInit == ASSUME Init PROVE OrphanInv
<1>1. procs = <<>> /\ up /\ \A d \in Desks : term[d] = NoProc BY DEF Init
<1>2. act[Dispatcher].pc = "drain" /\ act[Dispatcher].proc = NoProc
  BY DEF Init, Actors, Holding
<1>3. DOMAIN procs = {} BY <1>1
<1>4. Starting BY <1>1, <1>2 DEF Starting
<1>5. Orphans BY <1>1, <1>3 DEF Orphans
<1> QED BY <1>4, <1>5, InitTypes DEF OrphanInv

\* Where the dispatcher alone starts sessions, the row of a child that is gone is closed by
\* an exit that still waits: an exit is passed over only when the row is another child's.
THEOREM NoOrphans == ASSUME Routes = {} PROVE Spec => []NoOrphanRow
<1>1. Init => OrphanInv BY OrphansInit
<1>2. OrphanInv /\ [Next]_vars => OrphanInv' BY OrphansNext
<1>3. OrphanInv => NoOrphanRow BY DEF OrphanInv, Orphans, Waits, NoOrphanRow, ClosePending
<1> QED BY <1>1, <1>2, <1>3, PTL DEF Spec
=============================================================================
