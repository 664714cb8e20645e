------------------------------ MODULE TradeProofs ------------------------------
(***************************************************************************)
(* Proofs about TradeAction for any actions, markets, number of requests   *)
(* and number of deaths: the types, that a record answers what the history *)
(* says, that a resting order survives a restart, and that the routes      *)
(* implement OrderPromise.                                                 *)
(***************************************************************************)
EXTENDS TradeAction, TLAPS

-------------------------------------------------------------------------------
(* The inductive invariant *)

\* A call under way names actions, and at its end it has an answer.
Calls == \A r \in Requests :
  /\ req[r].pc # "idle" => req[r].act \in Actions /\ req[r].target \in Actions
  /\ req[r].pc = "finish" => req[r].answer \in {"ACCEPTED"} \cup Closed

\* Past the row, an action is in the hands of one request, which alone places it
\* and answers it: a replay and a lost decision never get that far.
Ahead   == {"restart", "place", "confirm", "invalid"}
Working == Ahead \cup {"send", "settle", "finish"}
OneCaller == \A r \in Requests : req[r].pc \in Working =>
  /\ row[req[r].act].approval \in {"ALWAYS_ALLOW", "APPROVED"}
  /\ row[req[r].act].outcome = "NULL"
  /\ row[req[r].act].order = Of(r)
  /\ \A q \in Requests : req[q].pc \in Working /\ req[q].act = req[r].act => q = r

NotYet == \A r \in Requests : req[r].pc \in Ahead => placed[req[r].act] = 0

\* What is not cleared has neither been placed nor answered.
Undecided == \A a \in Actions : row[a].approval \in {"ABSENT", "PENDING"} =>
  /\ row[a].outcome = "NULL" /\ placed[a] = 0
  /\ row[a].approval = "PENDING" => row[a].order = a

\* What is answered names the order it is about.
Named == \A a \in Actions : row[a].outcome # "NULL" => row[a].order \in Actions

RowInv == OneCaller /\ NotYet /\ Undecided /\ Named

\* An order nobody placed is on no node and in no history.
Unplaced == \A a \in Actions :
  placed[a] = 0 => filed[a] = {} /\ book[a] = "NONE" /\ a \notin resting

\* The cache closes an order, and shows its cancel refused, with a stored event.
Recorded == \A a \in Actions :
  /\ book[a] \in Closed => book[a] \in filed[a]
  /\ a \in refused => "ACCEPTED" \in filed[a]

\* RestingSurvives, with the node down too.
Survives == \A a \in Actions :
  "ACCEPTED" \in filed[a] /\ filed[a] \cap Closed = {} =>
    a \in resting /\ (up => book[a] \in Open)

\* A node that does not run knows no order.
Down == \A a \in Actions : ~up => book[a] = "NONE"

NodeInv == Unplaced /\ Recorded /\ Survives /\ Down

\* A request that places has a node, and reads an acceptance of its own order there
\* only once it is stored.  (A restored order may be in the cache before that.)
NodeOf(r) ==
  /\ req[r].started => up
  /\ req[r].op = "approve" /\ req[r].pc \in {"admit", "decide"} => up
  /\ req[r].op \in Placing /\ req[r].pc \in {"place", "confirm", "settle"} => up
  /\ req[r].op \in Placing /\ req[r].pc = "settle" =>
       (book[req[r].act] = "ACCEPTED" => "ACCEPTED" \in filed[req[r].act])
OnNode == \A r \in Requests : NodeOf(r)

HeardOf(r) == req[r].pc = "finish" => Backed(Of(r), req[r].answer)
Heard == \A r \in Requests : HeardOf(r)

AnswerInv == OnNode /\ Heard /\ AnswerFiled

-------------------------------------------------------------------------------
(* Types *)

\* The calls, the rows and the node of TypeOK, each by itself.
Ops == {"none"} \cup Submit \cup Cancel \cup Decide
Pcs == {"idle", "stored", "gate", "ensure", "begin", "restart", "waiting", "open", "send",
        "pending", "admit", "decide", "place", "confirm", "invalid", "settle", "finish"}
Call == [op : Ops, pc : Pcs, act : {"none"} \cup Actions, target : {"none"} \cup Actions,
         started : BOOLEAN, answer : {"none"} \cup Answers]
Row == [kind : {"ABSENT", "SUBMIT", "CANCEL"},
        approval : {"ABSENT", "PENDING", "ALWAYS_ALLOW", "APPROVED", "DENIED"},
        outcome : {"NULL"} \cup Answers, order : {"none"} \cup Actions]

NodeOK ==
  /\ filed \in [Actions -> SUBSET Answers] /\ resting \subseteq Actions
  /\ up \in BOOLEAN /\ book \in [Actions -> Status]
  /\ sent \subseteq Actions /\ refused \subseteq Actions
  /\ placed \in [Actions -> Nat]
RowOK == policy \in {"ALWAYS_ALLOW", "REQUIRE_APPROVAL"} /\ row \in [Actions -> Row]
CallOK == req \in [Requests -> Call] /\ Calls
RestOK == ready \in BOOLEAN /\ crashes \in 0 .. MaxCrashes /\ cut \subseteq Actions

TypeInv == RowOK /\ NodeOK /\ CallOK /\ RestOK

IInv == TypeInv /\ RowInv /\ NodeInv /\ AnswerInv

LEMMA TypeParts == TypeInv => TypeOK
BY DEF TypeInv, TypeOK, RowOK, NodeOK, CallOK, RestOK, Row, Call, Ops, Pcs

\* A call moves on, or is over.
LEMMA GotoType ==
  ASSUME CallOK, NEW r \in Requests, NEW pc \in Pcs \ {"finish"}, req[r].pc # "idle",
         Goto(r, pc)
  PROVE  CallOK'
BY DEF CallOK, Calls, Call, Goto

LEMMA DoneType == ASSUME CallOK, NEW r \in Requests, Done(r) PROVE CallOK'
BY DEF CallOK, Calls, Call, Done, Idle, Ops, Pcs

LEMMA SameCalls == ASSUME CallOK, UNCHANGED req PROVE CallOK'
BY DEF CallOK, Calls

LEMMA SameNode == ASSUME NodeOK, UNCHANGED <<node, placed>> PROVE NodeOK'
BY DEF NodeOK, node

LEMMA SameRows == ASSUME RowOK, UNCHANGED <<policy, row>> PROVE RowOK'
BY DEF RowOK

LEMMA SameRest == ASSUME RestOK, UNCHANGED <<ready, crashes, cut>> PROVE RestOK'
BY DEF RestOK

\* A step of a call that only moves it on.
LEMMA QuietTypes ==
  ASSUME TypeInv, NEW r \in Requests,
         UNCHANGED <<policy, row, node, ready, placed, crashes, cut>>,
         Done(r) \/ \E pc \in Pcs \ {"finish"} : req[r].pc # "idle" /\ Goto(r, pc)
  PROVE  TypeInv'
BY GotoType, DoneType, SameNode, SameRows, SameRest DEF TypeInv

\* A row that is written is one, whatever its kind.
LEMMA NewRowType ==
  ASSUME RowOK, NEW a \in Actions, NEW t \in Actions, NEW kind \in {"SUBMIT", "CANCEL"},
         NEW approval \in {"PENDING", "ALWAYS_ALLOW"},
         row' = [row EXCEPT ![a] = NewRow(kind, approval, t)], UNCHANGED policy
  PROVE  RowOK'
<1>1. NewRow(kind, approval, t) \in Row BY DEF NewRow, Row
<1> QED BY <1>1 DEF RowOK

\* What an ensure does to the node, whatever its caller does next.
LEMMA EnsureTypes ==
  ASSUME NodeOK, NEW r \in Requests, Ensure(r, TRUE, TRUE), UNCHANGED placed PROVE NodeOK'
BY DEF Ensure, NodeOK, node, Status, Open

LEMMA HandToNodeType ==
  ASSUME NodeOK, NEW a \in Actions, HandToNode(a) PROVE NodeOK'
BY DEF HandToNode, NodeOK, Status

LEMMA StepTypes == ASSUME TypeInv, NEW r \in Requests, Step(r) PROVE TypeInv'
<1>1. CASE Stored(r) BY <1>1, QuietTypes DEF Stored, At, Submit, Cancel, Pcs
<1>2. CASE Gated(r) BY <1>2, QuietTypes DEF Gated, At, Submit, Pcs
<1>3. CASE EnsureFirst(r)
  <2>1. Ensure(r, TRUE, TRUE) BY <1>3, Zenon DEF EnsureFirst, Ensure
  <2>2. CallOK'
    <3> DEFINE started == [req[r] EXCEPT !.pc = "begin", !.started = TRUE]
    <3>1. req[r].pc # "idle" /\ req[r] \in Call BY <1>3 DEF EnsureFirst, At, TypeInv, CallOK
    <3>2. started \in Call /\ started.act = req[r].act /\ started.target = req[r].target
          /\ started.pc = "begin"
      BY <3>1 DEF Call, Pcs
    <3>3. req' = [req EXCEPT ![r] = started] \/ Done(r) BY <1>3, Zenon DEF EnsureFirst, Ensure
    <3> HIDE DEF started
    <3> QED BY <3>1, <3>2, <3>3, DoneType DEF TypeInv, CallOK, Calls
  <2>5. NodeOK' BY <1>3, <2>1, EnsureTypes DEF EnsureFirst, TypeInv
  <2> QED BY <1>3, <2>2, <2>5, SameRows, SameRest DEF EnsureFirst, TypeInv
<1>4. CASE BeginSubmit(r)
  <2>1. req[r].act \in Actions /\ req[r].pc # "idle"
    BY <1>4 DEF BeginSubmit, At, Submit, TypeInv, CallOK, Calls
  <2>2. CallOK' BY <1>4, <2>1, GotoType, DoneType DEF BeginSubmit, TypeInv, Pcs
  <2>3. RowOK' BY <1>4, <2>1, NewRowType, SameRows DEF BeginSubmit, TypeInv
  <2> QED BY <1>4, <2>2, <2>3, SameNode, SameRest DEF BeginSubmit, TypeInv
<1>5. CASE EnsureAfter(r)
  <2>1. Ensure(r, TRUE, TRUE) /\ (Goto(r, "place") \/ Done(r)) BY <1>5 DEF EnsureAfter, Ensure
  <2>5. NodeOK' BY <1>5, <2>1, EnsureTypes DEF EnsureAfter, TypeInv
  <2>2. CallOK' BY <1>5, <2>1, GotoType, DoneType DEF EnsureAfter, At, TypeInv, Pcs
  <2> QED BY <1>5, <2>2, <2>5, SameRows, SameRest DEF EnsureAfter, TypeInv
<1>6. CASE AwaitingApproval(r) BY <1>6, QuietTypes DEF AwaitingApproval, At, Cancel, Pcs
<1>7. CASE EnsureForCancel(r)
  <2>1. Ensure(r, TRUE, TRUE) /\ (Goto(r, "open") \/ Done(r)) BY <1>7 DEF EnsureForCancel, Ensure
  <2>5. NodeOK' BY <1>7, <2>1, EnsureTypes DEF EnsureForCancel, TypeInv
  <2>2. CallOK' BY <1>7, <2>1, GotoType, DoneType DEF EnsureForCancel, At, TypeInv, Pcs
  <2> QED BY <1>7, <2>2, <2>5, SameRows, SameRest DEF EnsureForCancel, TypeInv
<1>8. CASE OpenOnNode(r) BY <1>8, QuietTypes DEF OpenOnNode, At, Cancel, Pcs
<1>9. CASE BeginCancel(r)
  <2>1. req[r].act \in Actions /\ req[r].target \in Actions /\ req[r].pc # "idle"
    BY <1>9 DEF BeginCancel, At, Cancel, TypeInv, CallOK, Calls
  <2>2. CallOK' BY <1>9, <2>1, GotoType, DoneType DEF BeginCancel, TypeInv, Pcs
  <2>3. RowOK' BY <1>9, <2>1, NewRowType, SameRows DEF BeginCancel, TypeInv
  <2> QED BY <1>9, <2>2, <2>3, SameNode, SameRest DEF BeginCancel, TypeInv
<1>10. CASE SendCancel(r)
  <2>1. req[r].target \in Actions /\ req[r].pc # "idle"
    BY <1>10 DEF SendCancel, At, Cancel, TypeInv, CallOK, Calls
  <2>2. CallOK' BY <1>10, <2>1, GotoType DEF SendCancel, TypeInv, Pcs
  <2>3. NodeOK' BY <1>10, <2>1 DEF SendCancel, TypeInv, NodeOK
  <2> QED BY <1>10, <2>2, <2>3, SameRows, SameRest DEF SendCancel, TypeInv
<1>11. CASE PendingAction(r) BY <1>11, QuietTypes DEF PendingAction, At, Decide, Pcs
<1>12. CASE EnsureForDecision(r)
  <2> DEFINE to == IF req[r].act \in Shares THEN "admit" ELSE "decide"
  <2>1. Ensure(r, TRUE, TRUE) /\ (Goto(r, to) \/ Done(r)) BY <1>12 DEF EnsureForDecision, Ensure
  <2>5. NodeOK' BY <1>12, <2>1, EnsureTypes DEF EnsureForDecision, TypeInv
  <2>2. to \in Pcs \ {"finish"} BY DEF Pcs
  <2>3. CallOK' BY <1>12, <2>1, <2>2, GotoType, DoneType DEF EnsureForDecision, At, TypeInv
  <2> QED BY <1>12, <2>3, <2>5, SameRows, SameRest DEF EnsureForDecision, TypeInv
<1>13. CASE Admissible(r) BY <1>13, QuietTypes DEF Admissible, At, Decide, Pcs
<1>14. CASE DecideRow(r)
  <2>1. req[r].act \in Actions /\ req[r].pc # "idle"
    BY <1>14 DEF DecideRow, At, Decide, TypeInv, CallOK, Calls
  <2>2. CallOK' BY <1>14, <2>1, GotoType, DoneType DEF DecideRow, TypeInv, Pcs
  <2>3. RowOK' BY <1>14, <2>1, SameRows DEF DecideRow, TypeInv, RowOK, Row, Answers
  <2> QED BY <1>14, <2>2, <2>3, SameNode, SameRest DEF DecideRow, TypeInv
<1>15. CASE Place(r)
  <2>1. req[r].act \in Actions /\ req[r].pc # "idle"
    BY <1>15 DEF Place, At, Placing, TypeInv, CallOK, Calls
  <2>2. CallOK' BY <1>15, <2>1, GotoType DEF Place, TypeInv, Pcs
  <2> QED BY <1>15, <2>1, <2>2, HandToNodeType, SameRows, SameRest DEF Place, TypeInv
<1>16. CASE PlaceShare(r)
  <2>1. req[r].act \in Actions /\ req[r].pc # "idle"
    BY <1>16 DEF PlaceShare, At, Placing, TypeInv, CallOK, Calls
  <2>2. CallOK' BY <1>16, <2>1, GotoType, DoneType DEF PlaceShare, TypeInv, Pcs
  <2>3. NodeOK' BY <1>16, <2>1, HandToNodeType, SameNode DEF PlaceShare, TypeInv
  <2> QED BY <1>16, <2>2, <2>3, SameRows, SameRest DEF PlaceShare, TypeInv
<1>17. CASE SizedBookLost(r)
  BY <1>17, DoneType, SameNode, SameRows DEF SizedBookLost, TypeInv, RestOK
<1>18. CASE SizedBookLanded(r)
  <2>1. req[r].act \in Actions /\ req[r].pc # "idle"
    BY <1>18 DEF SizedBookLanded, At, Placing, TypeInv, CallOK, Calls
  <2>2. CallOK' BY <1>18, <2>1, GotoType DEF SizedBookLanded, TypeInv, Pcs
  <2> QED BY <1>18, <2>1, <2>2, HandToNodeType, SameRows, SameRest DEF SizedBookLanded, TypeInv
<1>19. CASE Settle(r)
  <2> DEFINE answer == IF book[Of(r)] \in Open THEN "ACCEPTED" ELSE book[Of(r)]
  <2>1. req[r].pc # "idle" /\ Of(r) \in Actions
    BY <1>19 DEF Settle, At, Placing, Cancel, TypeInv, CallOK, Calls, Of
  <2>2. answer \in Answers /\ answer \in {"ACCEPTED"} \cup Closed
    BY <1>19, <2>1 DEF Settle, Settled, TypeInv, NodeOK, Open, Closed, Answers
  <2>3. req' = [req EXCEPT ![r].pc = "finish", ![r].answer = answer] BY <1>19 DEF Settle
  <2> HIDE DEF answer
  <2>4. CallOK'
    <3> DEFINE heard == [req[r] EXCEPT !.pc = "finish", !.answer = answer]
    <3>1. req[r] \in Call BY DEF TypeInv, CallOK
    <3>2. heard \in Call /\ heard.act = req[r].act /\ heard.target = req[r].target
          /\ heard.answer = answer
      BY <2>2, <3>1 DEF Call, Pcs
    <3>3. req' = [req EXCEPT ![r] = heard] BY <2>3, Zenon
    <3> HIDE DEF heard
    <3> QED BY <2>1, <2>2, <3>2, <3>3 DEF TypeInv, CallOK, Calls
  <2> QED BY <1>19, <2>4, SameNode, SameRows, SameRest DEF Settle, TypeInv
<1>20. CASE SettleTimeout(r) BY <1>20, QuietTypes DEF SettleTimeout
<1>21. CASE Finish(r)
  <2> DEFINE outcome == IF req[r].pc = "invalid" THEN "ORDER_INVALID" ELSE req[r].answer
  <2>1. req[r].act \in Actions BY <1>21 DEF Finish, At, TypeInv, CallOK, Calls
  <2>2. row' = [row EXCEPT ![req[r].act].outcome = outcome] BY <1>21 DEF Finish
  <2>3. outcome \in Answers BY <1>21 DEF Finish, At, TypeInv, CallOK, Calls, Closed, Answers
  <2> HIDE DEF outcome
  <2>5. RowOK' BY <1>21, <2>1, <2>2, <2>3 DEF Finish, TypeInv, RowOK, Row
  <2>4. CallOK' BY <1>21, DoneType DEF Finish, TypeInv
  <2> QED BY <1>21, <2>4, <2>5, SameNode, SameRest DEF Finish, TypeInv
<1> QED
  BY <1>1, <1>2, <1>3, <1>4, <1>5, <1>6, <1>7, <1>8, <1>9, <1>10, <1>11, <1>12, <1>13, <1>14,
     <1>15, <1>16, <1>17, <1>18, <1>19, <1>20, <1>21 DEF Step

\* A route is called: its request names actions and has no answer yet.
LEMMA CalledTypes == ASSUME TypeInv, NEW r \in Requests, Called(r) PROVE TypeInv'
<1>1. PICK op \in Ops, pc \in {"stored", "pending"}, a \in Actions, t \in Actions :
        req' = [req EXCEPT ![r] = [op |-> op, pc |-> pc, act |-> a, target |-> t,
                                   started |-> FALSE, answer |-> "none"]]
  BY DEF Called, SubmitCalled, CancelCalled, DecideCalled, Ops, Submit, Cancel
<1>2. CallOK' BY <1>1 DEF TypeInv, CallOK, Calls, Call, Pcs
<1>3. UNCHANGED <<policy, row, node, ready, placed, crashes, cut>>
  BY DEF Called, SubmitCalled, CancelCalled, DecideCalled
<1> QED BY <1>2, <1>3, SameNode, SameRows, SameRest DEF TypeInv

\* An event published for an order leaves the node's state of its kind.
LEMMA PublishType ==
  ASSUME NodeOK, NEW a \in Actions, NEW s \in Closed \cup {"ACCEPTED"}, Publish(a, s),
         sent' \subseteq sent, UNCHANGED <<up, placed>>
  PROVE  NodeOK'
<1>1. /\ filed' = [filed EXCEPT ![a] = @ \cup {s} \cup IF book[a] \in Open THEN {"ACCEPTED"} ELSE {}]
      /\ book' = [book EXCEPT ![a] = s] /\ resting' \subseteq Actions /\ refused' \subseteq refused
  BY DEF Publish
<1>2. filed' \in [Actions -> SUBSET Answers]
  <2>1. filed[a] \cup {s} \cup (IF book[a] \in Open THEN {"ACCEPTED"} ELSE {}) \in SUBSET Answers
    BY DEF NodeOK, Open, Closed, Answers
  <2> QED BY <1>1, <2>1 DEF NodeOK
<1>3. book' \in [Actions -> Status] BY <1>1 DEF NodeOK, Status, Open, Closed
<1> QED BY <1>1, <1>2, <1>3 DEF NodeOK

LEMMA SandboxTypes == ASSUME TypeInv, NEW a \in Actions, Sandbox(a) PROVE TypeInv'
<1>1. NodeOK'
  <2>1. CASE \E s \in Closed \cup {"ACCEPTED"} : Publish(a, s) /\ sent' \subseteq sent
    BY <2>1, PublishType DEF Sandbox, TypeInv
  <2>2. CASE /\ \E s \in {"MATCHED", "PARTIAL"} : book' = [book EXCEPT ![a] = s]
             /\ UNCHANGED <<filed, resting, refused, sent>>
    BY <2>2 DEF Sandbox, TypeInv, NodeOK, Status, Open
  <2>3. CASE sent' = sent \ {a} /\ refused' = refused \cup {a}
             /\ filed' = [filed EXCEPT ![a] = @ \cup {"ACCEPTED"}]
             /\ resting' = {b \in Actions : book[b] \in Open} /\ UNCHANGED book
    BY <2>3 DEF Sandbox, TypeInv, NodeOK, Answers
  <2>4. CASE sent' = sent \ {a} /\ UNCHANGED <<book, filed, resting, refused>>
    BY <2>4 DEF Sandbox, TypeInv, NodeOK
  <2> QED BY <2>1, <2>2, <2>3, <2>4 DEF Sandbox, Open, Closed
<1> QED BY <1>1, SameRows, SameCalls, SameRest DEF Sandbox, TypeInv

LEMMA CrashTypes == ASSUME TypeInv, Crash PROVE TypeInv'
<1>1. NodeOK' BY DEF Crash, TypeInv, NodeOK, Status
<1>2. CallOK' BY DEF Crash, CallOK, Calls, Call, Idle, Ops, Pcs
<1>3. RestOK'
  <2>1. ready' = FALSE /\ crashes < MaxCrashes /\ crashes' = crashes + 1 BY DEF Crash
  <2>2. MaxCrashes \in Nat BY TradeAssumption
  <2>3. ready' \in BOOLEAN BY <2>1, Zenon
  <2>4. crashes' \in 0 .. MaxCrashes BY <2>1, <2>2 DEF TypeInv, RestOK
  <2>5. cut' \subseteq Actions BY DEF Crash, TypeInv, RestOK
  <2> QED BY <2>3, <2>4, <2>5, Zenon DEF RestOK
<1> QED BY <1>1, <1>2, <1>3, SameRows DEF Crash, TypeInv

LEMMA InitTypes == Init => TypeInv
<1> SUFFICES ASSUME Init PROVE TypeInv OBVIOUS
<1>1. RowOK BY DEF Init, RowOK, Row, NoRow
<1>2. NodeOK BY DEF Init, NodeOK, Status
<1>3. CallOK BY DEF Init, CallOK, Calls, Call, Idle, Ops, Pcs
<1>4. RestOK
  <2>1. ready = FALSE /\ crashes = 0 /\ cut = {} BY DEF Init
  <2>2. MaxCrashes \in Nat BY TradeAssumption
  <2>3. ready \in BOOLEAN BY <2>1, Zenon
  <2>4. crashes \in 0 .. MaxCrashes BY <2>1, <2>2
  <2>5. cut \subseteq Actions BY <2>1
  <2> QED BY <2>3, <2>4, <2>5, Zenon DEF RestOK
<1> QED BY <1>1, <1>2, <1>3, <1>4 DEF TypeInv

LEMMA NextTypes == TypeInv /\ [Next]_vars => TypeInv'
<1> SUFFICES ASSUME TypeInv, [Next]_vars PROVE TypeInv' OBVIOUS
<1>1. CASE \E r \in Requests : Called(r) BY <1>1, CalledTypes
<1>2. CASE \E r \in Requests : Step(r) BY <1>2, StepTypes
<1>3. CASE \E a \in Actions : Sandbox(a) BY <1>3, SandboxTypes
<1>4. CASE PutPolicy BY <1>4, SameNode, SameCalls, SameRest DEF PutPolicy, TypeInv, RowOK
<1>5. CASE FeedTurns
  <2>1. RestOK' BY <1>5 DEF FeedTurns, TypeInv, RestOK, NodeOK
  <2> QED BY <1>5, <2>1, SameNode, SameCalls, SameRows DEF FeedTurns, TypeInv
<1>6. CASE Crash BY <1>6, CrashTypes
<1>7. CASE UNCHANGED vars
  BY <1>7, SameNode, SameCalls, SameRows, SameRest DEF vars, TypeInv, node
<1> QED BY <1>1, <1>2, <1>3, <1>4, <1>5, <1>6, <1>7 DEF Next

\* TypeOK: rows, calls and the node's book keep their shapes through every route,
\* event and death.
THEOREM Typing == Spec => []TypeOK
<1>1. Init => TypeInv BY InitTypes
<1>2. TypeInv /\ [Next]_vars => TypeInv' BY NextTypes
<1>3. TypeInv => TypeOK BY TypeParts
<1> QED BY <1>1, <1>2, <1>3, PTL DEF Spec

-------------------------------------------------------------------------------
(* The node: what was stored of an order is enough to restore it. *)

LEMMA NodeQuiet ==
  ASSUME NodeInv, UNCHANGED <<up, book, refused, filed, resting, placed>> PROVE NodeInv'
BY DEF NodeInv, Unplaced, Recorded, Survives, Down

\* A start puts back exactly the orders of the snapshot.
LEMMA NodeEnsure ==
  ASSUME NodeOK, NodeInv, NEW r \in Requests, Ensure(r, TRUE, TRUE), UNCHANGED placed
  PROVE  NodeInv'
<1>1. CASE UNCHANGED node BY <1>1, NodeQuiet DEF node
<1>2. CASE /\ ~up /\ up'
           /\ book' = [a \in Actions |-> IF a \in resting THEN "ACCEPTED" ELSE "NONE"]
           /\ UNCHANGED <<sent, refused, filed, resting>>
  BY <1>2 DEF NodeOK, NodeInv, Unplaced, Recorded, Survives, Down, Open, Closed
<1> QED BY <1>1, <1>2 DEF Ensure

\* An order is handed over with nothing stored of it.
LEMMA NodeHand ==
  ASSUME NodeOK, NodeInv, NEW a \in Actions, placed[a] = 0, up, HandToNode(a)
  PROVE  NodeInv'
<1> USE DEF HandToNode, NodeOK, NodeInv
<1>1. Unplaced' BY DEF Unplaced
<1>2. Recorded' BY DEF Recorded, Closed
<1>3. Survives'
  <2>1. filed[a] = {} BY DEF Unplaced
  <2>2. ASSUME NEW b \in Actions, b # a, "ACCEPTED" \in filed'[b], filed'[b] \cap Closed = {}
        PROVE  b \in resting' /\ (up' => book'[b] \in Open)
    BY <2>2 DEF Survives
  <2> QED BY <2>1, <2>2 DEF Survives
<1>4. Down' BY DEF Down
<1> QED BY <1>1, <1>2, <1>3, <1>4

\* A published event is stored together with the snapshot it leaves.
LEMMA NodePublish ==
  ASSUME NodeOK, NodeInv, NEW a \in Actions, NEW s \in Closed \cup {"ACCEPTED"},
         Publish(a, s), up, book[a] # "NONE", UNCHANGED <<up, placed>>
  PROVE  NodeInv'
<1> DEFINE new == filed[a] \cup {s} \cup (IF book[a] \in Open THEN {"ACCEPTED"} ELSE {})
<1>1. /\ filed' = [filed EXCEPT ![a] = new] /\ book' = [book EXCEPT ![a] = s]
      /\ resting' = {b \in Actions : book'[b] \in Open} /\ refused' = refused \ {a}
  BY DEF Publish
<1>2. s \in new /\ filed[a] \subseteq new OBVIOUS
<1>3. placed[a] # 0 BY DEF NodeInv, Unplaced
<1> HIDE DEF new
<1> USE DEF NodeOK
<1>4. Unplaced' BY <1>1, <1>3 DEF NodeInv, Unplaced, Open
<1>5. Recorded' BY <1>1, <1>2 DEF NodeInv, Recorded
<1>6. Survives' BY <1>1, <1>2 DEF NodeInv, Survives, Open, Closed
<1>7. Down' BY DEF Down
<1> QED BY <1>4, <1>5, <1>6, <1>7 DEF NodeInv

LEMMA NodeSandbox ==
  ASSUME TypeInv, NodeInv, NEW a \in Actions, Sandbox(a) PROVE NodeInv'
<1> USE DEF TypeInv
<1>1. CASE book[a] # "NONE" /\ \E s \in Closed \cup {"ACCEPTED"} : Publish(a, s)
  BY <1>1, NodePublish DEF Sandbox
<1>2. CASE /\ book[a] = "SUBMITTED"
           /\ \E s \in {"MATCHED", "PARTIAL"} : book' = [book EXCEPT ![a] = s]
           /\ UNCHANGED <<filed, resting, refused, sent>>
  BY <1>2 DEF Sandbox, NodeOK, NodeInv, Unplaced, Recorded, Survives, Down, Open, Closed
<1>3. CASE /\ book[a] \in Open /\ refused' = refused \cup {a}
           /\ filed' = [filed EXCEPT ![a] = @ \cup {"ACCEPTED"}]
           /\ resting' = {b \in Actions : book[b] \in Open} /\ UNCHANGED book
  <2>1. up /\ UNCHANGED <<up, placed>> BY DEF Sandbox
  <2> USE <1>3, <2>1 DEF NodeOK, NodeInv
  <2>2. Unplaced' BY DEF Unplaced, Open
  <2>3. Recorded' BY DEF Recorded
  <2>4. Survives' BY DEF Survives
  <2>5. Down' BY DEF Down
  <2> QED BY <2>2, <2>3, <2>4, <2>5
<1>4. CASE UNCHANGED <<book, filed, resting, refused>> BY <1>4, NodeQuiet DEF Sandbox
<1> QED BY <1>1, <1>2, <1>3, <1>4 DEF Sandbox, Open, Closed

\* A death takes the node; what it had stored stays.
LEMMA NodeCrash == ASSUME NodeOK, NodeInv, Crash PROVE NodeInv'
BY DEF Crash, NodeOK, NodeInv, Unplaced, Recorded, Survives, Down, Closed

-------------------------------------------------------------------------------
(* How a step disturbs the calls: one request moves, the others stand still. *)

Only(r) == \A q \in Requests \ {r} : req'[q] = req[q]
Same(r) == req'[r].op = req[r].op /\ req'[r].act = req[r].act /\ req'[r].target = req[r].target

LEMMA GotoIs ==
  ASSUME CallOK, NEW r \in Requests, NEW pc, Goto(r, pc)
  PROVE  Only(r) /\ Same(r) /\ req'[r].pc = pc /\ req'[r].started = req[r].started
BY DEF CallOK, Call, Goto, Only, Same

LEMMA DoneIs ==
  ASSUME CallOK, NEW r \in Requests, Done(r)
  PROVE  Only(r) /\ req'[r].pc = "idle" /\ req'[r].op = "none" /\ req'[r].started = FALSE
BY DEF CallOK, Call, Done, Idle, Only

\* The rows stay true while calls move: a call works on an action only if it did.
LEMMA RowMoves ==
  ASSUME CallOK, RowInv, NEW r \in Requests, Only(r), UNCHANGED <<row, placed>>,
         req'[r].pc \in Working => req[r].pc \in Working /\ Same(r),
         req'[r].pc \in Ahead => req[r].pc \in Ahead
  PROVE  RowInv'
<1> USE DEF Only, Same, RowInv
<1>1. \A q \in Requests : req'[q].pc \in Working =>
        req[q].pc \in Working /\ req'[q].act = req[q].act /\ Of(q)' = Of(q)
  BY DEF Of
<1>2. OneCaller' BY <1>1 DEF OneCaller
<1>3. Ahead \subseteq Working BY DEF Working
<1>4. NotYet' BY <1>1, <1>3 DEF NotYet
<1>5. Undecided' BY DEF Undecided
<1>6. Named' BY DEF Named
<1> QED BY <1>2, <1>4, <1>5, <1>6

\* The row: nobody works on an action that has none.
LEMMA RowBegins ==
  ASSUME TypeInv, RowInv, NEW r \in Requests, Only(r), UNCHANGED placed,
         NEW kind, NEW approval \in {"PENDING", "ALWAYS_ALLOW"}, NEW t \in Actions,
         req[r].act \in Actions, row[req[r].act] = NoRow,
         row' = [row EXCEPT ![req[r].act] = NewRow(kind, approval, t)],
         approval = "PENDING" => t = req[r].act,
         req'[r].pc \in Working => approval = "ALWAYS_ALLOW" /\ Same(r) /\ Of(r) = t
  PROVE  RowInv'
<1> DEFINE a == req[r].act
<1>1. row[a].approval = "ABSENT" /\ row[a].outcome = "NULL" BY DEF NoRow
<1>2. \A q \in Requests : req[q].pc \in Working => req[q].act # a
  BY <1>1 DEF RowInv, OneCaller
<1>3. placed[a] = 0 BY <1>1 DEF RowInv, Undecided
<1>4. /\ row'[a].approval = approval /\ row'[a].outcome = "NULL" /\ row'[a].order = t
      /\ \A b \in Actions \ {a} : row'[b] = row[b]
  BY DEF NewRow, TypeInv, RowOK
<1>5. \A q \in Requests \ {r} : req'[q] = req[q] /\ Of(q)' = Of(q) BY DEF Only, Of
<1>6. req'[r].pc \in Working => req'[r].act = a /\ Of(r)' = t BY DEF Same, Of
<1>7. \A q \in Requests \ {r} : req[q].pc \in Working => req[q].act \in Actions
  BY DEF TypeInv, CallOK, Calls, Working, Ahead
<1>8. OneCaller' BY <1>2, <1>4, <1>5, <1>6, <1>7 DEF RowInv, OneCaller
<1>9. Ahead \subseteq Working BY DEF Working
<1>10. NotYet' BY <1>3, <1>5, <1>6, <1>9 DEF RowInv, NotYet
<1>11. Undecided' BY <1>3, <1>4 DEF RowInv, Undecided
<1>12. Named' BY <1>4 DEF RowInv, Named
<1> QED BY <1>8, <1>10, <1>11, <1>12 DEF RowInv

\* The order is handed over: no other call is ahead with it.
LEMMA RowPlaced ==
  ASSUME TypeInv, RowInv, NEW r \in Requests, Goto(r, "settle"), UNCHANGED row,
         req[r].pc \in {"place", "confirm"}, HandToNode(req[r].act)
  PROVE  RowInv'
<1> DEFINE a == req[r].act
<1>1. a \in Actions BY DEF TypeInv, CallOK, Calls
<1>2. Only(r) /\ Same(r) /\ req'[r].pc = "settle" BY GotoIs DEF TypeInv
<1>3. \A q \in Requests : req'[q].pc \in Working =>
        req[q].pc \in Working /\ req'[q].act = req[q].act /\ Of(q)' = Of(q)
  BY <1>2 DEF Of, Only, Same, Working, Ahead
<1>4. OneCaller' BY <1>3 DEF RowInv, OneCaller
<1>5. \A q \in Requests : req'[q].pc \in Ahead =>
        req[q].pc \in Ahead /\ req'[q].act = req[q].act /\ req[q].act # a
  BY <1>2 DEF RowInv, OneCaller, Only, Working, Ahead
<1>6. row[a].approval \in {"ALWAYS_ALLOW", "APPROVED"}
  BY DEF RowInv, OneCaller, Working, Ahead
<1>7. \A b \in Actions \ {a} : placed'[b] = placed[b]
  BY <1>1 DEF HandToNode, TypeInv, NodeOK
<1>8. \A q \in Requests : req[q].pc \in Ahead => req[q].act \in Actions
  BY DEF TypeInv, CallOK, Calls, Ahead
<1>9. NotYet' BY <1>5, <1>7, <1>8 DEF RowInv, NotYet
<1>10. Undecided' BY <1>6, <1>7 DEF RowInv, Undecided
<1>11. Named' BY DEF RowInv, Named
<1> QED BY <1>4, <1>9, <1>10, <1>11 DEF RowInv

\* A decision: nobody works on an action that is still pending.
LEMMA RowDecided ==
  ASSUME TypeInv, RowInv, NEW r \in Requests, DecideRow(r) PROVE RowInv'
<1> DEFINE a == req[r].act
<1>1. a \in Actions /\ req[r].pc = "decide" BY DEF DecideRow, At, Decide, TypeInv, CallOK, Calls
<1>2. CASE Done(r) /\ UNCHANGED row
  BY <1>2, DoneIs, RowMoves DEF DecideRow, TypeInv, Working, Ahead
<1>3. CASE row[a].approval = "PENDING" /\ ~(Done(r) /\ UNCHANGED row)
  <2>1. \A q \in Requests : req[q].pc \in Working => req[q].act # a
    BY <1>3 DEF RowInv, OneCaller
  <2>2. placed[a] = 0 /\ row[a].outcome = "NULL" /\ row[a].order = a
    BY <1>1, <1>3 DEF RowInv, Undecided
  <2>3. UNCHANGED placed BY DEF DecideRow
  <2>4. \A b \in Actions \ {a} : row'[b] = row[b] BY <1>1 DEF DecideRow, TypeInv, RowOK
  <2>5. Only(r) BY DoneIs, GotoIs, <1>3 DEF DecideRow, TypeInv
  <2>6. \A q \in Requests \ {r} : req[q].pc \in Working => req[q].act \in Actions
    BY DEF TypeInv, CallOK, Calls, Working, Ahead
  <2>7. \A q \in Requests \ {r} : req'[q] = req[q] /\ Of(q)' = Of(q) BY <2>5 DEF Only, Of
  <2>8. Ahead \subseteq Working BY DEF Working
  <2>9. CASE row' = [row EXCEPT ![a].approval = "DENIED", ![a].outcome = "DENIED"] /\ Done(r)
    <3>1. row'[a].approval = "DENIED" /\ row'[a].order = a BY <1>1, <2>2, <2>9 DEF TypeInv, RowOK, Row
    <3>2. req'[r].pc = "idle" BY <2>9, DoneIs DEF TypeInv
    <3>3. OneCaller' BY <2>1, <2>4, <2>6, <2>7, <3>2 DEF RowInv, OneCaller, Working, Ahead
    <3>4. NotYet' BY <2>3, <2>7, <3>2 DEF RowInv, NotYet, Ahead
    <3>5. Undecided' BY <2>3, <2>4, <3>1 DEF RowInv, Undecided
    <3>6. Named' BY <1>1, <2>4, <3>1 DEF RowInv, Named
    <3> QED BY <3>3, <3>4, <3>5, <3>6 DEF RowInv
  <2>10. CASE /\ row' = [row EXCEPT ![a].approval = "APPROVED"] /\ Goto(r, "place")
              /\ req[r].op = "approve"
    <3>1. row'[a].approval = "APPROVED" /\ row'[a].order = a /\ row'[a].outcome = "NULL"
      BY <1>1, <2>2, <2>10 DEF TypeInv, RowOK, Row
    <3>2. req'[r].pc = "place" /\ req'[r].act = a /\ Of(r)' = a
      BY <2>10, GotoIs DEF TypeInv, Same, Of
    <3>3. OneCaller' BY <2>1, <2>4, <2>6, <2>7, <3>1, <3>2 DEF RowInv, OneCaller
    <3>4. NotYet' BY <2>2, <2>3, <2>7, <3>2 DEF RowInv, NotYet
    <3>5. Undecided' BY <2>3, <2>4, <3>1 DEF RowInv, Undecided
    <3>6. Named' BY <2>4, <3>1 DEF RowInv, Named
    <3> QED BY <3>3, <3>4, <3>5, <3>6 DEF RowInv
  <2> QED BY <1>3, <2>9, <2>10 DEF DecideRow
<1> QED BY <1>2, <1>3 DEF DecideRow

\* The answer lands on the row of the one call that works on the action.
LEMMA RowFinished ==
  ASSUME TypeInv, RowInv, NEW r \in Requests, Finish(r) PROVE RowInv'
<1> DEFINE a == req[r].act
           outcome == IF req[r].pc = "invalid" THEN "ORDER_INVALID" ELSE req[r].answer
<1>1. a \in Actions /\ req[r].pc \in Working /\ Of(r) \in Actions
  BY DEF Finish, At, Placing, Cancel, TypeInv, CallOK, Calls, Working, Ahead, Of
<1>2. row' = [row EXCEPT ![a].outcome = outcome] BY DEF Finish
<1>3. /\ \A b \in Actions \ {a} : row'[b] = row[b]
      /\ row'[a].approval = row[a].approval /\ row'[a].order = row[a].order
  BY <1>1, <1>2 DEF TypeInv, RowOK, Row
<1>4. row[a].approval \in {"ALWAYS_ALLOW", "APPROVED"} /\ row[a].order = Of(r)
  BY <1>1 DEF RowInv, OneCaller
<1>5. \A q \in Requests \ {r} : req[q].pc \in Working => req[q].act \in Actions \ {a}
  BY <1>1 DEF RowInv, OneCaller, TypeInv, CallOK, Calls, Working, Ahead
<1>6. Only(r) /\ req'[r].pc = "idle" /\ UNCHANGED placed BY DoneIs DEF Finish, TypeInv
<1>7. \A q \in Requests \ {r} : req'[q] = req[q] /\ Of(q)' = Of(q) BY <1>6 DEF Only, Of
<1>8. OneCaller' BY <1>3, <1>5, <1>6, <1>7 DEF RowInv, OneCaller, Working, Ahead
<1>9. NotYet' BY <1>6, <1>7 DEF RowInv, NotYet, Ahead
<1>10. Undecided' BY <1>3, <1>4, <1>6 DEF RowInv, Undecided
<1>11. Named' BY <1>1, <1>3, <1>4 DEF RowInv, Named
<1> QED BY <1>8, <1>9, <1>10, <1>11 DEF RowInv

\* Every other step of a call leaves the rows and the counts, and stays at work on
\* its action only if it was.
LEMMA RowSteps == ASSUME TypeInv, RowInv, NEW r \in Requests, Step(r) PROVE RowInv'
<1> USE DEF TypeInv
<1>1. CASE Stored(r) \/ Gated(r) \/ AwaitingApproval(r) \/ OpenOnNode(r) \/ PendingAction(r)
           \/ Admissible(r)
  <2>1. UNCHANGED <<row, placed>>
    BY <1>1 DEF Stored, Gated, AwaitingApproval, OpenOnNode, PendingAction, Admissible
  <2>2. Done(r) \/ \E pc \in {"gate", "waiting", "begin", "ensure", "decide"} : Goto(r, pc)
    BY <1>1 DEF Stored, Gated, AwaitingApproval, OpenOnNode, PendingAction, Admissible
  <2> QED BY <2>1, <2>2, DoneIs, GotoIs, RowMoves DEF Working, Ahead
<1>2. CASE EnsureFirst(r)
  <2>1. Done(r) \/ req' = [req EXCEPT ![r].pc = "begin", ![r].started = TRUE]
    BY <1>2, Zenon DEF EnsureFirst, Ensure
  <2>2. UNCHANGED <<row, placed>> BY <1>2 DEF EnsureFirst
  <2>3. Only(r) /\ req'[r].pc \in {"idle", "begin"}
    <3>1. CASE Done(r) BY <3>1, DoneIs
    <3>2. CASE req' = [req EXCEPT ![r].pc = "begin", ![r].started = TRUE]
      <4> DEFINE started == [req[r] EXCEPT !.pc = "begin", !.started = TRUE]
      <4>1. req' = [req EXCEPT ![r] = started] BY <3>2, Zenon
      <4>2. started.pc = "begin" BY DEF CallOK, Call
      <4> HIDE DEF started
      <4> QED BY <4>1, <4>2 DEF CallOK, Only
    <3> QED BY <2>1, <3>1, <3>2
  <2> QED BY <2>2, <2>3, RowMoves DEF Working, Ahead
<1>3. CASE EnsureForCancel(r) \/ EnsureForDecision(r)
  <2>1. UNCHANGED <<row, placed>> BY <1>3 DEF EnsureForCancel, EnsureForDecision
  <2>2. Done(r) \/ \E pc \in {"open", "admit", "decide"} : Goto(r, pc)
    BY <1>3 DEF EnsureForCancel, EnsureForDecision, Ensure
  <2> QED BY <2>1, <2>2, DoneIs, GotoIs, RowMoves DEF Working, Ahead
<1>4. CASE EnsureAfter(r)
  <2>1. UNCHANGED <<row, placed>> /\ req[r].pc = "restart" /\ (Done(r) \/ Goto(r, "place"))
    BY <1>4 DEF EnsureAfter, Ensure, At
  <2> QED BY <2>1, DoneIs, GotoIs, RowMoves DEF Working, Ahead
<1>5. CASE SendCancel(r)
  <2>1. UNCHANGED <<row, placed>> /\ req[r].pc = "send" /\ Goto(r, "settle")
    BY <1>5 DEF SendCancel, At
  <2> QED BY <2>1, GotoIs, RowMoves DEF Working, Ahead
<1>6. CASE SettleTimeout(r) \/ SizedBookLost(r)
  <2>1. UNCHANGED <<row, placed>> /\ Done(r) BY <1>6 DEF SettleTimeout, SizedBookLost
  <2> QED BY <2>1, DoneIs, RowMoves DEF Working, Ahead
<1>7. CASE Settle(r)
  <2> DEFINE answer == IF book[Of(r)] \in Open THEN "ACCEPTED" ELSE book[Of(r)]
             heard == [req[r] EXCEPT !.pc = "finish", !.answer = answer]
  <2>1. UNCHANGED <<row, placed>> /\ req[r].pc = "settle" BY <1>7 DEF Settle, At
  <2>2. req' = [req EXCEPT ![r] = heard] BY <1>7, Zenon DEF Settle
  <2>3. heard.pc = "finish" /\ heard.op = req[r].op /\ heard.act = req[r].act
        /\ heard.target = req[r].target
    BY DEF CallOK, Call
  <2> HIDE DEF heard
  <2>4. Only(r) /\ Same(r) /\ req'[r].pc = "finish" BY <2>2, <2>3 DEF CallOK, Only, Same
  <2> QED BY <2>1, <2>4, RowMoves DEF Working, Ahead
<1>8. CASE Place(r) \/ SizedBookLanded(r)
  BY <1>8, RowPlaced DEF Place, SizedBookLanded, At
<1>9. CASE PlaceShare(r)
  <2>1. CASE HandToNode(req[r].act) /\ Goto(r, "settle")
    BY <1>9, <2>1, RowPlaced DEF PlaceShare, At
  <2>2. CASE /\ UNCHANGED placed
             /\ Done(r) \/ \E pc \in {"invalid", "confirm"} : Goto(r, pc)
    BY <1>9, <2>2, DoneIs, GotoIs, RowMoves DEF PlaceShare, At, Working, Ahead
  <2> QED BY <1>9, <2>1, <2>2 DEF PlaceShare
<1>10. CASE DecideRow(r) BY <1>10, RowDecided
<1>11. CASE Finish(r) BY <1>11, RowFinished
<1>12. CASE BeginSubmit(r)
  <2>1. req[r].act \in Actions /\ req[r].op = "submit" /\ UNCHANGED placed
    BY <1>12 DEF BeginSubmit, At, Submit, CallOK, Calls
  <2>2. CASE Done(r) /\ UNCHANGED row BY <2>1, <2>2, DoneIs, RowMoves DEF Working, Ahead
  <2>3. CASE /\ row[req[r].act] = NoRow /\ Done(r)
             /\ row' = [row EXCEPT ![req[r].act] = NewRow("SUBMIT", "PENDING", req[r].act)]
    BY <2>1, <2>3, DoneIs, RowBegins DEF Working, Ahead
  <2>4. CASE /\ row[req[r].act] = NoRow /\ \E pc \in {"place", "restart"} : Goto(r, pc)
             /\ row' = [row EXCEPT ![req[r].act] = NewRow("SUBMIT", "ALWAYS_ALLOW", req[r].act)]
    BY <2>1, <2>4, GotoIs, RowBegins DEF Of
  <2> QED BY <1>12, <2>2, <2>3, <2>4 DEF BeginSubmit
<1>13. CASE BeginCancel(r)
  <2>1. /\ req[r].act \in Actions /\ req[r].target \in Actions /\ req[r].op = "cancel"
        /\ UNCHANGED placed
    BY <1>13 DEF BeginCancel, At, Cancel, CallOK, Calls
  <2>2. CASE Done(r) /\ UNCHANGED row BY <2>1, <2>2, DoneIs, RowMoves DEF Working, Ahead
  <2>3. CASE /\ row[req[r].act] = NoRow /\ Goto(r, "send")
             /\ row' = [row EXCEPT ![req[r].act] = NewRow("CANCEL", "ALWAYS_ALLOW", req[r].target)]
    BY <2>1, <2>3, GotoIs, RowBegins DEF Of
  <2> QED BY <1>13, <2>2, <2>3 DEF BeginCancel
<1> QED
  BY <1>1, <1>2, <1>3, <1>4, <1>5, <1>6, <1>7, <1>8, <1>9, <1>10, <1>11, <1>12, <1>13 DEF Step

LEMMA NodeSteps ==
  ASSUME TypeInv, RowInv, NodeInv, OnNode, NEW r \in Requests, Step(r) PROVE NodeInv'
<1> USE DEF TypeInv
<1>1. CASE \/ Stored(r) \/ Gated(r) \/ BeginSubmit(r) \/ AwaitingApproval(r) \/ OpenOnNode(r)
           \/ BeginCancel(r) \/ SendCancel(r) \/ PendingAction(r) \/ Admissible(r) \/ DecideRow(r)
           \/ SizedBookLost(r) \/ Settle(r) \/ SettleTimeout(r) \/ Finish(r)
  BY <1>1, NodeQuiet DEF node, Stored, Gated, BeginSubmit, AwaitingApproval, OpenOnNode,
     BeginCancel, SendCancel, PendingAction, Admissible, DecideRow, SizedBookLost, Settle,
     SettleTimeout, Finish
<1>2. CASE EnsureFirst(r) \/ EnsureAfter(r) \/ EnsureForCancel(r) \/ EnsureForDecision(r)
  <2>1. Ensure(r, TRUE, TRUE)
    BY <1>2, Zenon DEF EnsureFirst, EnsureAfter, EnsureForCancel, EnsureForDecision, Ensure
  <2>2. UNCHANGED placed
    BY <1>2, Zenon DEF EnsureFirst, EnsureAfter, EnsureForCancel, EnsureForDecision
  <2> QED BY <2>1, <2>2, NodeEnsure
<1>3. CASE Place(r) \/ PlaceShare(r) \/ SizedBookLanded(r)
  <2>1. req[r].act \in Actions /\ placed[req[r].act] = 0
    BY <1>3 DEF Place, PlaceShare, SizedBookLanded, At, CallOK, Calls, RowInv, NotYet, Ahead
  <2>2. HandToNode(req[r].act) \/ UNCHANGED <<node, placed>>
    BY <1>3 DEF Place, PlaceShare, SizedBookLanded
  <2>3. up BY <1>3 DEF Place, PlaceShare, SizedBookLanded, At, OnNode, NodeOf
  <2> QED BY <2>1, <2>2, <2>3, NodeHand, NodeQuiet DEF node
<1> QED BY <1>1, <1>2, <1>3 DEF Step

-------------------------------------------------------------------------------
(* Answers: what a call has heard was stored before it heard it. *)

\* While the node runs, history grows and an acceptance comes with its event.
NodeStep ==
  /\ up => up'
  /\ \A a \in Actions :
       /\ filed[a] \subseteq filed'[a]
       /\ up /\ book'[a] = "ACCEPTED" => book[a] = "ACCEPTED" \/ "ACCEPTED" \in filed'[a]
       /\ book[a] = "PARTIAL" => book'[a] = "PARTIAL" \/ "ACCEPTED" \in filed'[a]
  /\ cut \subseteq cut'

LEMMA StepKeeps ==
  ASSUME TypeInv, RowInv, NodeInv, NEW r \in Requests, Step(r) PROVE NodeStep
<1>1. CASE \/ Stored(r) \/ Gated(r) \/ BeginSubmit(r) \/ AwaitingApproval(r) \/ OpenOnNode(r)
           \/ BeginCancel(r) \/ SendCancel(r) \/ PendingAction(r) \/ Admissible(r) \/ DecideRow(r)
           \/ SizedBookLost(r) \/ Settle(r) \/ SettleTimeout(r) \/ Finish(r)
  BY <1>1 DEF NodeStep, node, Stored, Gated, BeginSubmit, AwaitingApproval, OpenOnNode,
     BeginCancel, SendCancel, PendingAction, Admissible, DecideRow, SizedBookLost, Settle,
     SettleTimeout, Finish
<1>2. CASE EnsureFirst(r) \/ EnsureAfter(r) \/ EnsureForCancel(r) \/ EnsureForDecision(r)
  <2>1. Ensure(r, TRUE, TRUE)
    BY <1>2, Zenon DEF EnsureFirst, EnsureAfter, EnsureForCancel, EnsureForDecision, Ensure
  <2>2. cut' = cut
    BY <1>2 DEF EnsureFirst, EnsureAfter, EnsureForCancel, EnsureForDecision
  <2> QED BY <2>1, <2>2 DEF Ensure, NodeStep, NodeInv, Down, node
<1>3. CASE Place(r) \/ PlaceShare(r) \/ SizedBookLanded(r)
  <2>1. (HandToNode(req[r].act) \/ UNCHANGED <<node, placed>>) /\ UNCHANGED cut
    BY <1>3 DEF Place, PlaceShare, SizedBookLanded
  <2>2. req[r].pc \in Ahead /\ req[r].act \in Actions
    BY <1>3 DEF Place, PlaceShare, SizedBookLanded, At, Ahead, TypeInv, CallOK, Calls
  <2>3. book[req[r].act] = "NONE" BY <2>2 DEF RowInv, NotYet, NodeInv, Unplaced
  <2> QED BY <2>1, <2>2, <2>3 DEF HandToNode, NodeStep, node, TypeInv, NodeOK
<1> QED BY <1>1, <1>2, <1>3 DEF Step

\* What an answer rests on stays.
LEMMA BackedKept ==
  ASSUME NodeStep, NEW o \in Actions, NEW s, Backed(o, s) PROVE Backed(o, s)'
BY DEF NodeStep, Backed

LEMMA SandboxKeeps == ASSUME TypeInv, NEW a \in Actions, Sandbox(a) PROVE NodeStep
<1>1. \A b \in Actions : filed[b] \subseteq filed'[b]
  BY DEF Sandbox, Publish, TypeInv, NodeOK
<1>3. \A b \in Actions : book[b] = "PARTIAL" => book'[b] = "PARTIAL" \/ "ACCEPTED" \in filed'[b]
  BY DEF Sandbox, Publish, TypeInv, NodeOK, Open, Closed
<1>2. \A b \in Actions : book'[b] = "ACCEPTED" => book[b] = "ACCEPTED" \/ "ACCEPTED" \in filed'[b]
  BY DEF Sandbox, Publish, TypeInv, NodeOK
<1> QED BY <1>1, <1>2, <1>3 DEF Sandbox, NodeStep

\* A call that stands still loses nothing by what the node does.
LEMMA Stands ==
  ASSUME TypeInv, AnswerInv, NodeStep, NEW q \in Requests, req'[q] = req[q]
  PROVE  NodeOf(q)' /\ HeardOf(q)'
<1>1. NodeOf(q) /\ HeardOf(q) BY DEF AnswerInv, OnNode, Heard
<1>2. req[q].pc # "idle" => req[q].act \in Actions /\ Of(q) \in Actions
  BY DEF TypeInv, CallOK, Calls, Of
<1>3. Of(q)' = Of(q) BY DEF Of
<1>4. NodeOf(q)' BY <1>1, <1>2 DEF NodeOf, NodeStep
<1>5. HeardOf(q)' BY <1>1, <1>2, <1>3, BackedKept DEF HeardOf, Backed
<1> QED BY <1>4, <1>5

LEMMA Moves ==
  ASSUME TypeInv, AnswerInv, NodeStep, NEW r \in Requests, Only(r), NodeOf(r)', HeardOf(r)'
  PROVE  OnNode' /\ Heard'
<1>1. \A q \in Requests : NodeOf(q)' /\ HeardOf(q)' BY Stands DEF Only
<1> QED BY <1>1 DEF OnNode, Heard

\* The history an answer points into only grows.
LEMMA FiledKept ==
  ASSUME RowInv, AnswerFiled, NodeStep,
         \A a \in Actions : row'[a].outcome \in {"ACCEPTED"} \cup Closed =>
           \/ row'[a].outcome = row[a].outcome /\ row'[a].order = row[a].order
           \/ row'[a].order \in Actions /\ Backed(row'[a].order, row'[a].outcome)
  PROVE  AnswerFiled'
<1> SUFFICES ASSUME NEW a \in Actions, row'[a].outcome \in {"ACCEPTED"} \cup Closed
             PROVE  Backed(row[a].order, row[a].outcome)'
  BY DEF AnswerFiled
<1>1. CASE row'[a].outcome = row[a].outcome /\ row'[a].order = row[a].order
  <2>1. row[a].order \in Actions BY <1>1 DEF RowInv, Named, Closed
  <2>2. Backed(row[a].order, row[a].outcome) BY <1>1 DEF AnswerFiled
  <2> QED BY <1>1, <2>1, <2>2 DEF NodeStep, Backed
<1>2. CASE row'[a].order \in Actions /\ Backed(row'[a].order, row'[a].outcome)
  BY <1>2 DEF NodeStep, Backed
<1> QED BY <1>1, <1>2

LEMMA DoneAnswers ==
  ASSUME TypeInv, AnswerInv, NodeStep, NEW r \in Requests, Done(r) PROVE OnNode' /\ Heard'
<1>1. Only(r) /\ req'[r].pc = "idle" /\ req'[r].op = "none" /\ req'[r].started = FALSE
  BY DoneIs DEF TypeInv
<1>2. NodeOf(r)' /\ HeardOf(r)' BY <1>1 DEF NodeOf, HeardOf, Placing
<1> QED BY <1>1, <1>2, Moves

\* A call moves on to where it needs nothing, or has a node.
LEMMA GotoAnswers ==
  ASSUME TypeInv, AnswerInv, NodeStep, NEW r \in Requests, NEW pc \in Pcs \ {"finish"},
         Goto(r, pc),
         req[r].op = "approve" /\ pc \in {"admit", "decide"} => up',
         req[r].op \in Placing /\ pc \in {"place", "confirm"} => up',
         req[r].op \in Placing /\ pc = "settle" => up' /\ book'[req[r].act] # "ACCEPTED"
  PROVE  OnNode' /\ Heard'
<1>1. /\ Only(r) /\ Same(r) /\ req'[r].pc = pc /\ req'[r].started = req[r].started
  BY GotoIs DEF TypeInv
<1>2. req[r].started => up' BY DEF AnswerInv, OnNode, NodeOf, NodeStep
<1>3. req'[r].op = req[r].op /\ req'[r].act = req[r].act BY <1>1 DEF Same
<1>4. NodeOf(r)' BY <1>1, <1>2, <1>3 DEF NodeOf
<1>5. HeardOf(r)' BY <1>1 DEF HeardOf
<1> QED BY <1>1, <1>4, <1>5, Moves

LEMMA SettleAnswers ==
  ASSUME TypeInv, NodeInv, AnswerInv, NodeStep, NEW r \in Requests, Settle(r)
  PROVE  OnNode' /\ Heard'
<1> DEFINE answer == IF book[Of(r)] \in Open THEN "ACCEPTED" ELSE book[Of(r)]
           heard == [req[r] EXCEPT !.pc = "finish", !.answer = answer]
<1>1. Of(r) \in Actions /\ req[r].op \in Placing \cup Cancel /\ req[r].pc = "settle"
  BY DEF Settle, At, Placing, Cancel, TypeInv, CallOK, Calls, Of
<1>2. Backed(Of(r), answer)
  <2> USE DEF Backed
  <2>1. CASE book[Of(r)] \in Closed
    BY <1>1, <2>1 DEF NodeInv, Recorded, Open, Closed
  <2>2. CASE req[r].op = "cancel" /\ book[Of(r)] \in Open /\ Of(r) \in refused
    BY <1>1, <2>2 DEF NodeInv, Recorded, Open
  <2>3. CASE req[r].op # "cancel" /\ book[Of(r)] = "ACCEPTED"
    BY <1>1, <2>3 DEF AnswerInv, OnNode, NodeOf, Of, Cancel, Open
  <2>4. CASE book[Of(r)] = "PARTIAL" BY <2>4 DEF Open
  <2> QED BY <2>1, <2>2, <2>3, <2>4 DEF Settle, Settled
<1>3. req' = [req EXCEPT ![r] = heard] BY Zenon DEF Settle
<1>4. /\ heard.pc = "finish" /\ heard.op = req[r].op /\ heard.act = req[r].act
      /\ heard.target = req[r].target /\ heard.started = req[r].started /\ heard.answer = answer
  BY DEF TypeInv, CallOK, Call
<1> HIDE DEF heard, answer
<1>5. /\ Only(r) /\ Same(r) /\ req'[r].pc = "finish" /\ req'[r].started = req[r].started
      /\ req'[r].answer = answer
  BY <1>3, <1>4 DEF TypeInv, CallOK, Only, Same
<1>6. Of(r)' = Of(r) /\ UNCHANGED <<filed, book, cut>> BY <1>5 DEF Of, Same, Settle, node
<1>7. HeardOf(r)' BY <1>2, <1>5, <1>6 DEF HeardOf, Backed
<1>8. req[r].started => up' BY DEF AnswerInv, OnNode, NodeOf, NodeStep
<1>9. NodeOf(r)' BY <1>5, <1>8 DEF NodeOf
<1> QED BY <1>5, <1>7, <1>9, Moves

LEMMA CallSteps ==
  ASSUME TypeInv, RowInv, NodeInv, AnswerInv, NEW r \in Requests, Step(r)
  PROVE  OnNode' /\ Heard'
<1>0. NodeStep BY StepKeeps
<1> USE <1>0
<1>1. CASE Done(r) BY <1>1, DoneAnswers
<1>2. CASE Stored(r) \/ Gated(r) \/ AwaitingApproval(r) \/ OpenOnNode(r) \/ BeginCancel(r)
  <2>1. Done(r) \/ \E pc \in {"gate", "waiting", "begin", "ensure", "send"} : Goto(r, pc)
    BY <1>2 DEF Stored, Gated, AwaitingApproval, OpenOnNode, BeginCancel
  <2> QED BY <2>1, <1>1, GotoAnswers DEF Pcs
<1>3. CASE EnsureFirst(r) /\ ~Done(r)
  <2> DEFINE started == [req[r] EXCEPT !.pc = "begin", !.started = TRUE]
  <2>1. up' BY <1>3 DEF EnsureFirst, Ensure, node
  <2>5. req' = [req EXCEPT ![r] = started] BY <1>3, Zenon DEF EnsureFirst, Ensure
  <2>2. started.pc = "begin" BY DEF TypeInv, CallOK, Call
  <2> HIDE DEF started
  <2>3. Only(r) /\ req'[r].pc = "begin" BY <2>5, <2>2 DEF TypeInv, CallOK, Only
  <2>4. NodeOf(r)' /\ HeardOf(r)' BY <2>1, <2>3 DEF NodeOf, HeardOf
  <2> QED BY <2>3, <2>4, Moves
<1>4. CASE BeginSubmit(r) /\ ~Done(r)
  <2>1. /\ req[r].op = "submit" /\ UNCHANGED up
        /\ \/ req[r].started /\ Goto(r, "place")
           \/ Goto(r, "restart")
    BY <1>4 DEF BeginSubmit, At, Submit, node
  <2>2. req[r].started => up BY DEF AnswerInv, OnNode, NodeOf
  <2> QED BY <2>1, <2>2, GotoAnswers DEF Pcs
<1>5. CASE EnsureAfter(r) /\ ~Done(r)
  <2>1. up' /\ Goto(r, "place") BY <1>5 DEF EnsureAfter, Ensure, node
  <2> QED BY <2>1, GotoAnswers DEF Pcs
<1>6. CASE EnsureForCancel(r) /\ ~Done(r)
  <2>1. Goto(r, "open") BY <1>6, Zenon DEF EnsureForCancel, Ensure
  <2> QED BY <2>1, GotoAnswers DEF Pcs
<1>7. CASE EnsureForDecision(r) /\ ~Done(r)
  <2>1. up' /\ req[r].op \in Decide /\ \E pc \in {"admit", "decide"} : Goto(r, pc)
    BY <1>7 DEF EnsureForDecision, Ensure, node, At
  <2> QED BY <2>1, GotoAnswers DEF Pcs
<1>8. CASE PendingAction(r) /\ ~Done(r)
  <2>1. (req[r].op = "deny" /\ Goto(r, "decide")) \/ Goto(r, "ensure")
    BY <1>8 DEF PendingAction
  <2> QED BY <2>1, GotoAnswers DEF Pcs, Placing
<1>9. CASE (Admissible(r) \/ DecideRow(r)) /\ ~Done(r)
  <2>1. /\ req[r].op \in Decide /\ req[r].pc \in {"admit", "decide"} /\ UNCHANGED up
        /\ Goto(r, "decide") \/ (req[r].op = "approve" /\ Goto(r, "place"))
    BY <1>9 DEF Admissible, DecideRow, At, node
  <2>2. req[r].op = "approve" => up BY <2>1 DEF AnswerInv, OnNode, NodeOf
  <2> QED BY <2>1, <2>2, GotoAnswers DEF Pcs, Placing, Decide
<1>10. CASE SendCancel(r)
  <2>1. req[r].op = "cancel" /\ Goto(r, "settle") BY <1>10 DEF SendCancel, At, Cancel
  <2> QED BY <2>1, GotoAnswers DEF Pcs, Placing
<1>11. CASE (Place(r) \/ PlaceShare(r) \/ SizedBookLanded(r)) /\ ~Done(r)
  <2>1. /\ req[r].op \in Placing /\ req[r].pc \in {"place", "confirm"}
        /\ \/ HandToNode(req[r].act) /\ Goto(r, "settle")
           \/ UNCHANGED up /\ \E pc \in {"invalid", "confirm"} : Goto(r, pc)
    BY <1>11 DEF Place, PlaceShare, SizedBookLanded, At, node
  <2>2. up BY <2>1 DEF AnswerInv, OnNode, NodeOf
  <2>3. req[r].act \in Actions BY <2>1 DEF TypeInv, CallOK, Calls
  <2>4. HandToNode(req[r].act) => up' /\ book'[req[r].act] # "ACCEPTED"
    BY <2>2, <2>3 DEF HandToNode, TypeInv, NodeOK
  <2> QED BY <2>1, <2>2, <2>4, GotoAnswers DEF Pcs
<1>12. CASE Settle(r) BY <1>12, SettleAnswers
<1>13. CASE SizedBookLost(r) \/ SettleTimeout(r) \/ Finish(r)
  BY <1>13, <1>1 DEF SizedBookLost, SettleTimeout, Finish
<1> QED
  BY <1>1, <1>2, <1>3, <1>4, <1>5, <1>6, <1>7, <1>8, <1>9, <1>10, <1>11, <1>12, <1>13 DEF Step

LEMMA FiledSteps ==
  ASSUME TypeInv, RowInv, NodeInv, AnswerInv, NEW r \in Requests, Step(r) PROVE AnswerFiled'
<1>0. NodeStep /\ AnswerFiled BY StepKeeps DEF AnswerInv
<1>1. CASE UNCHANGED row BY <1>0, <1>1, FiledKept
<1>2. CASE (BeginSubmit(r) \/ BeginCancel(r) \/ DecideRow(r)) /\ req[r].act \in Actions
  <2>1. \A a \in Actions : row'[a] = row[a] \/ row'[a].outcome \in {"NULL", "DENIED", row[a].outcome}
    BY <1>2 DEF BeginSubmit, BeginCancel, DecideRow, TypeInv, RowOK, Row, NewRow
  <2>2. \A a \in Actions : row'[a] # row[a] => row'[a].outcome \in {"NULL", "DENIED"}
    BY <1>2
    DEF BeginSubmit, BeginCancel, DecideRow, TypeInv, RowOK, Row, NewRow, RowInv, Undecided
  <2> QED BY <1>0, <2>2, FiledKept DEF Closed
<1>3. CASE Finish(r)
  <2> DEFINE outcome == IF req[r].pc = "invalid" THEN "ORDER_INVALID" ELSE req[r].answer
  <2>1. /\ req[r].act \in Actions /\ req[r].pc \in {"invalid", "finish"}
        /\ row' = [row EXCEPT ![req[r].act].outcome = outcome]
    BY <1>3 DEF Finish, At, TypeInv, CallOK, Calls
  <2>2. row[req[r].act].order = Of(r) BY <2>1 DEF RowInv, OneCaller, Working, Ahead
  <2>3. outcome \in {"ACCEPTED"} \cup Closed => Backed(Of(r), outcome)
    BY <2>1 DEF AnswerInv, Heard, HeardOf, Closed
  <2>4. Of(r) \in Actions BY <2>1 DEF TypeInv, CallOK, Calls, Of
  <2> HIDE DEF outcome
  <2>5. /\ row'[req[r].act].outcome = outcome /\ row'[req[r].act].order = Of(r)
        /\ \A a \in Actions : a # req[r].act => row'[a] = row[a]
    BY <2>1, <2>2 DEF TypeInv, RowOK, Row
  <2> QED BY <1>0, <2>3, <2>4, <2>5, FiledKept
<1>4. req[r].pc # "idle" => req[r].act \in Actions BY DEF TypeInv, CallOK, Calls
<1> QED
  BY <1>1, <1>2, <1>3, <1>4
  DEF Step, At, Stored, Gated, EnsureFirst, BeginSubmit, EnsureAfter, AwaitingApproval, EnsureForCancel,
      OpenOnNode, BeginCancel, SendCancel, PendingAction, EnsureForDecision, Admissible, DecideRow,
      Place, PlaceShare, SizedBookLost, SizedBookLanded, Settle, SettleTimeout

-------------------------------------------------------------------------------
(* The invariant and what it gives *)

LEMMA InitInv == Init => IInv
<1> SUFFICES ASSUME Init PROVE IInv OBVIOUS
<1>1. RowInv BY DEF Init, RowInv, OneCaller, NotYet, Undecided, Named, Working, Ahead, Idle, NoRow
<1>2. NodeInv BY DEF Init, NodeInv, Unplaced, Recorded, Survives, Down, Closed
<1>3. AnswerInv
  BY DEF Init, AnswerInv, OnNode, NodeOf, Heard, HeardOf, AnswerFiled, Idle, NoRow, Placing,
         Closed
<1> QED BY <1>1, <1>2, <1>3, InitTypes DEF IInv

\* What changes neither calls, rows nor node changes nothing.
LEMMA StillInv ==
  ASSUME TypeInv, RowInv, NodeInv, AnswerInv,
         UNCHANGED <<row, req, placed, up, book, refused, filed, resting, cut>>
  PROVE  RowInv' /\ NodeInv' /\ AnswerInv'
<1>1. RowInv' BY DEF RowInv, OneCaller, NotYet, Undecided, Named, Of
<1>2. NodeStep BY DEF NodeStep
<1>3. OnNode' /\ Heard' BY <1>2, Stands DEF OnNode, Heard
<1>4. AnswerFiled' BY <1>2, FiledKept DEF AnswerInv
<1> QED BY <1>1, <1>3, <1>4, NodeQuiet DEF AnswerInv

LEMMA CalledInv ==
  ASSUME TypeInv, RowInv, NodeInv, AnswerInv, NEW r \in Requests, Called(r)
  PROVE  RowInv' /\ NodeInv' /\ AnswerInv'
<1>1. UNCHANGED <<row, placed, up, book, refused, filed, resting, cut>>
  BY DEF Called, SubmitCalled, CancelCalled, DecideCalled, node
<1>2. Only(r) /\ req'[r].pc \in {"stored", "pending"} /\ req'[r].started = FALSE
  BY DEF Called, SubmitCalled, CancelCalled, DecideCalled, Only, TypeInv, CallOK
<1>3. RowInv' BY <1>1, <1>2, RowMoves DEF TypeInv, Working, Ahead
<1>4. NodeInv' BY <1>1, NodeQuiet
<1>5. NodeStep BY <1>1 DEF NodeStep
<1>6. NodeOf(r)' /\ HeardOf(r)' BY <1>2 DEF NodeOf, HeardOf
<1>7. AnswerFiled' BY <1>1, <1>5, FiledKept DEF AnswerInv
<1> QED BY <1>2, <1>3, <1>4, <1>5, <1>6, <1>7, Moves DEF AnswerInv

LEMMA SandboxInv ==
  ASSUME TypeInv, RowInv, NodeInv, AnswerInv, NEW a \in Actions, Sandbox(a)
  PROVE  RowInv' /\ NodeInv' /\ AnswerInv'
<1>1. UNCHANGED <<row, req, placed>> BY DEF Sandbox
<1>2. RowInv' BY <1>1 DEF RowInv, OneCaller, NotYet, Undecided, Named, Of
<1>3. NodeStep BY SandboxKeeps
<1>4. OnNode' /\ Heard' BY <1>1, <1>3, Stands DEF OnNode, Heard
<1>5. AnswerFiled' BY <1>1, <1>3, FiledKept DEF AnswerInv
<1> QED BY <1>2, <1>4, <1>5, NodeSandbox DEF AnswerInv

LEMMA CrashInv ==
  ASSUME TypeInv, RowInv, NodeInv, AnswerInv, Crash
  PROVE  RowInv' /\ NodeInv' /\ AnswerInv'
<1>1. UNCHANGED <<row, placed, filed>> /\ \A r \in Requests : req'[r] = Idle BY DEF Crash
<1>2. RowInv' BY <1>1 DEF RowInv, OneCaller, NotYet, Undecided, Named, Idle, Working, Ahead
<1>3. NodeInv' BY NodeCrash DEF TypeInv
<1>4. OnNode' /\ Heard' BY <1>1 DEF OnNode, NodeOf, Heard, HeardOf, Idle, Placing
<1>5. AnswerFiled'
  <2> SUFFICES ASSUME NEW a \in Actions, row[a].outcome \in {"ACCEPTED"} \cup Closed
               PROVE  Backed(row[a].order, row[a].outcome)'
    BY <1>1 DEF AnswerFiled
  <2>1. row[a].order \in Actions BY DEF RowInv, Named, Closed
  <2>2. Backed(row[a].order, row[a].outcome) BY DEF AnswerInv, AnswerFiled
  <2> QED BY <1>1, <2>1, <2>2 DEF Backed, Crash
<1> QED BY <1>2, <1>3, <1>4, <1>5 DEF AnswerInv

LEMMA NextInv == IInv /\ [Next]_vars => IInv'
<1> SUFFICES ASSUME TypeInv, RowInv, NodeInv, AnswerInv, [Next]_vars
             PROVE  RowInv' /\ NodeInv' /\ AnswerInv'
  BY NextTypes DEF IInv
<1>1. CASE \E r \in Requests : Called(r) BY <1>1, CalledInv
<1>2. CASE \E r \in Requests : Step(r)
  BY <1>2, RowSteps, NodeSteps, CallSteps, FiledSteps DEF AnswerInv
<1>3. CASE \E a \in Actions : Sandbox(a) BY <1>3, SandboxInv
<1>4. CASE PutPolicy \/ FeedTurns BY <1>4, StillInv DEF PutPolicy, FeedTurns, node
<1>5. CASE Crash BY <1>5, CrashInv
<1>6. CASE UNCHANGED vars BY <1>6, StillInv DEF vars
<1> QED BY <1>1, <1>2, <1>3, <1>4, <1>5, <1>6 DEF Next

\* The inductive invariant holds of every run.
LEMMA Invariant == Spec => []IInv
BY InitInv, NextInv, PTL DEF Spec

\* AnswerFiled: a record answers only what the stored history of its order says,
\* whatever the cache showed while the call waited (settled_submit, capture_order),
\* but for the ACCEPTED of an order matched in part on arrival and not yet published.
THEOREM AnswersFiled == Spec => []AnswerFiled
<1>1. IInv => AnswerFiled BY DEF IInv, AnswerInv
<1> QED BY <1>1, Invariant, PTL

\* RestingSurvives: an order whose history leaves it resting rests on every node the
\* desk runs, across any number of deaths (capture_order, restore).
THEOREM RestingKept == Spec => []RestingSurvives
<1>1. IInv => RestingSurvives BY DEF IInv, NodeInv, Survives, RestingSurvives
<1> QED BY <1>1, Invariant, PTL

-------------------------------------------------------------------------------
(* The refinement: the routes implement OrderPromise. *)

LEMMA PromiseMoves ==
  ASSUME NEW a \in Actions,
         Promise!Record(a) \/ Promise!Approve(a) \/ Promise!Deny(a) \/ Promise!Place(a)
         \/ Promise!Conclude(a)
  PROVE  Promise!Next
BY DEF Promise!Next

\* Every step of a call is one of the promise's, or leaves what it speaks of alone.
LEMMA PromiseStep ==
  ASSUME TypeInv, RowInv, NEW r \in Requests, Step(r)
  PROVE  Promise!Next \/ UNCHANGED <<row, placed>>
<1>1. req[r].pc # "idle"
  BY DEF Step, At, Stored, Gated, EnsureFirst, BeginSubmit, EnsureAfter, AwaitingApproval,
         EnsureForCancel, OpenOnNode, BeginCancel, SendCancel, PendingAction, EnsureForDecision,
         Admissible, DecideRow, Place, PlaceShare, SizedBookLost, SizedBookLanded, Settle,
         SettleTimeout, Finish
<1>6. PICK a \in Actions : a = req[r].act BY <1>1 DEF TypeInv, CallOK, Calls
<1>2. CASE (BeginSubmit(r) \/ BeginCancel(r)) /\ ~UNCHANGED row
  <2>1. PICK approval, kind, t :
          /\ approval \in {"ALWAYS_ALLOW", "PENDING"}
          /\ row' = [row EXCEPT ![a] = NewRow(kind, approval, t)]
    BY <1>2, <1>6 DEF BeginSubmit, BeginCancel
  <2>2. a \in Actions /\ UNCHANGED placed /\ row[a] = NoRow
    BY <1>2, <1>6 DEF BeginSubmit, BeginCancel
  <2>3. row[a].approval = "ABSENT" /\ row[a].outcome = "NULL" BY <2>2 DEF NoRow
  <2>4. NewRow(kind, approval, t).approval = approval /\ NewRow(kind, approval, t).outcome = "NULL"
    BY DEF NewRow
  <2>5. Promise!Record(a) BY <2>1, <2>2, <2>3, <2>4 DEF Promise!Record, TypeInv, RowOK
  <2> QED BY <2>2, <2>5, PromiseMoves
<1>3. CASE DecideRow(r) /\ ~UNCHANGED row
  <2>1. a \in Actions /\ UNCHANGED placed /\ row[a].approval = "PENDING"
    BY <1>3, <1>6 DEF DecideRow
  <2>2. CASE row' = [row EXCEPT ![a].approval = "DENIED", ![a].outcome = "DENIED"]
    <3> DEFINE denied == [row[a] EXCEPT !.approval = "DENIED", !.outcome = "DENIED"]
    <3>1. row' = [row EXCEPT ![a] = denied] BY <2>2, Zenon
    <3>2. denied.approval = "DENIED" /\ denied.outcome = "DENIED" BY <2>1 DEF TypeInv, RowOK, Row
    <3> HIDE DEF denied
    <3>3. Promise!Deny(a) BY <2>1, <3>1, <3>2 DEF Promise!Deny, TypeInv, RowOK
    <3> QED BY <2>1, <3>3, PromiseMoves
  <2>3. CASE row' = [row EXCEPT ![a].approval = "APPROVED"]
    <3> DEFINE approved == [row[a] EXCEPT !.approval = "APPROVED"]
    <3>1. row' = [row EXCEPT ![a] = approved] BY <2>3, Zenon
    <3>2. approved.approval = "APPROVED" /\ approved.outcome = row[a].outcome
      BY DEF TypeInv, RowOK, Row
    <3> HIDE DEF approved
    <3>3. Promise!Approve(a) BY <2>1, <3>1, <3>2 DEF Promise!Approve, TypeInv, RowOK
    <3> QED BY <3>3, PromiseMoves
  <2>4. \/ row' = [row EXCEPT ![a].approval = "DENIED", ![a].outcome = "DENIED"]
        \/ row' = [row EXCEPT ![a].approval = "APPROVED"]
    BY <1>3, <1>6, Zenon DEF DecideRow
  <2> QED BY <2>2, <2>3, <2>4
<1>4. CASE (Place(r) \/ PlaceShare(r) \/ SizedBookLanded(r)) /\ ~UNCHANGED placed
  <2>1. /\ HandToNode(a) /\ UNCHANGED row /\ req[r].pc \in {"place", "confirm"}
    BY <1>4, <1>6 DEF Place, PlaceShare, SizedBookLanded, At
  <2>3. /\ placed[a] = 0 /\ row[a].approval \in {"ALWAYS_ALLOW", "APPROVED"}
        /\ row[a].outcome = "NULL"
    BY <1>6, <2>1 DEF RowInv, NotYet, OneCaller, Working, Ahead
  <2>4. placed' = [placed EXCEPT ![a] = 1] BY <2>1, <2>3 DEF HandToNode, TypeInv, NodeOK
  <2>5. Promise!Place(a) BY <2>1, <2>3, <2>4 DEF Promise!Place, Promise!Cleared
  <2> QED BY <2>5, PromiseMoves
<1>5. CASE Finish(r)
  <2> DEFINE outcome == IF req[r].pc = "invalid" THEN "ORDER_INVALID" ELSE req[r].answer
  <2>1. /\ a \in Actions /\ req[r].pc \in {"invalid", "finish"} /\ UNCHANGED placed
        /\ row' = [row EXCEPT ![a].outcome = outcome]
    BY <1>5, <1>6 DEF Finish, At
  <2>2. row[a].outcome = "NULL" /\ row[a].approval \in {"ALWAYS_ALLOW", "APPROVED"}
    BY <1>6, <2>1 DEF RowInv, OneCaller, Working, Ahead
  <2>3. outcome \in Answers \ {"DENIED"}
    BY <2>1 DEF TypeInv, CallOK, Calls, Closed, Answers
  <2>4. outcome = "ORDER_INVALID" => placed[a] = 0
    BY <1>6, <2>1 DEF RowInv, NotYet, Ahead, TypeInv, CallOK, Calls, Closed
  <2> HIDE DEF outcome
  <2>5. Promise!Conclude(a)
    BY <2>1, <2>2, <2>3, <2>4 DEF Promise!Conclude, Promise!Cleared, TypeInv, RowOK, Row
  <2> QED BY <2>1, <2>5, PromiseMoves
<1> QED
  BY <1>2, <1>3, <1>4, <1>5
  DEF Step, Stored, Gated, EnsureFirst, BeginSubmit, EnsureAfter, AwaitingApproval, EnsureForCancel,
      OpenOnNode, BeginCancel, SendCancel, PendingAction, EnsureForDecision, Admissible, DecideRow,
      Place, PlaceShare, SizedBookLost, SizedBookLanded, Settle, SettleTimeout

\* PromiseKept: submit, cancel and decide, with replays, racing decisions and deaths,
\* record an action before its order is placed, place it at most once and only if
\* cleared, and answer it at most once.
THEOREM ImplementsPromise == Spec => PromiseKept
<1>1. Init => Promise!Init BY DEF Init, Promise!Init, NoRow
<1>2. ASSUME IInv, [Next]_vars PROVE [Promise!Next]_(Promise!promise)
  <2>1. CASE UNCHANGED <<row, placed>> BY <2>1 DEF Promise!promise
  <2>2. CASE \E r \in Requests : Step(r)
    BY <1>2, <2>1, <2>2, PromiseStep DEF IInv
  <2>3. UNCHANGED <<row, placed>> \/ \E r \in Requests : Step(r)
    BY <1>2
    DEF Next, vars, Called, SubmitCalled, CancelCalled, DecideCalled, Sandbox, PutPolicy, FeedTurns,
        Crash
  <2> QED BY <2>1, <2>2, <2>3
<1> QED BY <1>1, <1>2, Invariant, PTL DEF Spec, PromiseKept, Promise!Spec
===============================================================================
