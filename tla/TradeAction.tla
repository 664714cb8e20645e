----------------------------- MODULE TradeAction ------------------------------
(***************************************************************************)
(* One desk's trading actions: the order, cancel and approval routes of    *)
(* trade.rs racing each other, the order policy they read, the rows they   *)
(* write, the desk's lazily started node, and what of its book is durable. *)
(*                                                                         *)
(* A step of a request is one store unit or read, one job on the node's    *)
(* thread, or one call of Registry::ensure, which holds its mutex over the *)
(* whole start; between two of them any other request runs, the sandbox    *)
(* answers, the feed loses or regains the A-share market, and the daemon   *)
(* may die.  Of lots only this is kept: a LIMIT can be matched on arrival  *)
(* in full or in part.  Prices and markets beyond "A-share or not" are left *)
(* out.                                                                    *)
(***************************************************************************)
EXTENDS Naturals, FiniteSets

CONSTANTS
  Actions,     \* action ids; the client order id of a submit is its action id
  Shares,      \* the actions that name an A-share (CN) instrument
  Markets,     \* the actions that are MARKET orders; the others are LIMIT
  Requests,    \* route handlers that may run at once
  Decides,     \* whether the approval route is exercised
  MaxCrashes   \* bound: daemon deaths, by crash or Quit

ASSUME TradeAssumption ==
  /\ Shares \subseteq Actions /\ Markets \subseteq Actions
  /\ Decides \in BOOLEAN
  /\ MaxCrashes \in Nat

VARIABLES
  \* SQLite
  policy,    \* installation_settings.paper_order_policy
  row,       \* trading_actions
  filed,     \* order_events: action -> the kinds stored of its order
  resting,   \* book_snapshots: the open orders of the last captured event
  \* the daemon
  up,        \* the desk's node is in the registry, started and restored
  book,      \* the node's cache: action -> status of its order
  sent,      \* orders with a CancelOrder on the node's way
  refused,   \* orders whose last event is an OrderCancelRejected
  ready,     \* the A-share market is executable on this node
  req,       \* one route call per request
  \* history and bounds
  placed, crashes,
  cut        \* orders matched in part on arrival whose node died with every event queued

node == <<up, book, sent, refused, filed, resting>>
vars == <<policy, row, filed, resting, up, book, sent, refused, ready, req, placed, crashes, cut>>

\* order: the client order id the recorded request names
NoRow   == [kind |-> "ABSENT", approval |-> "ABSENT", outcome |-> "NULL", order |-> "none"]
NewRow(kind, approval, order) ==
  [kind |-> kind, approval |-> approval, outcome |-> "NULL", order |-> order]
Idle == [op |-> "none", pc |-> "idle", act |-> "none", target |-> "none",
         started |-> FALSE, answer |-> "none"]

\* orders_open: ACCEPTED (partly filled or not), and a LIMIT marketable on arrival, in
\* the cache as accepted with its fill still queued, matched in full or in part
Open     == {"ACCEPTED", "MATCHED", "PARTIAL"}
Closed   == {"FILLED", "CANCELED", "REJECTED"}  \* is_closed
Status   == {"NONE", "SUBMITTED"} \cup Open \cup Closed
Answers  == {"ACCEPTED", "FILLED", "CANCELED", "REJECTED", "DENIED", "ORDER_INVALID"}

Init ==
  /\ policy = "ALWAYS_ALLOW"
  /\ row = [a \in Actions |-> NoRow]
  /\ filed = [a \in Actions |-> {}]
  /\ resting = {}
  /\ up = FALSE
  /\ book = [a \in Actions |-> "NONE"]
  /\ sent = {} /\ refused = {}
  /\ ready = FALSE
  /\ req = [r \in Requests |-> Idle]
  /\ placed = [a \in Actions |-> 0]
  /\ crashes = 0 /\ cut = {}

-------------------------------------------------------------------------------
(* How a request moves. *)

At(r, op, pc) == req[r].op \in op /\ req[r].pc = pc
Goto(r, pc)   == req' = [req EXCEPT ![r].pc = pc]
Done(r)       == req' = [req EXCEPT ![r] = Idle]   \* the call answers

Submit == {"submit"}
Cancel == {"cancel"}
Decide == {"approve", "deny"}
Placing == {"submit", "approve"}
\* cancel reads the order the path names, a submit its own
Of(r) == IF req[r].op = "cancel" THEN req[r].target ELSE req[r].act

\* Registry::ensure: the running node, or a start that restores the snapshot's
\* open orders under their own ids.  A start that fails changes nothing.
Ensure(r, then, onFailure) ==
  \/ /\ up
     /\ then /\ UNCHANGED node
  \/ /\ ~up
     /\ up' = TRUE
     /\ book' = [a \in Actions |-> IF a \in resting THEN "ACCEPTED" ELSE "NONE"]
     /\ then /\ UNCHANGED <<sent, refused, filed, resting>>
  \/ /\ ~up
     /\ onFailure /\ UNCHANGED node

-------------------------------------------------------------------------------
(* Routes are called. *)

\* POST .../orders, with an action id that may be new or repeated
SubmitCalled(r, a) ==
  /\ req[r].pc = "idle"
  /\ req' = [req EXCEPT ![r] = [op |-> "submit", pc |-> "stored", act |-> a, target |-> a,
                                started |-> FALSE, answer |-> "none"]]
  /\ UNCHANGED <<policy, row, node, ready, placed, crashes, cut>>

\* POST .../orders/{target}/cancel under action id a
CancelCalled(r, a, target) ==
  /\ req[r].pc = "idle"
  /\ req' = [req EXCEPT ![r] = [op |-> "cancel", pc |-> "stored", act |-> a, target |-> target,
                                started |-> FALSE, answer |-> "none"]]
  /\ UNCHANGED <<policy, row, node, ready, placed, crashes, cut>>

\* POST .../approvals/{id}
DecideCalled(r, a, op) ==
  /\ Decides
  /\ req[r].pc = "idle"
  /\ req' = [req EXCEPT ![r] = [op |-> op, pc |-> "pending", act |-> a, target |-> a,
                                started |-> FALSE, answer |-> "none"]]
  /\ UNCHANGED <<policy, row, node, ready, placed, crashes, cut>>

\* PUT /settings/policies
PutPolicy ==
  /\ Decides
  /\ policy' \in {"ALWAYS_ALLOW", "REQUIRE_APPROVAL"} \ {policy}
  /\ UNCHANGED <<row, node, ready, req, placed, crashes, cut>>

-------------------------------------------------------------------------------
(* submit and cancel, up to the row. *)

\* stored: a repeated action id is answered from its record
Stored(r) ==
  /\ At(r, Submit \cup Cancel, "stored")
  /\ IF row[req[r].act] # NoRow
     THEN Done(r)
     ELSE Goto(r, IF req[r].op = "submit" THEN "gate" ELSE "waiting")
  /\ UNCHANGED <<policy, row, node, ready, placed, crashes, cut>>

\* gated, outside any unit: only an ungated submit wants the node already
Gated(r) ==
  /\ At(r, Submit, "gate")
  /\ Goto(r, IF policy = "REQUIRE_APPROVAL" THEN "begin" ELSE "ensure")
  /\ UNCHANGED <<policy, row, node, ready, placed, crashes, cut>>

\* The node before the row: a start that fails leaves no action behind.
EnsureFirst(r) ==
  /\ At(r, Submit, "ensure")
  /\ Ensure(r, req' = [req EXCEPT ![r].pc = "begin", ![r].started = TRUE],
            Done(r))
  /\ UNCHANGED <<policy, row, ready, placed, crashes, cut>>

\* begin: the row, stamped by the policy its own unit reads; losing the race on
\* the identity is a replay
BeginSubmit(r) ==
  LET a == req[r].act IN
  /\ At(r, Submit, "begin")
  /\ \/ /\ row[a] # NoRow
        /\ Done(r) /\ UNCHANGED row
     \/ /\ row[a] = NoRow /\ policy = "REQUIRE_APPROVAL"
        /\ row' = [row EXCEPT ![a] = NewRow("SUBMIT", "PENDING", a)]
        /\ Done(r)
     \/ /\ row[a] = NoRow /\ policy = "ALWAYS_ALLOW"
        /\ row' = [row EXCEPT ![a] = NewRow("SUBMIT", "ALWAYS_ALLOW", a)]
        /\ Goto(r, IF req[r].started THEN "place" ELSE "restart")
  /\ UNCHANGED <<policy, node, ready, placed, crashes, cut>>

\* The policy was opened between the two reads: the node is started after the row.
EnsureAfter(r) ==
  /\ At(r, Submit, "restart")
  /\ Ensure(r, Goto(r, "place"), Done(r))
  /\ UNCHANGED <<policy, row, ready, placed, crashes, cut>>

\* awaiting_approval: an order still pending was never handed to a node
AwaitingApproval(r) ==
  /\ At(r, Cancel, "waiting")
  /\ LET order == row[req[r].target] IN
     IF order.kind = "SUBMIT" /\ order.approval = "PENDING"
     THEN Done(r)
     ELSE Goto(r, "ensure")
  /\ UNCHANGED <<policy, row, node, ready, placed, crashes, cut>>

EnsureForCancel(r) ==
  /\ At(r, Cancel, "ensure")
  /\ Ensure(r, Goto(r, "open"), Done(r))
  /\ UNCHANGED <<policy, row, ready, placed, crashes, cut>>

\* only an order the node knows and has not closed can be cancelled
OpenOnNode(r) ==
  /\ At(r, Cancel, "open")
  /\ IF book[req[r].target] \in {"SUBMITTED"} \cup Open
     THEN Goto(r, "begin")
     ELSE Done(r)
  /\ UNCHANGED <<policy, row, node, ready, placed, crashes, cut>>

\* a cancel's row is never gated
BeginCancel(r) ==
  LET a == req[r].act IN
  /\ At(r, Cancel, "begin")
  /\ IF row[a] # NoRow
     THEN Done(r) /\ UNCHANGED row
     ELSE /\ row' = [row EXCEPT ![a] = NewRow("CANCEL", "ALWAYS_ALLOW", req[r].target)]
          /\ Goto(r, "send")
  /\ UNCHANGED <<policy, node, ready, placed, crashes, cut>>

\* the command goes out unless the order closed meanwhile
SendCancel(r) ==
  LET t == req[r].target IN
  /\ At(r, Cancel, "send")
  /\ sent' = IF book[t] \in {"SUBMITTED"} \cup Open THEN sent \cup {t} ELSE sent
  /\ Goto(r, "settle")
  /\ UNCHANGED <<policy, row, up, book, refused, filed, resting, ready, placed, crashes, cut>>

-------------------------------------------------------------------------------
(* decide. *)

\* pending_action
PendingAction(r) ==
  LET a == req[r].act IN
  /\ At(r, Decide, "pending")
  /\ \/ row[a] = NoRow /\ Done(r)
     \/ row[a] # NoRow /\ row[a].approval # "PENDING" /\ Done(r)
     \/ /\ row[a].approval = "PENDING"
        /\ Goto(r, IF req[r].op = "deny" THEN "decide" ELSE "ensure")
  /\ UNCHANGED <<policy, row, node, ready, placed, crashes, cut>>

EnsureForDecision(r) ==
  /\ At(r, Decide, "ensure")
  /\ Ensure(r, Goto(r, IF req[r].act \in Shares THEN "admit" ELSE "decide"),
            Done(r))
  /\ UNCHANGED <<policy, row, ready, placed, crashes, cut>>

\* the A-share pre-check: admit with nothing to do
Admissible(r) ==
  /\ At(r, Decide, "admit")
  /\ IF ready THEN Goto(r, "decide") ELSE Done(r)
  /\ UNCHANGED <<policy, row, node, ready, placed, crashes, cut>>

\* (mutant) the unit's WHERE clause without its approval = 'PENDING'
DecideRowUnguarded(r) ==
  LET a == req[r].act IN
  /\ At(r, Decide, "decide")
  /\ \/ /\ req[r].op = "deny"
        /\ row' = [row EXCEPT ![a].approval = "DENIED", ![a].outcome = "DENIED"]
        /\ Done(r)
     \/ /\ req[r].op = "approve"
        /\ row' = [row EXCEPT ![a].approval = "APPROVED"]
        /\ Goto(r, "place")
  /\ UNCHANGED <<policy, node, ready, placed, crashes, cut>>

\* the guarded unit: the second of two decisions writes nothing
DecideRow(r) ==
  LET a == req[r].act IN
  /\ At(r, Decide, "decide")
  /\ \/ /\ row[a].approval # "PENDING"
        /\ Done(r) /\ UNCHANGED row
     \/ /\ row[a].approval = "PENDING" /\ req[r].op = "deny"
        /\ row' = [row EXCEPT ![a].approval = "DENIED", ![a].outcome = "DENIED"]
        /\ Done(r)
     \/ /\ row[a].approval = "PENDING" /\ req[r].op = "approve"
        /\ row' = [row EXCEPT ![a].approval = "APPROVED"]
        /\ Goto(r, "place")
  /\ UNCHANGED <<policy, node, ready, placed, crashes, cut>>

-------------------------------------------------------------------------------
(* place_and_settle, which submit and decide share. *)

\* hand_to_node: cached, then on its way to the sandbox
HandToNode(a) ==
  /\ book' = [book EXCEPT ![a] = "SUBMITTED"]
  /\ placed' = [placed EXCEPT ![a] = @ + 1]
  /\ UNCHANGED <<up, sent, refused, filed, resting>>

\* an order of any other market is one job on the node
Place(r) ==
  /\ At(r, Placing, "place") /\ req[r].act \notin Shares
  /\ HandToNode(req[r].act)
  /\ Goto(r, "settle")
  /\ UNCHANGED <<policy, row, ready, crashes, cut>>

\* An A-share is admitted and handed over in one job: unavailable, ineligible,
\* placed, or (a MARKET order under HiThink) only its sized book published.
PlaceShare(r) ==
  LET a == req[r].act IN
  /\ At(r, Placing, "place") /\ a \in Shares
  /\ \/ ~ready /\ Done(r) /\ UNCHANGED <<node, placed>>
     \/ ready /\ Goto(r, "invalid") /\ UNCHANGED <<node, placed>>
     \/ ready /\ HandToNode(a) /\ Goto(r, "settle")
     \/ ready /\ a \in Markets /\ Goto(r, "confirm") /\ UNCHANGED <<node, placed>>
  /\ UNCHANGED <<policy, row, ready, crashes, cut>>

\* confirm: the sized book never landed, and the instrument is marked failed
SizedBookLost(r) ==
  /\ At(r, Placing, "confirm")
  /\ ready' = FALSE
  /\ Done(r)
  /\ UNCHANGED <<policy, row, node, placed, crashes, cut>>

SizedBookLanded(r) ==
  /\ At(r, Placing, "confirm")
  /\ HandToNode(req[r].act)
  /\ Goto(r, "settle")
  /\ UNCHANGED <<policy, row, ready, crashes, cut>>

\* (mutant) reading the cache in the window in which the fill is still queued
SettledEarly(r) ==
  LET s == book[Of(r)] IN
  IF req[r].op = "cancel"
  THEN s \in Closed \/ (s \in Open /\ Of(r) \in refused)
  ELSE s \in Closed \cup Open

\* settled_submit and settled_cancel.  MATCHED is the cache's ACCEPTED that still
\* says Taker: a submit waits for its fill.  PARTIAL is back to Maker and answers.
\* A cancel waits for the close.
Settled(r) ==
  LET s == book[Of(r)] IN
  IF req[r].op = "cancel"
  THEN s \in Closed \/ (s \in Open /\ Of(r) \in refused)
  ELSE s \in Closed \cup {"ACCEPTED", "PARTIAL"}

Settle(r) ==
  /\ At(r, Placing \cup Cancel, "settle")
  /\ Settled(r)
  /\ req' = [req EXCEPT ![r].pc = "finish",
                        ![r].answer = IF book[Of(r)] \in Open THEN "ACCEPTED" ELSE book[Of(r)]]
  /\ UNCHANGED <<policy, row, node, ready, placed, crashes, cut>>

\* SETTLE_TIMEOUT: the caller is told so and the row stays without an outcome
SettleTimeout(r) ==
  /\ At(r, Placing \cup Cancel, "settle")
  /\ ~Settled(r)
  /\ Done(r)
  /\ UNCHANGED <<policy, row, node, ready, placed, crashes, cut>>

\* finish: the outcome lands on the row.  An approval of an order the sandbox or
\* the admission refuses is a decision all the same.
Finish(r) ==
  LET outcome == IF req[r].pc = "invalid" THEN "ORDER_INVALID" ELSE req[r].answer IN
  /\ At(r, Placing, "invalid") \/ At(r, Placing \cup Cancel, "finish")
  /\ row' = [row EXCEPT ![req[r].act].outcome = outcome]
  /\ Done(r)
  /\ UNCHANGED <<policy, node, ready, placed, crashes, cut>>

-------------------------------------------------------------------------------
(* The sandbox (external), and the capture that runs with every published     *)
(* event: the order's chain is completed and the snapshot rewritten in a unit. *)

\* (mutant) the snapshot rewritten only by the events that close an order
PublishClosedOnly(a, status) ==
  /\ book' = [book EXCEPT ![a] = status]
  /\ filed' = [filed EXCEPT ![a] = @ \cup {status} \cup IF book[a] \in Open THEN {"ACCEPTED"} ELSE {}]
  /\ resting' = IF status \in Closed THEN {b \in Actions : book'[b] \in Open} ELSE resting
  /\ refused' = refused \ {a}

Publish(a, status) ==
  /\ book' = [book EXCEPT ![a] = status]
  /\ filed' = [filed EXCEPT ![a] = @ \cup {status} \cup IF book[a] \in Open THEN {"ACCEPTED"} ELSE {}]
  /\ resting' = {b \in Actions : book'[b] \in Open}
  /\ refused' = refused \ {a}

Sandbox(a) ==
  /\ up
  \* accepted to rest, or the fill of the part matched on arrival
  /\ \/ /\ book[a] \in {"SUBMITTED", "PARTIAL"} /\ a \notin Markets
        /\ Publish(a, "ACCEPTED") /\ UNCHANGED sent
     \* marketable on arrival: cached as accepted at once, its acceptance never
     \* published and its fill queued; a quote of one lot may match only a part
     \/ /\ book[a] = "SUBMITTED" /\ a \notin Markets
        /\ \E matched \in {"MATCHED", "PARTIAL"} : book' = [book EXCEPT ![a] = matched]
        /\ UNCHANGED <<filed, resting, refused, sent>>
     \/ /\ book[a] \in Open \/ (book[a] = "SUBMITTED" /\ a \in Markets)
        /\ Publish(a, "FILLED") /\ UNCHANGED sent
     \/ /\ book[a] = "SUBMITTED"
        /\ Publish(a, "REJECTED") /\ UNCHANGED sent
     \/ /\ a \in sent /\ book[a] \in {"ACCEPTED", "PARTIAL"}
        /\ Publish(a, "CANCELED") /\ sent' = sent \ {a}
     \* the sandbox refuses the cancel, an event of the order like any other
     \/ /\ a \in sent /\ book[a] \in Open
        /\ sent' = sent \ {a} /\ refused' = refused \cup {a}
        /\ filed' = [filed EXCEPT ![a] = @ \cup {"ACCEPTED"}]
        /\ resting' = {b \in Actions : book[b] \in Open}
        /\ UNCHANGED book
     \* a closed order takes no event
     \/ /\ a \in sent /\ book[a] \in Closed
        /\ sent' = sent \ {a}
        /\ UNCHANGED <<book, filed, resting, refused>>
  /\ UNCHANGED <<policy, row, up, ready, req, placed, crashes, cut>>

\* a cycle, a failed publication or a closed session opens or shuts the market
FeedTurns ==
  /\ Shares # {}
  /\ ready' = (up /\ ~ready)
  /\ UNCHANGED <<policy, row, node, req, placed, crashes, cut>>

\* The daemon dies: the node, its cache and every call in flight are gone.
Crash ==
  /\ crashes < MaxCrashes
  /\ crashes' = crashes + 1
  /\ cut' = cut \cup {a \in Actions : book[a] = "PARTIAL"}
  /\ up' = FALSE /\ ready' = FALSE
  /\ book' = [a \in Actions |-> "NONE"]
  /\ sent' = {} /\ refused' = {}
  /\ req' = [r \in Requests |-> Idle]
  /\ UNCHANGED <<policy, row, filed, resting, placed>>

Step(r) ==
  \/ Stored(r) \/ Gated(r) \/ EnsureFirst(r) \/ BeginSubmit(r) \/ EnsureAfter(r)
  \/ AwaitingApproval(r) \/ EnsureForCancel(r) \/ OpenOnNode(r) \/ BeginCancel(r) \/ SendCancel(r)
  \/ PendingAction(r) \/ EnsureForDecision(r) \/ Admissible(r) \/ DecideRow(r)
  \/ Place(r) \/ PlaceShare(r) \/ SizedBookLost(r) \/ SizedBookLanded(r)
  \/ Settle(r) \/ SettleTimeout(r) \/ Finish(r)

Called(r) ==
  \E a \in Actions :
    \/ SubmitCalled(r, a)
    \/ \E t \in Actions \ {a} : CancelCalled(r, a, t)
    \/ \E op \in Decide : DecideCalled(r, a, op)

Next ==
  \/ \E r \in Requests : Called(r) \/ Step(r)
  \/ \E a \in Actions : Sandbox(a)
  \/ PutPolicy \/ FeedTurns \/ Crash

Spec == Init /\ [][Next]_vars

-------------------------------------------------------------------------------
(* Properties. *)

TypeOK ==
  /\ policy \in {"ALWAYS_ALLOW", "REQUIRE_APPROVAL"}
  /\ row \in [Actions -> [kind : {"ABSENT", "SUBMIT", "CANCEL"},
                          approval : {"ABSENT", "PENDING", "ALWAYS_ALLOW", "APPROVED", "DENIED"},
                          outcome : {"NULL"} \cup Answers, order : {"none"} \cup Actions]]
  /\ filed \in [Actions -> SUBSET Answers]
  /\ resting \subseteq Actions
  /\ up \in BOOLEAN
  /\ book \in [Actions -> Status]
  /\ sent \subseteq Actions /\ refused \subseteq Actions
  /\ ready \in BOOLEAN
  /\ req \in [Requests -> [op : {"none"} \cup Submit \cup Cancel \cup Decide,
                           pc : {"idle", "stored", "gate", "ensure", "begin", "restart", "waiting",
                                 "open", "send", "pending", "admit", "decide", "place", "confirm",
                                 "invalid", "settle", "finish"},
                           act : {"none"} \cup Actions, target : {"none"} \cup Actions,
                           started : BOOLEAN, answer : {"none"} \cup Answers]]
  /\ placed \in [Actions -> Nat]
  /\ crashes \in 0 .. MaxCrashes /\ cut \subseteq Actions

\* Through replays, racing decisions and crashes an action is recorded before
\* its order is placed, placed at most once and only if cleared, and answered
\* at most once (OrderPromise).
Promise == INSTANCE OrderPromise WITH
  Outcomes <- Answers \ {"DENIED"},
  gate <- [a \in Actions |-> row[a].approval],
  answer <- [a \in Actions |-> row[a].outcome]
PromiseKept == Promise!Spec

\* What a record answers is what the order's stored history says, whatever the
\* cache showed for a moment: ACCEPTED, FILLED, CANCELED and REJECTED have their
\* event stored (settled_submit, settled_cancel, capture_order).  The one exception:
\* a LIMIT matched in part on arrival answers ACCEPTED with its fill still queued,
\* and a daemon that dies there leaves the record without its history.
Backed(order, answer) ==
  \/ answer \in filed[order]
  \/ answer = "ACCEPTED" /\ (book[order] = "PARTIAL" \/ order \in cut)
AnswerFiled ==
  \A a \in Actions :
    row[a].outcome \in {"ACCEPTED"} \cup Closed => Backed(row[a].order, row[a].outcome)

\* R1 SPEC 4.2: the fill of a partially marketable order is authoritative in its history
\* a moment after the answer, "never lost".  So no death leaves an answer the history
\* does not have.
AnsweredNeverLost ==
  \A a \in Actions :
    row[a].outcome = "ACCEPTED" =>
      "ACCEPTED" \in filed[row[a].order] \/ book[row[a].order] = "PARTIAL"

\* An order whose stored history leaves it resting rests on every node the desk
\* runs: the snapshot a restart reads is never older than the history.
RestingSurvives ==
  \A a \in Actions :
    up /\ "ACCEPTED" \in filed[a] /\ filed[a] \cap Closed = {} => book[a] \in Open

\* a-share-engine SPEC 5.2, and the comment on cn::admit: an unavailable A-share
\* market leaves the action PENDING without recording a decision.  So, without a
\* crash, an approved order is handed over or answered once its call is over.
UnavailableLeavesPending ==
  \A a \in Actions :
    row[a].approval = "APPROVED" /\ placed[a] = 0 /\ row[a].outcome = "NULL" /\ crashes = 0
    => \E r \in Requests : req[r].op = "approve" /\ req[r].act = a
===============================================================================
