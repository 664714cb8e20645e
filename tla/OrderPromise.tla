----------------------------- MODULE OrderPromise -----------------------------
(***************************************************************************)
(* What a trading action promises whoever sends it, without threads, units *)
(* or nodes: an order is recorded before it is placed, placed at most once *)
(* and only when it was never gated or has been approved, and answered at  *)
(* most once with one outcome that never changes.  TradeAction implements  *)
(* it, through crashes, replays and racing decisions.                      *)
(***************************************************************************)
EXTENDS Naturals

CONSTANTS
  Actions,   \* action identities of one desk
  Outcomes   \* what a record may answer with, once it answers

VARIABLES
  gate,      \* action -> "ABSENT", "PENDING", "ALWAYS_ALLOW", "APPROVED", "DENIED"
  placed,    \* action -> how often the sandbox was handed its order
  answer     \* action -> "NULL" or one of Outcomes

promise == <<gate, placed, answer>>

Cleared == {"ALWAYS_ALLOW", "APPROVED"}

Init ==
  /\ gate = [a \in Actions |-> "ABSENT"]
  /\ placed = [a \in Actions |-> 0]
  /\ answer = [a \in Actions |-> "NULL"]

\* A submit or a cancel is recorded; only an order may have to wait.
Record(a) ==
  /\ gate[a] = "ABSENT"
  /\ \E g \in {"ALWAYS_ALLOW", "PENDING"} : gate' = [gate EXCEPT ![a] = g]
  /\ UNCHANGED <<placed, answer>>

Approve(a) ==
  /\ gate[a] = "PENDING"
  /\ gate' = [gate EXCEPT ![a] = "APPROVED"]
  /\ UNCHANGED <<placed, answer>>

\* A denial is an answer.
Deny(a) ==
  /\ gate[a] = "PENDING"
  /\ gate' = [gate EXCEPT ![a] = "DENIED"]
  /\ answer' = [answer EXCEPT ![a] = "DENIED"]
  /\ UNCHANGED placed

Place(a) ==
  /\ gate[a] \in Cleared /\ placed[a] = 0 /\ answer[a] = "NULL"
  /\ placed' = [placed EXCEPT ![a] = 1]
  /\ UNCHANGED <<gate, answer>>

\* The answer lands once.  A refusal before the sandbox is an answer of a
\* cleared order that was never placed, and then never is.
Conclude(a) ==
  /\ gate[a] \in Cleared /\ answer[a] = "NULL"
  /\ \E o \in Outcomes :
       /\ o = "ORDER_INVALID" => placed[a] = 0
       /\ answer' = [answer EXCEPT ![a] = o]
  /\ UNCHANGED <<gate, placed>>

Next == \E a \in Actions : Record(a) \/ Approve(a) \/ Deny(a) \/ Place(a) \/ Conclude(a)

Spec == Init /\ [][Next]_promise
===============================================================================
