---------------------------- MODULE PromptDelivery ----------------------------
(***************************************************************************)
(* What the daemon promises about a desk's prompts, without saying how: a  *)
(* prompt is queued, is handed to a runtime at most once and only when it  *)
(* is its desk's oldest, and is settled once, with an outcome that tells   *)
(* the truth about the handover or admits that it is not known.            *)
(***************************************************************************)
EXTENDS Integers, Sequences

CONSTANTS Desks

VARIABLES
  rows,   \* the prompts in insertion order: [desk, created, state, failure]
  given   \* the prompts some runtime has received

vars == <<rows, given>>

NotGiven == {"ACTIVATION_FAILED", "RUNTIME_UNAVAILABLE", "DELIVERY_REFUSED",
             "CHANNEL_UNAVAILABLE"}
Fresh    == [desk : Desks, created : Int, state : {"QUEUED"}, failure : {"none"}]
Waiting(p) == p \in DOMAIN rows /\ rows[p].state = "QUEUED"

Older(p, q) ==
  rows[p].created < rows[q].created \/ (rows[p].created = rows[q].created /\ p < q)

\* An outcome a prompt may be settled with.
Outcome(state, failure, received) ==
  \/ state = "DELIVERED" /\ failure = "none" /\ received
  \/ state = "FAILED" /\ failure \in NotGiven /\ ~received
  \/ state = "FAILED" /\ failure = "HANDOFF_UNKNOWN"

Init == rows = <<>> /\ given = {}

\* Prompts join a queue, anywhere in its order.
Add ==
  /\ Len(rows') > Len(rows)
  /\ SubSeq(rows', 1, Len(rows)) = rows
  /\ \A p \in Len(rows) + 1 .. Len(rows') : rows'[p] \in Fresh
  /\ UNCHANGED given

\* The oldest prompt waiting on its desk reaches a runtime, for the first time.
Give ==
  \E p \in DOMAIN rows :
    /\ Waiting(p) /\ p \notin given
    /\ \A q \in DOMAIN rows : Waiting(q) /\ rows[q].desk = rows[p].desk => ~Older(q, p)
    /\ given' = given \cup {p}
    /\ UNCHANGED rows

\* Some of the waiting prompts are settled; a settled one never changes again.
Settle ==
  /\ DOMAIN rows' = DOMAIN rows
  /\ \A p \in DOMAIN rows :
       \/ rows'[p] = rows[p]
       \/ /\ Waiting(p)
          /\ rows'[p].desk = rows[p].desk /\ rows'[p].created = rows[p].created
          /\ Outcome(rows'[p].state, rows'[p].failure, p \in given)
  /\ UNCHANGED given

Next == Add \/ Give \/ Settle

Spec == Init /\ [][Next]_vars
=============================================================================
