------------------------------- MODULE MCFirings -------------------------------
(***************************************************************************)
(* Instances of Firings for TLC.  All triggers are on one desk, or each on *)
(* a desk of its own.                                                      *)
(***************************************************************************)
EXTENDS Firings

CONSTANTS d1, d2

SameDesk == [t \in Triggers |-> d1]
OwnDesk  == [t \in Triggers |-> IF t = 1 THEN d1 ELSE d2]

\* Either schedules or code: with code, a trigger is not changed and the clock stops at
\* its first occurrence.  Nobody owes the daemon what this holds back, a patch or a tick.
Plain      == snapshots = <<>> /\ policy = "REQUIRE_APPROVAL"
Brief      == now <= 2 /\ \A t \in Triggers : triggers[t].revision <= 1
EitherNext == Next /\ (Plain \/ Brief)'
EitherSpec == Init /\ [][EitherNext]_vars /\ Fairness
=============================================================================
