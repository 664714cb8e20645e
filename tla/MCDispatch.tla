------------------------------ MODULE MCDispatch ------------------------------
(***************************************************************************)
(* An instance of Dispatch for TLC: one route races the dispatcher over    *)
(* two children.  A bridge may close only before the second child starts.  *)
(***************************************************************************)
EXTENDS Dispatch

BridgeCloses     == \E d \in Desks : chan[d] # NoProc /\ chan'[d] = NoProc
ClosesBeforeNext == BridgeCloses => Len(procs) = 1
===============================================================================
