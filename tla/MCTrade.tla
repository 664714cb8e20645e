-------------------------------- MODULE MCTrade -------------------------------
(* TradeAction for TLC: route calls are interchangeable. *)
EXTENDS TradeAction, TLC

Callers == Permutations(Requests)
===============================================================================
