------------------------------ MODULE MCTerminal ------------------------------
(***************************************************************************)
(* An instance of Terminal for TLC.  Sockets are interchangeable; a second *)
(* child, keys or a reload, and a third byte come one of them at a time.   *)
(***************************************************************************)
EXTENDS Terminal, TLC

AnySocket  == Permutations(Sockets)

Extras == <<term[2].child # "none",
            reloads > 0 \/ \E s \in Sockets : keys[s] > 0,
            term[1].written + term[2].written = 3>>
EitherNext == TerminalNext /\ (Cardinality({i \in DOMAIN Extras : Extras[i]}) <= 1)'
EitherSpec == TerminalInit /\ [][EitherNext]_terminalVars
===============================================================================
