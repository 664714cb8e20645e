--------------------------------- MODULE MCCn ---------------------------------
(***************************************************************************)
(* An instance of CnExecution for TLC.  The clock and a restart act on the *)
(* buys alone; the sells meet them in one morning, over two volumes.       *)
(***************************************************************************)
EXTENDS CnExecution

CONSTANTS b1, s1, m1

LimitPrices == [o \in Limits |-> 2]

Morning    == now = 0 /\ restarts = 0 /\ {inst.prev, poll.snap.volume} \subseteq NoVolume .. 1
Untouched  == \A o \in Sells : order[o].st = "NEW" /\ req[o].pc = "idle"
EitherNext == Next /\ (Morning \/ Untouched)'
EitherSpec == Init /\ [][EitherNext]_vars
===============================================================================
