SPECIFICATION FairSpec
\* nothing has to be asked of a daemon
CHECK_DEADLOCK FALSE
CONSTANTS
  r1 = r1  r2 = r2  d1 = d1
  Routes = {r1}  Desks = {d1}
  MaxCalls = 1  MaxDeaths = 1  MaxTurns = 2
INVARIANTS NoOrphan StoppedNotLost ReadyBacked TurnProjected
PROPERTIES StartSettles
