SPECIFICATION Spec
\* the daemon and its routes may have nothing to do
CHECK_DEADLOCK FALSE
ACTION_CONSTRAINT ClosesBeforeNext
CONSTANTS
  d1 = d1
  r1 = r1
  Desks = {d1}
  Routes = {r1}
  Installed = {"claude"}
  MaxProcs = 2
  MaxResults = 1
  MaxEvents = 1
  MaxLosses = 0
  MaxCrashes = 0
INVARIANTS
  OneAgent
