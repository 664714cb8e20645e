SPECIFICATION Spec
\* the daemon and its routes may have nothing to do
CHECK_DEADLOCK FALSE
CONSTANTS
  d1 = d1
  r1 = r1
  Desks = {d1}
  Routes = {}
  Installed = {"codex"}
  MaxProcs = 2
  MaxResults = 2
  MaxEvents = 1
  MaxLosses = 0
  MaxCrashes = 1
INVARIANTS
  AtMostOnce
  OutcomeTruthful
  DisclosedOnce
PROPERTIES
  DeliveryPromise
