SPECIFICATION Spec
\* The clock, the revisions and the daemon's lives are bounded: the system may stop.
CHECK_DEADLOCK FALSE
CONSTANTS
  Triggers = {1}  d1 = d1  d2 = d2  Desks = {d1}  Home <- SameDesk
  Routes = {r1}  Requests = {q1}  NoRequest = NoRequest  Codes = {c1, c2}  NoCode = NoCode
  Candidates = {2}  Instants = {2}  Late = 1
  MaxTime = 2  MaxRevision = 2  MaxDeaths = 1
INVARIANTS ApprovedOnly RunOnce DeskServed
