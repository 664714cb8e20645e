SPECIFICATION EitherSpec
\* The clock, the revisions and the daemon's lives are bounded: the system may stop.
CHECK_DEADLOCK FALSE
CONSTANTS
  Triggers = {1}  d1 = d1  d2 = d2  Desks = {d1}  Home <- SameDesk
  Routes = {r1}  Requests = {q1}  NoRequest = NoRequest  Codes = {c1}  NoCode = NoCode
  Candidates = {2, 4}  Instants = {3}  Late = 1
  MaxTime = 4  MaxRevision = 3  MaxDeaths = 1
INVARIANTS OccurrenceOnce SingleShot
PROPERTIES NothingDueDropped DueResolved Answered
