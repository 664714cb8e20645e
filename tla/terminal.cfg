SPECIFICATION EitherSpec
\* nobody may be watching
CHECK_DEADLOCK FALSE
CONSTANTS
  Panes = {v1}
  Sockets = {s1, s2}
  Threads = {a1}
  MaxTerms = 2
  MaxBytes = 3
  Ring = 1
  SendBuffer = 1
  Wire = 1
  MaxKeys = 1
  MaxReloads = 1
INVARIANTS ExitLast Contiguous NeverLeftWaiting
SYMMETRY AnySocket
