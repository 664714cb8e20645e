SPECIFICATION FairSpec
\* the desks may be left alone
CHECK_DEADLOCK FALSE
CONSTANTS
  Names = {n1}
  Callers = {c1, c2}
  MaxDesks = 1
  MaxFaults = 2
  MaxEdits = 2
  MaxCrashes = 2
PROPERTIES ReadyComplete AgentsKept CreationEnds
