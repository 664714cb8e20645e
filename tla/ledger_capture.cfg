SPECIFICATION Spec
CONSTANTS
  Buys = {b1, b2}
  Sells = {s1}
  Lots = 2
  MaxCrashes = 1
  MaxFailures = 1
CHECK_DEADLOCK FALSE
INVARIANT HistoryReplays
INVARIANT SnapshotMatchesHistory
INVARIANT StoredOnce
