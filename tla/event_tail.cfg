CONSTANTS
  Clients = {c1}
  MaxInstant = 6
  InFlight = 2
  DeskRows = {3}
  Page = 2
  Queue = 1
  Wire = 1
  MaxDrops = 1
  MaxRestarts = 1
CHECK_DEADLOCK FALSE
SPECIFICATION FairSpec
INVARIANTS SeenOnce Gapless
PROPERTY Arrives
