SPECIFICATION EitherSpec
\* the market may be quiet
CHECK_DEADLOCK FALSE
CONSTANTS
  Buys = {b1}
  Sells = {s1, m1}
  Markets = {m1}
  b1 = b1
  s1 = s1
  m1 = m1
  Limit <- LimitPrices
  Prices = {1, 2, 3}
  Held = 1
  MaxVolume = 2
  Times = {0, 1, 3, 4}
  MaxRestarts = 1
INVARIANTS RestsAtSubmission NothingBoughtTodayIsSold SectionOwned DayEnds
PROPERTY CrossesOnGrowth
