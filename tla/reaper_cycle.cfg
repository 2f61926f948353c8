SPECIFICATION FairSpec
CONSTANTS
  p1 = p1
  r1 = r1
  r2 = r2
  None = None
  MaxRow = 3
  DueAtStart = {1, 2}
  Reapers = {r1}
  Pairs = {p1}
  PairOf <- SecondHasPair
  Unreadable = {1}
  MaxPerHour = 1
  BatchSize = 2
  MaxFaults = 2
INVARIANTS TypeOK OvershootBounded RowsTellTheTruth
PROPERTIES DeferredIsResolved
CHECK_DEADLOCK FALSE
