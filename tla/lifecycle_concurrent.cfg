SPECIFICATION Spec
CONSTANTS
  d1 = d1
  o1 = o1
  o2 = o2
  r1 = r1
  r2 = r2
  s1 = s1
  Docs = {d1}
  NoDoc = NoDoc
  Ids = {1, 2}
  NoId = 0
  Operators = {o1}
  Reapers = {r1}
  Scanners = {s1}
  RememberArgs = {"yes"}
  GraceIsZero = FALSE
  MaxFaults = 1
  MaxCrawls = 1
  OwnerPatches = FALSE
INVARIANTS ClaimHeld
PROPERTIES ReapedOnlyWhenDue WaitingRoomSpec
CHECK_DEADLOCK FALSE
