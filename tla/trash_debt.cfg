SPECIFICATION FairSpec
CONSTANTS
  d1 = d1
  o1 = o1
  o2 = o2
  r1 = r1
  q1 = q1
  Docs = {d1}
  NoDoc = NoDoc
  Operators = {o1}
  Reapers = {r1}
  Drains = {q1}
  Abortable = {r1, q1}
  MaxVersion = 2
  MaxFaults = 2
  Troubles = {}
INVARIANTS OrphansAreQueued
PROPERTIES OrphansAreCleared
CHECK_DEADLOCK FALSE
