SPECIFICATION Spec
CONSTANTS
  d1 = d1
  o1 = o1
  o2 = o2
  r1 = r1
  q1 = q1
  Docs = {d1}
  NoDoc = NoDoc
  Operators = {o1, o2}
  Reapers = {r1}
  Drains = {q1}
  Abortable = {o1, o2, r1, q1}
  MaxVersion = 2
  MaxFaults = 2
  Troubles = {"drain", "enqueue"}
INVARIANTS TypeOK NoThirdState
PROPERTIES VaultSpec
SYMMETRY Symmetry
CHECK_DEADLOCK FALSE
