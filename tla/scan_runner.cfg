SPECIFICATION FairSpec
CONSTANTS
  old = old
  new = new
  o1 = o1
  stub = stub
  variant = variant
  junk = junk
  policy = policy
  MaxDoc = 3
  MaxScan = 1
  Runners = {old, new}
  Older = {old}
  Operators = {o1}
  Detectors = {stub, variant}
  Foreign = policy
  LastPhase = 2
  PhasesOf <- TwoPhases
  Content = {stub}
  Label <- Labels
  Requests <- Both
  AtFirst <- Found
  RowsAtFirst <- Earlier
  PageSize = 2
  MaxRetries = 1
  MaxFaults = 2
  MaxEdits = 1
INVARIANTS TypeOK CheckpointBacked DoneIsComplete FlaggedSurvives CancelBounded
PROPERTIES FailedOnlyAfterRetries ScanEnds
CHECK_DEADLOCK FALSE
