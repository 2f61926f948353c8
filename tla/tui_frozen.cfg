SPECIFICATION Spec
CONSTANTS
  all = all
  some = some
  recency = recency
  chunks = chunks
  MaxDoc = 2
  Queries = {all, some}
  Blank = {all}
  Match <- Matches
  SortOf <- TwoSorts
  PageSize = 1
  Near = 0
  Cap = 2
  MaxKeys = 6
  MaxFaults = 0
INVARIANTS NoMutualWait
CHECK_DEADLOCK FALSE
