SPECIFICATION FairSpec
CONSTANTS
  all = all
  some = some
  recency = recency
  chunks = chunks
  MaxDoc = 2
  Queries = {all, some}
  Blank = {all}
  Match <- Matches
  SortOf <- TwoSorts
  PageSize = 1
  Near = 0
  Cap = 8
  MaxKeys = 3
  MaxFaults = 1
INVARIANTS TypeOK ListMatchesQuery DeletesAreNamed
PROPERTIES LoadingEnds
CHECK_DEADLOCK FALSE
