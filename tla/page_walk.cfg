SPECIFICATION Spec
CONSTANTS
  null = null
  gone = gone
  MaxDoc = 4
  Keys = {1, 2}
  Null = null
  Gone = gone
  Sorts = {"updated_desc", "updated_asc", "chunks_desc", "chunks_asc", "id_asc", "id_desc", "boost_desc"}
  Kinds = {"cursor", "numbered", "stream"}
  Limit = 1
  Batch = 2
  StreamLimit = 5
  MaxDepth = 4
  MaxEdits = 2
  MaxFaults = 1
INVARIANTS TypeOK NoRowTwice WalkComplete
CHECK_DEADLOCK FALSE
