SPECIFICATION Spec
CONSTANTS
  Jobs = {j1, j2}
  Workers = {w1, w2}
  NoJob = NoJob
  MaxPosition = 2
  Requests <- QueueRequests
  ReorderLists <- NoLists
SYMMETRY Symmetry
INVARIANTS
  QueuedJobsArePositioned
CHECK_DEADLOCK FALSE
