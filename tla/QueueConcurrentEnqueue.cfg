SPECIFICATION Spec
CONSTANTS
  Jobs = {j1, j2}
  Workers = {w1, w2}
  NoJob = NoJob
  MaxPosition = 3
  Requests <- EnqueueRequests
  ReorderLists <- NoLists
SYMMETRY Symmetry
INVARIANT
  PositionsAreDistinct
CHECK_DEADLOCK FALSE
