SPECIFICATION Spec
CONSTANTS
  Jobs = {j1, j2, j3}
  Workers = {w1}
  NoJob = NoJob
  MaxPosition = 4
  Requests <- EveryRequest
  ReorderLists <- Lists
SYMMETRY Symmetry
INVARIANTS
  TypeOK
  PositionsAreDistinct
  StartedJobsLeftTheQueue
PROPERTIES
  StatusFollowsTheTable
  NumberingIsDense
  ImplementsPrintQueue
CHECK_DEADLOCK FALSE
