SPECIFICATION Spec
CONSTANTS
  Jobs = {j1, j2}
  Workers = {w1}
  NoJob = NoJob
  MaxPosition = 3
  Requests <- EveryRequest
  ReorderLists <- NoLists
SYMMETRY Symmetry
INVARIANT
  ApprovedJobsCanBeEnqueued
CHECK_DEADLOCK FALSE
