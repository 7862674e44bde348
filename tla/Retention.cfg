SPECIFICATION FairSpec
CONSTANTS
  Jobs = {j1, j2}
  Runs = {scheduled, admin}
  Scheduled = scheduled
  Commits = {"PRINTING", "FINISHED", "REJECTED"}
  MaxArtifacts = 1
  MaxRequests = 1
  MaxFaults = 1
INVARIANTS
  TypeOK
  PrintableJobsHaveTheirModel
  DeletedJobsLeaveNoFiles
  FilesAreFreedOnce
PROPERTIES
  OnlyDueFilesVanish
  DueJobsAreCleaned
  ImplementsFileStore
CHECK_DEADLOCK FALSE
