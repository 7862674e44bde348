SPECIFICATION FairSpec
CONSTANTS
  Admins = {a1}
  Tags <- ThreeTags
  MaxInstalls = 1
  MaxCrashes = 0
  None = None
PROPERTIES
  InstallsAreReported
CHECK_DEADLOCK FALSE
