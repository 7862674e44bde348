SPECIFICATION FairSpec
CONSTANTS
  Admins = {a1}
  Tags <- ThreeTags
  MaxInstalls = 2
  MaxCrashes = 1
  None = None
INVARIANTS
  TypeOK
  SuccessMeansInstalled
  OffersAreNewer
PROPERTIES
  UpdatesSettle
CHECK_DEADLOCK FALSE
