SPECIFICATION FairSpec
CONSTANTS
  Workers = {w1, w2}
  Ids = {u1, u2}
  Names = {admin, pupil}
  AdminName = admin
  NoRow = NoRow
  Changes <- PageChanges
  MaxAttempts = 1
  Window = 1
INVARIANTS
  TypeOK
  AttemptsAreBounded
PROPERTIES
  EditsChangeWhatTheyAskFor
  LockoutEnds
CHECK_DEADLOCK FALSE
