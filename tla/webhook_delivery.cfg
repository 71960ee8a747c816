SPECIFICATION FairSpec
CONSTANTS
  d1 = d1
  Dispatches = {d1}
  MaxAttempts = 3
  MaxKeys = 3
  MaxRejections = 1
  MaxCrashes = 1
INVARIANTS
  TypeOK
  RowsTellTheTruth
  SignedByALivingKey
PROPERTIES
  AcceptedOnce
  DispatchesEnd
CHECK_DEADLOCK FALSE
