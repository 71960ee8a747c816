SPECIFICATION FairSpec
CONSTANTS
  r1 = r1
  r2 = r2
  Runs = {r1, r2}
  StepDefs <- EveryStep
  MaxResolves = 2
  MaxRejections = 1
INVARIANTS
  TypeOK
  FailuresAreAnswered
  OneIncidentPerDelivery
  SettledForAReason
  ExecutionsBounded
  LoggedEscalationIsFlagged
  DownServiceIsNotUsed
PROPERTIES
  HintsReachTheCall
  ImplementsContract
  RunsEnd
CHECK_DEADLOCK FALSE
