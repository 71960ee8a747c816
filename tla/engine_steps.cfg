SPECIFICATION FairSpec
CONSTANTS
  j1 = j1
  c1 = c1
  NoJob = NoJob
  Jobs = {j1}
  Cancellers = {c1}
  Operators = {}
  StepCount = 2
  Workflows <- AllWorkflows
  LoadOrders <- AnyOrder
  DeliveryCount = 1
  DeadLetterCount = 3
  Concurrency = 1
  MaxStalledCount = 1
  MaxCrashes = 2
  MaxRejections = 2
INVARIANTS
  CompletedMeansSettled
  FailedHasCulprit
  NoStrandedJob
  CompensationIsComplete
PROPERTIES
  SettledStepsRerunOnlyAfterCrash
  ImplementsJobContract
  EveryDeliveryEnds
  SubmittedJobSettles
CHECK_DEADLOCK FALSE
