SPECIFICATION Spec
CONSTANTS
  j1 = j1
  o1 = o1
  NoJob = NoJob
  Jobs = {j1}
  Cancellers = {}
  Operators = {o1}
  StepCount = 1
  Workflows <- OneStepWorkflows
  LoadOrders <- AnyOrder
  DeliveryCount = 2
  DeadLetterCount = 1
  Concurrency = 1
  MaxStalledCount = 1
  MaxCrashes = 0
  MaxRejections = 0
INVARIANTS
  NoStrandedJob
CHECK_DEADLOCK FALSE
