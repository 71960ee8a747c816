SPECIFICATION Spec
CONSTANTS
  j1 = j1
  c1 = c1
  NoJob = NoJob
  Jobs = {j1}
  Cancellers = {c1}
  Operators = {}
  StepCount = 2
  Workflows <- HandledWorkflows
  LoadOrders <- DeclaredOrder
  DeliveryCount = 1
  DeadLetterCount = 1
  Concurrency = 1
  MaxStalledCount = 1
  MaxCrashes = 0
  MaxRejections = 0
INVARIANTS
  CancelledIsHonoured
CHECK_DEADLOCK FALSE
