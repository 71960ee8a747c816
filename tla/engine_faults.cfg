SPECIFICATION Spec
CONSTANTS
  j1 = j1
  c1 = c1
  o1 = o1
  o2 = o2
  NoJob = NoJob
  Jobs = {j1}
  Cancellers = {c1}
  Operators = {o1, o2}
  StepCount = 1
  Workflows <- OneStepWorkflows
  LoadOrders <- AnyOrder
  DeliveryCount = 3
  DeadLetterCount = 2
  Concurrency = 2
  MaxStalledCount = 1
  MaxCrashes = 1
  MaxRejections = 1
INVARIANTS
  TypeOK
  RunningHasCarrier
  FailedJobIsRecoverable
  NotifiesTheEnd
PROPERTY TerminalStable
CONSTRAINT OneFaultAtATime
SYMMETRY OperatorSymmetry
CHECK_DEADLOCK FALSE
