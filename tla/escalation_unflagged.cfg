SPECIFICATION Spec
CONSTANTS
  r1 = r1
  r2 = r2
  Runs = {r1}
  StepDefs <- Unretried
  MaxResolves = 0
  MaxRejections = 0
INVARIANTS
  EscalationIsFlagged
CHECK_DEADLOCK FALSE
