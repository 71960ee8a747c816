SPECIFICATION Spec
CONSTANTS
  r1 = r1
  r2 = r2
  b1 = b1
  b2 = b2
  Requests = {r1, r2}
  Bodies = {b1, b2}
  MaxFaults = 0
INVARIANTS
  SubsequentIsReplayed
CHECK_DEADLOCK FALSE
