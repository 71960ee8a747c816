SPECIFICATION FairSpec
CONSTANTS
  x = x
  Nothing = Nothing
  Pages = {"jobs", "incidents", "dlq"}
  Things = {x}
  ClickCount = 2
  MaxEvents = 2
  MaxFaults = 1
INVARIANTS
  RequeuedOnce
  ResolvedIsNotOffered
PROPERTIES
  ViewsCatchUp
CHECK_DEADLOCK FALSE
