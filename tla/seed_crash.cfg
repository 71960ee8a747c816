SPECIFICATION Spec
CONSTANTS
  admin = admin
  other = other
  s1 = s1
  s2 = s2
  None = None
  Tenants = {admin, other}
  Admin = admin
  order = order
  Names = {order}
  Demos <- OneDemo
  Requests = {}
  Seeders = {s1, s2}
  MaxFaults = 1
INVARIANTS
  RerunLetsOneIn
CHECK_DEADLOCK FALSE
