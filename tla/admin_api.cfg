SPECIFICATION Spec
CONSTANTS
  admin = admin
  other = other
  r1 = r1
  r2 = r2
  s1 = s1
  s2 = s2
  None = None
  Tenants = {admin, other}
  Admin = admin
  order = order
  Names = {order}
  Demos <- OneDemo
  Requests = {r1, r2}
  Seeders = {s1, s2}
  MaxFaults = 1
INVARIANTS
  TypeOK
  JobsKeepTheirWorkflow
  AnswersAreTrue
  SeedingWorks
PROPERTIES
  TenantsAreIsolated
SYMMETRY Actors
CHECK_DEADLOCK FALSE
