\* Two connections, two executions of two tenants, workers and the sweep.
SPECIFICATION Spec
CONSTANTS
  Absent = Absent
  Blank = Blank
  DevSubject = DevSubject
  Upper <- ToUpper
  e1 = e1
  e2 = e2
  Executions = {e1, e2}
  Connections = {c1, c2}
  Headers <- People
  Env <- BehindProxy
  TenantOf <- TwoTenants
  Moves <- WorkerMoves
INVARIANTS TypeOK DecisionAuthorized AnswersAreTrue ActiveIsReached ReadsAreScoped
SYMMETRY AnyConnection
