\* Production, and development with a second tenant to connect to.
SPECIFICATION FairSpec
CONSTANTS
  None = None
  e1 = e1
  e2 = e2
  t1 = t1
  t2 = t2
  Executions = {e1, e2}
  Tenants = {t1, t2}
  TenantOf <- OneTenant
  Verdicts = {"EXECUTION"}
  MaxRequests = 2
INVARIANTS TypeOK ShownWasTrue
PROPERTIES DecisionsStayInTenant Settles ButtonsReturn
