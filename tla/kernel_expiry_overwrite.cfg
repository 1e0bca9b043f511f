\* A sweep whose snapshot predates a decision.
SPECIFICATION Spec
CONSTANTS
  e1 = e1
  e2 = e2
  t1 = t1
  t2 = t2
  k1 = k1
  None = None
  Executions = {e1}
  Tenants = {t1}
  Keys = {}
  Clients = {c1}
  Sweepers = {s1}
  Calls <- GateCalls
  BatchSize = 1
INVARIANT ExpiresOnlyUndecided
\* Once every execution has finished there is nothing left to do.
CHECK_DEADLOCK FALSE
