\* Two sweepers and a client on two gated executions.
SPECIFICATION Spec
CONSTANTS
  e1 = e1
  e2 = e2
  t1 = t1
  t2 = t2
  k1 = k1
  None = None
  Executions = {e1, e2}
  Tenants = {t1}
  Keys = {}
  Clients = {c1}
  Sweepers = {s1, s2}
  Calls <- RaceCalls
  BatchSize = 2
INVARIANT NoDeadlock
PROPERTY ImplementsLifecycle
\* Once every execution has finished there is nothing left to do.
CHECK_DEADLOCK FALSE
