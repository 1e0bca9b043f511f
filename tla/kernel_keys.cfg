\* Three clients start executions under one key of two tenants.
SPECIFICATION Spec
CONSTANTS
  e1 = e1
  e2 = e2
  t1 = t1
  t2 = t2
  k1 = k1
  None = None
  Executions = {e1, e2}
  Tenants = {t1, t2}
  Keys = {k1}
  Clients = {c1, c2, c3}
  Sweepers = {}
  Calls <- KeyCalls
  BatchSize = 1
INVARIANTS AnswersAgree RetryNeverCollides
\* Once every execution has finished there is nothing left to do.
CHECK_DEADLOCK FALSE
