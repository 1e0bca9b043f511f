\* Two clients and a sweeper settle the gate of start(); transitions lead to a late one.
SPECIFICATION FairSpec
CONSTANTS
  e1 = e1
  e2 = e2
  t1 = t1
  t2 = t2
  k1 = k1
  None = None
  Executions = {e1}
  Tenants = {t1}
  Keys = {}
  Clients = {c1, c2}
  Sweepers = {s1}
  Calls <- LateGateCalls
  BatchSize = 1
PROPERTIES GateCloses ApprovalSettles
\* Once every execution has finished there is nothing left to do.
CHECK_DEADLOCK FALSE
