\* Two clients and a sweeper on two gated executions, one through the table.
SPECIFICATION Spec
CONSTANTS
  e1 = e1
  e2 = e2
  t1 = t1
  t2 = t2
  k1 = k1
  None = None
  Executions = {e1, e2}
  Tenants = {t1}
  Keys = {}
  Clients = {c1, c2}
  Sweepers = {s1}
  Calls <- TableRaceCalls
  BatchSize = 2
INVARIANTS TypeOK StatusIsLastEvent DispatchJustified VerdictHonoured
INVARIANTS WaitingIsDecidable ReadsStayValid LegalHistory
\* Once every execution has finished there is nothing left to do.
CHECK_DEADLOCK FALSE
