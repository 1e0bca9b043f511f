\* Two publishers in batches of two; no worker.
SPECIFICATION PublishSpec
CONSTANTS
  None = None
  Executions = {e1, e2}
  Publishers = {p1, p2}
  Workers = {}
  Targets <- GateTargets
  BatchSize = 2
  Attempts = 3
  MaxStalls = 1
PROPERTY DispatchSettles
\* Once every row is DISPATCHED and no gate is open nothing is left to do.
CHECK_DEADLOCK FALSE
