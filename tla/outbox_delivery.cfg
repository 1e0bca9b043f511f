\* Two publishers and two worker slots on one execution.
SPECIFICATION FairSpec
CONSTANTS
  None = None
  Executions = {e1}
  Publishers = {p1, p2}
  Workers = {w1, w2}
  Targets <- CallerTargets
  BatchSize = 1
  Attempts = 3
  MaxStalls = 1
INVARIANTS TypeOK DispatchedHasJob CompletedIsAccepted GateBeforeQueue
PROPERTIES FinishedStaysFinished ImplementsLifecycle WorkIsAccepted
\* When the job has finished and the row is DISPATCHED nothing is left to do.
CHECK_DEADLOCK FALSE
