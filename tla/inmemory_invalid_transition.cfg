\* One execution, three calls.
SPECIFICATION Spec
CONSTANTS
  Executions = {e1}
  MaxEvents = 3
INVARIANT InvalidTransitionsRejected
\* The bound on the history stops the model.
CHECK_DEADLOCK FALSE
