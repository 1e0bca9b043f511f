\* Both signals, a worker with two slots, both loops at work.
SPECIFICATION FairSpec
CONSTANTS
  Signals = {SIGINT, SIGTERM}
  Slots = {w1, w2}
INVARIANTS ConnectionsOutliveWork CleanExit
PROPERTY ShutdownCompletes
\* The process may exit.
CHECK_DEADLOCK FALSE
