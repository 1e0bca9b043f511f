\* Two callers that start and stop the loop, a direct caller of runOnce().
SPECIFICATION FairSpec
CONSTANTS
  None = None
  Callers = {u1, u2}
  Direct = {d1}
  Chains = {c1, c2, c3}
  Options <- BoundaryOptions
INVARIANTS NonOverlap SingleChain BackoffBounded
PROPERTIES ImplementsPromise PollsForever KeepsPromise
