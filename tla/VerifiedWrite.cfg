\* Two parameters, two values, two calls, a write by another node.  No symmetry: it
\* is unsound for liveness.
CONSTANTS
  Params = {p1, p2}
  Values = {v1, v2}
  Rejections = {1}
  Retries = 2
  MaxAttempts = 2
  WaitTime = 1
  PollSleeps = 1
  PollStep = 1
  QueueBound = 2
  MaxCalls = 2
  MaxForeign = 1
SPECIFICATION FairSpec
CHECK_DEADLOCK FALSE
INVARIANTS
  TrueIsAnswered
  TrueMeansStored
  CodeExplainsOutcome
  BlockingBounded
  IndInv
PROPERTIES
  ImplementsContract
  CallEnds
