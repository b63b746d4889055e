\* A response that was received may still be reported as none.
CONSTANTS
  Threads = {a}
  Params <- MCParams
  Values <- MCValues
  Stored <- MCStored
  QueueBound = 2
  MaxCalls = 1
  MaxNoise = 0
SPECIFICATION Spec
CHECK_DEADLOCK FALSE
INVARIANT
  NullMeansSilence
