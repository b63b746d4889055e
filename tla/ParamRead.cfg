\* Two threads, two parameters; three calls; a frame of other traffic.
CONSTANTS
  Threads = {a, b}
  Params <- MCParams
  Values <- MCValues
  Stored <- MCStored
  QueueBound = 2
  MaxCalls = 3
  MaxNoise = 1
SPECIFICATION FairSpec
CHECK_DEADLOCK FALSE
INVARIANTS
  AnswersSafe
  NeverStuckInRead
PROPERTY
  ReadEnds
