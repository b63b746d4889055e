\* Both protocols on both firmwares, two calls, two other requests.
CONSTANTS
  MaxAttempts = 2
  WaitTime = 1
  PollSleeps = 1
  PollStep = 5
  QueueBound = 2
  MaxCalls = 2
  MaxOthers = 2
SPECIFICATION FairSpec
CHECK_DEADLOCK FALSE
INVARIANTS
  AnswersSafe
  SoundWhenAlone
  Sound25x
  BlockingBounded
PROPERTY
  QueryEnds
