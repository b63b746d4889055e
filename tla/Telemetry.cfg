\* Every kind of frame, every combination of protocol and firmware, siblings.
CONSTANTS
  Emitted <- AllKinds
  QueueBound = 2
  MaxFrames = 2
  MaxClock = 1
SPECIFICATION FairSpec
CHECK_DEADLOCK FALSE
INVARIANTS
  AgesTrue
  AgeThenValueIsSafe
  OwnedWhenMatched
PROPERTIES
  OnlyNewer
  PositionArrives
