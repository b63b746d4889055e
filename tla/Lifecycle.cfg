\* Two objects for different controllers, two descriptor numbers.
CONSTANTS
  Objects <- TwoObjects
  Device <- TwoDevices
  Descriptors = {3, 4}
  QueueBound = 2
  MaxFrames = 3
SPECIFICATION FairSpec
CHECK_DEADLOCK FALSE
INVARIANTS
  Ownership
  OwnsSocketInTurn
PROPERTIES
  DestroyEnds
  FramesHeard
