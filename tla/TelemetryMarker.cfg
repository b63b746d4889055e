\* Classic frames stamp the Status-2 marker of a 25.x object.
CONSTANTS
  Emitted <- PositionKinds
  QueueBound = 1
  MaxFrames = 1
  MaxClock = 0
SPECIFICATION Spec
CHECK_DEADLOCK FALSE
INVARIANT
  OnlyStatus2Stamps
