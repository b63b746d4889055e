\* A reader thread reads the socket that took over its object's descriptor.
CONSTANTS
  Objects <- TwoObjects
  Device <- TwoDevices
  Descriptors = {3}
  QueueBound = 1
  MaxFrames = 2
SPECIFICATION Spec
CHECK_DEADLOCK FALSE
INVARIANT
  OwnsSocket
