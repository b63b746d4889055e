\* Two threads, two objects of either protocol, two valid calls and a slot change.
CONSTANTS
  Threads = {a, b}
  Objects = {m1, m2}
  Ops <- MCOps
  Values <- MCValues
  NewSlots = {2, 4}
  MaxAttempts = 2
  QueueBound = 2
  MaxCalls = 2
  MaxChanges = 1
  MaxLapses = 1
SPECIFICATION FairSpec
CHECK_DEADLOCK FALSE
INVARIANTS
  IndInv
  SlotAsChosen
  ObeysLastWord
  SafeSetpoints
PROPERTIES
  HeartbeatReachesAll
  ImplementsContract
  CallEnds
