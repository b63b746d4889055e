\* Slots other than 0 do not read back.
CONSTANT
  MaxSets = 1
SPECIFICATION Spec
CHECK_DEADLOCK FALSE
INVARIANT
  SlotReadBack
