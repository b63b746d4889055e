\* Every pair of settings, of every parameter.
CONSTANT
  MaxSets = 2
SPECIFICATION Spec
CHECK_DEADLOCK FALSE
INVARIANTS
  ReadsBack
  SettersDisjoint
