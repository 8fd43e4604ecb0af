SPECIFICATION Spec
CONSTANTS
  Bases = {}
  MaxNumber = 2
  MaxLength = 4
CHECK_DEADLOCK FALSE
INVARIANT
  AllocatesUnused
