SPECIFICATION Spec
CONSTANTS
  Bases = {}
  MaxNumber = 4
  MaxLength = 5
CHECK_DEADLOCK FALSE
INVARIANTS
  SmallestUnlessTwins
  FreshWhenDistinct
