SPECIFICATION Spec
CONSTANTS
  Urls = {Null, e1}
  Null = Null
  None = None
  Owners = {"server"}
  MaxStarts = 2
INVARIANT
  LoadMoreIsNeeded
CHECK_DEADLOCK FALSE
