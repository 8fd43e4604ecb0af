SPECIFICATION Spec
CONSTANTS
  Windows = 6
  WindowSize = 2
  FreeWindows = 3
  InTransit = 2
  Lifetime = 6
  Continued = {2, 6, 7, 12, 14}
  MaxCommands = 14
  MaxBacklog = 2
  MaxDatagrams = 2
  MaxAcks = 1
INVARIANTS
  TypeOK
  ForgottenHasArrived
  NextInLineIsDispatched
  WindowsCount
PROPERTY
  IsQueue
CHECK_DEADLOCK FALSE
