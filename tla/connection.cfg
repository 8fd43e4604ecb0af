SPECIFICATION FairSpec
CONSTANTS
  PeerCount = 2
  Sessions = 4
  MaxAnswers = 2
  MaxAttempts = 2
  None = None
INVARIANTS
  TypeOK
  RegisteredAreConnected
  ServerPointerIsLive
PROPERTIES
  EventsAreInOrder
  GoneAreForgotten
  ExitEnds
  NobodyHangs
CHECK_DEADLOCK FALSE
