SPECIFICATION FairSpec
CONSTANTS
  Urls = {Null, e1}
  Null = Null
  None = None
  Owners = {"server", "client", "sandbox"}
  MaxStarts = 4
INVARIANTS
  TypeOK
  WorkerIsOwned
  SkyIsOnWholeMap
  SandboxSkyHasItsMap
  ServerSurvivesErrors
  ClientLoadsOnce
PROPERTIES
  LoadingEnds
  IsHandle
CHECK_DEADLOCK FALSE
