SPECIFICATION Spec
CONSTANTS
  None = None
  bob = bob
  ann = ann
  e1 = e1
  Peers = {c1}
  MaxPlayers = 1
  Leavers = {c1}
  Bases = {bob, ann}
  Envs = {e1, "e2"}
  Motds = {"motd"}
  ConnStats = {}
  FirstEnv = e1
  FirstMotd = "motd"
  JoinNicks <- OneNick
  NickRequests <- NoNicks
  TeamRequests <- NoTeams
  Commands <- AllCommands
  MaxUp = 1
  MaxDown = 1
  MaxSkies = 2
INVARIANTS
  TypeOK
  ServerGameHasEnv
  GameViewHasEnv
  ReplayReachesEnv
  SkyPacketsMatch
PROPERTY
  AdminByAuthOnly
