SPECIFICATION Spec
CONSTANTS
  None = None
  bob = bob
  ann = ann
  e1 = e1
  Peers = {c1, c2}
  MaxPlayers = 2
  Leavers = {c1, c2}
  Bases = {bob, ann}
  Envs = {e1}
  Motds = {"motd"}
  ConnStats = {}
  FirstEnv = e1
  FirstMotd = "motd"
  JoinNicks <- OneNick
  NickRequests <- OneNick
  TeamRequests <- NoTeams
  Commands <- NoCommands
  MaxUp = 1
  MaxDown = 1
  MaxSkies = 1
SYMMETRY Symmetry
INVARIANTS
  SessionInv
  NicknamesDistinct
  OwnPlayerStays
  ReplayReachesServer
PROPERTY
  IsMembership
