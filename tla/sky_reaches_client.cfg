SPECIFICATION FairSpec
CONSTANTS
  None = None
  bob = bob
  ann = ann
  e1 = e1
  Peers = {c1}
  MaxPlayers = 1
  Leavers = {}
  Bases = {bob, ann}
  Envs = {e1}
  Motds = {"motd"}
  ConnStats = {}
  FirstEnv = e1
  FirstMotd = "motd"
  JoinNicks <- OneNick
  NickRequests <- NoNicks
  TeamRequests <- NoTeams
  Commands <- StartOnly
  MaxUp = 1
  MaxDown = 1
  MaxSkies = 1
PROPERTY
  SkyReachesClient
