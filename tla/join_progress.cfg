SPECIFICATION FairSpec
CONSTANTS
  None = None
  bob = bob
  ann = ann
  e1 = e1
  Peers = {c1, c2}
  MaxPlayers = 2
  Leavers = {c1, c2}
  Bases = {bob, ann}
  Envs = {e1}
  Motds = {"motd"}
  ConnStats = {"stats"}
  FirstEnv = e1
  FirstMotd = "motd"
  JoinNicks <- OneNick
  NickRequests <- NoNicks
  TeamRequests <- SameTeam
  Commands <- NoCommands
  MaxUp = 1
  MaxDown = 1
  MaxSkies = 1
PROPERTIES
  JoinIsAnswered
  GoneAreRemoved
