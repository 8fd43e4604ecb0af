SPECIFICATION Spec
CONSTANTS
  None = None
  Players = {p1, p2}
  Own = p1
  MaxLives = 2
  MaxHolders = 2
  MaxUp = 1
  MaxInputs = 1
  MaxDown = 2
INVARIANT
  SpawnsAndKillsAreTransmitted
