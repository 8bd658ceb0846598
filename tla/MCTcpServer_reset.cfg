SPECIFICATION FairSpec
CONSTANTS
  Client = {c1, c2}
  c1 = c1
  c2 = c2
  NoClient = NoClient
  MaxPieces = 2
  IdleTimeouts = 2
  MayVanish = TRUE
  MaxRaises = 0
  MayStop = FALSE
PROPERTY NewClientServed
CHECK_DEADLOCK FALSE
