SPECIFICATION FairSpec
CONSTANTS
  Client = {c1, c2}
  c1 = c1
  c2 = c2
  NoClient = NoClient
  MaxPieces = 4
  IdleTimeouts = 2
  MayVanish = TRUE
  MaxRaises = 1
  MayStop = TRUE
PROPERTY KeepsTalkers
PROPERTY ServesAndStops
INVARIANT OwnFramesInOrder
CHECK_DEADLOCK FALSE
