SPECIFICATION FairSpec
CONSTANTS
  c1 = c1
  c2 = c2
  Client <- MCClient
  NoClient = NoClient
  MaxPieces = 2
  ClockModulus = 10
  kAdvertisementPeriod = 1
  kClientIdleTimeout = 2
  MaxDelay = 1
  MaxBlock = 1
INVARIANT AdvertisesPromptly
PROPERTY IdleOnlyWhenSilent
PROPERTY NewClientServed
INVARIANT OwnFramesInOrder
