SPECIFICATION FairSpec
CONSTANTS
  Axis = {az}
  Dir = {plus, minus}
  az = az
  plus = plus
  minus = minus
  Still = Still
  NoDir = NoDir
  MaxSamples = 3
  MaxFaults = 3
  MayShutdown = TRUE
INVARIANT TypeOK
INVARIANT OneOwner
INVARIANT InControl
PROPERTY PublishedStop
PROPERTY ManualAfterSafeStop
PROPERTY ImplementsService
PROPERTY EverythingEnds
CHECK_DEADLOCK FALSE
