SPECIFICATION FairSpec
CONSTANTS
  Axis = {az}
  Dir = {plus, minus}
  az = az
  plus = plus
  minus = minus
  Still = Still
  NoDir = NoDir
  MaxSamples = 1
  MaxFaults = 0
  MayShutdown = FALSE
PROPERTY ProvedStopIsReported
CHECK_DEADLOCK FALSE
