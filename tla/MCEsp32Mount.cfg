SPECIFICATION FairSpec
CONSTANTS
  kPositionModulus = 6
  goto_duration = 3
  ClockModulus = 6
  MaxStep = 2
  MaxFrames = 2
  Speeds <- MCSpeeds
  Medium = 2
  Targets <- MCTargets
  Start = 1
  AuxFullTurn = 16
  AxisConfig <- MCAxisConfig
  AuxConfigs <- MCAuxConfigs
INVARIANT TypeOK
INVARIANT CoordinatesHold
PROPERTY CompletedAtTargetOneByOne
PROPERTY GotoApproaches
PROPERTY GotoEnds
PROPERTY ObeysFrames
