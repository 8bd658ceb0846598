SPECIFICATION FairSpec
CONSTANTS
  AZ = AZ
  ALT = ALT
  NoAxis = NoAxis
  ByHand = {ALT}
INVARIANT Consistent
INVARIANT SecondTouch
INVARIANT HarmNeedsOverlap
PROPERTY StagesFollow
CHECK_DEADLOCK FALSE
