SPECIFICATION Spec
CONSTANTS
  RAW_MODULO = 40
  Threshold <- MCThreshold
  Medium = 2
  stop_margin_counts = 1
  MIN_JUMP = 3
  MAX_CPS = 3
  MAX_CONSECUTIVE_INVALID = 1
  OPPOSITE_COUNTS = 2
  MIN_PROGRESS = 2
  PROGRESS_WINDOW = 2
  RECOVERY_WINDOW = 2
  max_seconds = 5
  settle_seconds = 2
  max_delta_counts = 8
  Starts = {38}
  Targets = {6, 29}
  Speed <- MCSpeed
  Coast = 1
  MaxTicks = 2
  MaxLies = 1
INVARIANT TypeOK
INVARIANT NeverBlind
INVARIANT CountsAcrossWrap
INVARIANT OneOutlierHarmless
INVARIANT WithinLimit
PROPERTY Decelerates
PROPERTY EvidenceWithinMedium
CHECK_DEADLOCK FALSE
