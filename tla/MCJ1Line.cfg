SPECIFICATION Spec
CONSTANTS
  Thread = {t1, t2}
  t1 = t1
  t2 = t2
  NoThread = NoThread
  Programs = {"driver", "firmware"}
  MaxQueries = 3
  MaxLost = 1
  MaxNoise = 1
SYMMETRY Symmetry
PROPERTY DoubleStopTogether
PROPERTY SilentOutOfStep
INVARIANT OwnReplies
CHECK_DEADLOCK FALSE
