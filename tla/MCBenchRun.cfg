SPECIFICATION Spec
CONSTANTS
    Scripts = {"AltPeriodicDrag", "AltDragReverse", "AzDirectReverse", "AzReverse", "SpeedTest", "AltSpeedTest", "Rollover", "OtherRollover", "AltRollover", "GotoRelative", "SlowRollover", "WrapCapture", "DualProbe", "MoveFor", "SpeedCharacterize", "AzWrapRecover", "AzMotorExercise", "SpeedRamp", "AltBreakaway", "AltLongRun", "LowSpeed", "AzStartSustain", "AzTransition", "AzTransitionCycles", "AzScopeCapture"}
    Laps = 4
    MAX_BAD = 2
    MaxRounds = 2
    MaxFaults = 2
    MaxInterrupts = 2
INVARIANTS NeverLeftRunning NotDrivenBlind
PROPERTY MotionEnds
CHECK_DEADLOCK FALSE
