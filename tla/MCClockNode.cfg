\* The node's master, which sends once.
CONSTANTS
  Second = 6
  Word = 16
  RefSeconds = 1
  Gap = 1
  Period = 4
  Jitter = 1
  MaxDelay = 1
  MaxTime = 6
SPECIFICATION NodeSpec
INVARIANTS CompleteRoundIsAccurate
CHECK_DEADLOCK FALSE
