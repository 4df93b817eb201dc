\* The simulator's master and a bus that may lose any frame; three rounds and more.
CONSTANTS
  Second = 6
  Word = 16
  RefSeconds = 1
  Gap = 1
  Period = 4
  Jitter = 1
  MaxDelay = 1
  MaxTime = 18
SPECIFICATION SimSpec
INVARIANTS TypeOK NeverAhead LossCostsWholeSeconds CompleteRoundIsAccurate
CHECK_DEADLOCK FALSE
