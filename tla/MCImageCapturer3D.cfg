\* Two turns of five columns into a buffer of just that size; one transfer fails.
CONSTANTS
  MaxAngle = 7
  Parked = {0}
  Slaves = {"garmin", "simulator"}
  Builds = {"polling", "irq", "fake"}
  Faults = 1
  MinH = 1
  MaxH = 5
  ResH = 1
  MinV = 2
  MaxV = 4
  ResV = 1
  OffsetH = 2
  OffsetV = 3
  ImageSize = 20
SPECIFICATION FairSpec
INVARIANTS TypeOK IndexInBounds CaptureIsComplete PointIsNear
PROPERTIES CapturesGoOn
CHECK_DEADLOCK FALSE
