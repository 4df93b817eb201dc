\* The camera alone on the bus, waiting for each confirmation, nothing lost;
\* a fair scheduler and a camera that goes on sending.
CONSTANTS
  Images = 3
  ChunksPerImage = 2
  FramesPerChunk = 2
  FaultKinds = {"trailingFF"}
  MaxFaults = 2
  ForeignIds = {}
  MaxForeign = 0
  FrameQueueLen = 2
  LidarQueueLen = 1
  SnapshotQueueLen = 2
  ImageKinds = {"expected", "small"}
SPECIFICATION FairSpec
INVARIANTS ClearLosesNothing
PROPERTIES ConfirmedIsAssembled CopyIsUndisturbed DeliverySpec ImagesArrive ShownIsClassified
CHECK_DEADLOCK FALSE
