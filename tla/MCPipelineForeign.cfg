\* Other nodes' frames arrive between the camera's; an image may not fit
\* or not load.
CONSTANTS
  Images = 2
  ChunksPerImage = 2
  FramesPerChunk = 2
  FaultKinds = {"trailingFF"}
  MaxFaults = 1
  ForeignIds = {"lidar", "other", "empty"}
  MaxForeign = 2
  FrameQueueLen = 4
  LidarQueueLen = 1
  SnapshotQueueLen = 2
  ImageKinds = {"expected", "oversize", "unloadable"}
SPECIFICATION Spec
INVARIANTS TypeOK WaitingIsAnswered PublishedWhole
CHECK_DEADLOCK FALSE
