\* Frames, markers and confirmations get lost, texts end in 0xFF, the camera
\* times out and repeats the chunk or goes on, and a frame of another node comes
\* at any moment.
CONSTANTS
  Images = 3
  ChunksPerImage = 2
  FramesPerChunk = 2
  FaultKinds = {"loss", "trailingFF"}
  MaxFaults = 2
  ForeignIds = {"lidar", "empty"}
  MaxForeign = 1
  FrameQueueLen = 8
  LidarQueueLen = 1
  SnapshotQueueLen = 4
  ImageKinds = {"expected"}
SPECIFICATION Spec
INVARIANTS PublishedInOrder LossIsContained CommSurvives
PROPERTIES LossyDeliverySpec
CHECK_DEADLOCK FALSE
