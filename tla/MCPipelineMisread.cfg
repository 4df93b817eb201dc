\* Frames that are no markers are taken for markers, the camera's own and others',
\* and the camera may not wait for its answer.
CONSTANTS
  Images = 2
  ChunksPerImage = 2
  FramesPerChunk = 1
  FaultKinds = {"marker", "impatient"}
  MaxFaults = 1
  ForeignIds = {"short"}
  MaxForeign = 1
  FrameQueueLen = 2
  LidarQueueLen = 1
  SnapshotQueueLen = 2
  ImageKinds = {"expected", "small"}
SPECIFICATION Spec
INVARIANTS IdleIsCurrent
PROPERTIES NotificationTaken
CHECK_DEADLOCK FALSE
