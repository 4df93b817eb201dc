\* Room for two frames, three looks at a full FIFO, an error counter that wraps.
CONSTANTS
  FifoDepth = 2
  Retries = 2
  ModeRetries = 1
  ErrorWord = 2
SPECIFICATION FairSpec
INVARIANTS TypeOK SetUpOnce DeafWindowIsShort FramesAreTheirCalls
PROPERTIES TransmitReturns
CHECK_DEADLOCK FALSE
