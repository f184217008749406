SPECIFICATION Spec
CONSTANTS
  FAST_POLL_INTERVAL = 1
  SLOW_POLL_INTERVAL = 2
  ERROR_POLL_INTERVAL = 2
  INITIALIZING_DURATION = 1
  WRAP = 8
  MAX_TIMESTAMP_OFFSET = 1
  MAX_LATENCY = 1
  MAX_PLAYHEAD_OFFSET_COUNT = 2
  MIN_PLAYHEAD_INTERVAL = 1
  MIN_LATENCY_INTERVAL = 2
  SECOND = 1
  SAMPLE_RATE = 2
  LATE = 1
  FORCE = 1
  PACKET = 2
  Devices <- MCDevices
  Errors <- MCErrors
  Boot = 3
  MaxTime = 10
  MaxVideo = 2
  MaxAudio = 3
  MaxConnections = 2
CHECK_DEADLOCK FALSE
INVARIANTS
  HeadCountsFrames
  FramesKeepToAudio
