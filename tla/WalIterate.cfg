SPECIFICATION Spec
CONSTANTS
  Appends = {1, 2}
  DurableAppends = {}
  Flushes = {}
  ChannelCapacity = 2
  SegmentRecords = 1
  FsyncEveryN = 1
  FsyncInterval = FALSE
  IoMayFail = FALSE
  Thresholds = {0}
  MaxCompactions = 0
  MaxCrashes = 0
CHECK_DEADLOCK FALSE
INVARIANT IterateComplete
