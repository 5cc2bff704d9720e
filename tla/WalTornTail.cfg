SPECIFICATION Spec
CONSTANTS
  Appends = {1, 2}
  DurableAppends = {}
  Flushes = {}
  ChannelCapacity = 2
  SegmentRecords = 2
  FsyncEveryN = 0
  FsyncInterval = FALSE
  IoMayFail = FALSE
  Thresholds = {0}
  MaxCompactions = 0
  MaxCrashes = 2
CHECK_DEADLOCK FALSE
INVARIANT TornTailTolerated
