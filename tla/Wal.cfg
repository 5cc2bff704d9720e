SPECIFICATION FairSpec
CONSTANTS
  Appends = {1, 2, 3}
  DurableAppends = {3}
  Flushes = {1}
  ChannelCapacity = 2
  SegmentRecords = 1
  FsyncEveryN = 2
  FsyncInterval = TRUE
  IoMayFail = TRUE
  Thresholds = {1}
  MaxCompactions = 1
  MaxCrashes = 2
CHECK_DEADLOCK FALSE
INVARIANTS TypeOK DurableSurvives FlushCovers IndexAgrees IdsUnique
PROPERTIES CompactionSafe AppendsAnswered LogContract
