SPECIFICATION Spec
CONSTANTS
  Clients = {a}
  Messages = {1, 2, 3}
  SegmentRecords = 1
  MaxIds = 4
  MaxCheckpoints = 1
  MaxCrashes = 2
CHECK_DEADLOCK FALSE
INVARIANT IdsNeverReused
