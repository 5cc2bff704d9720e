SPECIFICATION Spec
CONSTANTS
  Clients = {a}
  Messages = {1, 2}
  SegmentRecords = 2
  MaxIds = 4
  MaxCheckpoints = 0
  MaxCrashes = 1
CHECK_DEADLOCK FALSE
PROPERTY UnackedRedelivered
