SPECIFICATION Spec
CONSTANTS
  Clients = {a, b}
  Messages = {1, 2}
  SegmentRecords = 2
  MaxIds = 5
  MaxCheckpoints = 1
  MaxCrashes = 1
SYMMETRY ClientSymmetry
CHECK_DEADLOCK FALSE
INVARIANTS Retained CursorHonest
PROPERTIES ReplayComplete AckRemembered
