SPECIFICATION Spec
CONSTANTS
  Base = 32
  U16 = 1
  U32 = 2
  U64 = 1
  MAX_FRAME_SIZE = 8
  Bytes = {0, 1, 2, 8, 25}
  MaxPayload = 6
  Streams <- MCStreams
CHECK_DEADLOCK FALSE
INVARIANTS Reassembly RoundTrip DeliverMirrors
