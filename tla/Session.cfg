SPECIFICATION Spec
CONSTANTS
  Messages = {m1, m2}
  Others = {m1}
  Durable = {m1}
  Offsets = {0}
  Foreign = Foreign
  Replayer = Replayer
  SlotLimit = 2
  MaxBatch = 1
  InbandCapacity = 1
  MaxAuthFailures = 1
  None = None
CHECK_DEADLOCK FALSE
INVARIANTS InOrderOnce AnsweredOnce NoSleepOnBytes ReplayGapless DeliveredAsDue AckableDelivery Gate
PROPERTY WindDown
