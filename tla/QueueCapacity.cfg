SPECIFICATION Spec
CONSTANTS
  Kind = "poll"
  DefaultQos = "AtLeastOnce"
  Capacity = 2
  MaxRetries = 2
  BaseDelay = 1
  Ttls = {4}
  MaxTag = 3
  LastPublish = 1
  MaxTime = 5
INVARIANT StoredBounded
