SPECIFICATION FairSpec
CONSTANTS
  Kind = "push"
  DefaultQos = "AtLeastOnce"
  Capacity = 2
  MaxRetries = 2
  BaseDelay = 1
  Ttls = {1, 2}
  MaxTag = 3
  LastPublish = 1
  MaxTime = 3
INVARIANT ExpiryArmed
PROPERTIES Contract EverySettles
