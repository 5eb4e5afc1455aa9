CONSTANTS
  h1 = h1
  h2 = h2
  Hooks = {h1, h2}
  Redirecting = {h2}
  MaxEmissions = 1
  RetryCount = 2
  BatchSize = 1
  BaseDelay = 1
  StuckTimeout = 1
  DurationBits = 4
  MaxFaults = 1
SPECIFICATION FairSpec
INVARIANTS
  DecisionIsCurrent
  CompletedWasReceived
PROPERTIES
  ImplementsDelivery
  EveryDeliveryEnds
CHECK_DEADLOCK FALSE
