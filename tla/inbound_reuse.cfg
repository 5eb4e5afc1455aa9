SPECIFICATION FairSpec
CONSTANTS
  Memories = {"SM", "ME"}
  Default = "SM"
  Slots = {1}
  MaxMessages = 2
  Undecodable = {1}
  Handlers = {h1}
  ChannelSize = 1
  Retries = 2
  BudgetRefs = 1
  Attempts = 2
  Reuse = TRUE
  MaxFaults = 1
  MaxCrashes = 1
PROPERTIES TrackedMessageLeaves LossNeedsStaleRoute
CHECK_DEADLOCK FALSE
