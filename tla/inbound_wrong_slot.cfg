SPECIFICATION Spec
CONSTANTS
  Memories = {"SM", "ME"}
  Default = "SM"
  Slots = {1}
  MaxMessages = 2
  Undecodable = {}
  Handlers = {h1}
  ChannelSize = 1
  Retries = 2
  BudgetRefs = 2
  Attempts = 1
  Reuse = FALSE
  MaxFaults = 1
  MaxCrashes = 0
INVARIANTS RightSlot
CHECK_DEADLOCK FALSE
