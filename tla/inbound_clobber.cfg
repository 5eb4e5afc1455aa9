SPECIFICATION Spec
CONSTANTS
  Memories = {"SM"}
  Default = "SM"
  Slots = {1}
  MaxMessages = 2
  Undecodable = {}
  Handlers = {h1}
  ChannelSize = 1
  Retries = 2
  BudgetRefs = 2
  Attempts = 1
  Reuse = TRUE
  MaxFaults = 0
  MaxCrashes = 0
INVARIANTS OnlyBudgetLoses
CHECK_DEADLOCK FALSE
