SPECIFICATION Spec
CONSTANTS
  Memories = {"SM"}
  Default = "SM"
  Slots = {1, 2}
  MaxMessages = 2
  Undecodable = {}
  Handlers = {h1, h2}
  ChannelSize = 1
  Retries = 2
  BudgetRefs = 1
  Attempts = 2
  Reuse = FALSE
  MaxFaults = 1
  MaxCrashes = 1
SYMMETRY Symmetry
INVARIANTS NothingLost ExhaustedWasRefused DuplicatesNeedFaults
CHECK_DEADLOCK FALSE
