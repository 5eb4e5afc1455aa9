SPECIFICATION FairPath
CONSTANTS
  Memories = {"SM"}
  Default = "SM"
  Slots = {1, 2}
  MaxMessages = 2
  Undecodable = {}
  Handlers = {h1}
  ChannelSize = 1
  Retries = 2
  BudgetRefs = 1
  Attempts = 1
  Reuse = FALSE
  MaxFaults = 0
  MaxCrashes = 1
  Webhooks = {}
  Ids <- MCIds
  Capacity = 1
  TTL = 1
  Parts <- MCParts
  Sender <- MCSender
  Width <- MCWidth
  Ref <- MCRef
  Segments <- MCSegments
  Stamp <- MCStamp
  Port <- MCPort
  Text <- MCText
  NoTime = NoTime
  NoPort = NoPort
  Window = 1
  Retention = 1
  MaxGroups = 1
  MaxClock = 1
  Part <- MCPart
INVARIANTS NothingVanishes HandedOnce
PROPERTIES DroppedForReason FiledIsReceived
CHECK_DEADLOCK FALSE
