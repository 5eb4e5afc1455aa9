SPECIFICATION MCSpec
CONSTANTS
  h1 = h1
  Webhooks = {h1}
  Ids <- MCIds
  Capacity = 1
  TTL = 1
  Parts <- MCParts
  Sender <- MCSender
  Width <- MCWidth
  Ref <- MCRef
  Segments <- MCSegments
  Stamp <- MCStamp
  Port <- MCPort
  Text <- MCText
  NoTime = NoTime
  NoPort = NoPort
  Window = 2
  Retention = 1
  MaxGroups = 2
  MaxClock = 2
INVARIANTS WholeBodies GroupsAreOpen AnnouncedIsStored ListingsAgree
PROPERTIES PartsLeaveForReason ExpiredGroupsLeave ImplementsMarks
CHECK_DEADLOCK FALSE
