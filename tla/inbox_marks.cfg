SPECIFICATION MarksSpec
CONSTANTS
  Ids = {i1, i2, i3}
  Webhooks = {h1, h2}
  Capacity = 2
  TTL = 2
SYMMETRY MarksSymmetry
INVARIANTS NobodyIsMissed HeldIsRemembered
CHECK_DEADLOCK FALSE
