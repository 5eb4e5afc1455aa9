SPECIFICATION Spec
CONSTANTS
  MaxValue = 5
  Faults = 2
  Crashes = 2
INVARIANTS OneIdentity SavedStays DemandedWasShown
CHECK_DEADLOCK FALSE
