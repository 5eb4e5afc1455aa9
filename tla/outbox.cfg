CONSTANTS
  MaxMessages = 2
  MaxRecipients = 2
  RefCount = 2
  MaxFaults = 1
  Options <- AllOptions
  StatusesOf <- Statuses
SPECIFICATION MCSpec
INVARIANTS
  FailedMessageAllFailed
  CancelledNothingToSend
  DuplicatesNeedFaults
  DeliveredIsTrue
  ReportsDecide
  OutcomesAnnounced
PROPERTIES
  FailedIsFinal
  CancelledOverwrittenOnlyInHand
  OutboxDrains
CHECK_DEADLOCK FALSE
