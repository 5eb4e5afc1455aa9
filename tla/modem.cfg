SPECIFICATION FairSpec
CONSTANTS
  Run = run
  Worker = worker
  Actors <- MCActors
  Names <- MCNames
  MaxParts = 2
  Sends = 1
  Wrong <- MCWrong
  Trouble = 2
INVARIANTS MisreadNeedsSlip ShownIsItsOwn SendsAreAccountedFor BlankHasCause
PROPERTIES SendsReturn EndIsNoticed
CHECK_DEADLOCK FALSE
