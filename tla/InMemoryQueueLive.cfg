SPECIFICATION FairSpec
CONSTANTS
  Job = {j1, j2}
  Claimer = {c1, c2}
  LeaseMs = 1
  ClaimLimit = 2
  MaxTimerDelay = 9
  MaxTime = 2
  MaxDelay = 1
  MaxAttempt = 2
  MaxStepBack = 0
PROPERTY VisibleJobIsServed
CHECK_DEADLOCK FALSE
