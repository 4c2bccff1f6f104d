SPECIFICATION Spec
CONSTANTS
  Job = {j1, j2}
  Claimer = {c1, c2}
  LeaseMs = 2
  ClaimLimit = 2
  MaxTimerDelay = 9
  MaxTime = 2
  MaxDelay = 1
  MaxAttempt = 2
  MaxStepBack = 1
SYMMETRY Symmetry
INVARIANT TypeOK
INVARIANT HeapsHoldEveryLiveJob
INVARIANT ArmedForNextDue
PROPERTY ClaimServesInOrder
PROPERTY ImplementsContract
CHECK_DEADLOCK FALSE
