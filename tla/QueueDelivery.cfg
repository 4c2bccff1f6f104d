SPECIFICATION FairSpec
CONSTANTS
  Job = {j1}
  Slot = {d1, d2}
  LeaseMs = 2
  RenewalMs = 1
  StampOnReply = FALSE
  MaxTime = 4
  MaxAttempt = 2
INVARIANT TypeOK
INVARIANT OwnershipIsReal
INVARIANT VerdictsAreTrue
INVARIANT SettledOnce
PROPERTY DeliveryEnds
CHECK_DEADLOCK FALSE
