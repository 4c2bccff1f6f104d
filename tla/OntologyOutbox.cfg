SPECIFICATION FairSpec
CONSTANTS
  Process = {p1, p2}
  MaxEvent = 2
  Poison = {1}
  LeaseId = {l1, l2, l3, l4, l5}
  NoLease = none
  BatchSize = 2
  MaxIsolation = 2
  MaxClaims = 2
  MaxFaults = 2
  MaxStops = 1
INVARIANT TypeOK
INVARIANT StoppedHoldsNothing
INVARIANT DrainsAreAnswered
INVARIANT OnlyPoisonIsBlamed
PROPERTY ImplementsFeed
PROPERTY OnlyTheHolderSettles
PROPERTY HealthyIsPublished
CHECK_DEADLOCK FALSE
