SPECIFICATION FairSpec
CONSTANTS
  MaxVersion = 2
  Bad = {}
  Worker = {w1}
  NoWorker = none
  MaxFaults = 1
INVARIANT TypeOK
INVARIANT NothingIsForgotten
PROPERTY CatchesUp
PROPERTY ImplementsRuns
