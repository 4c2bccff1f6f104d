SPECIFICATION RunsSpec
CONSTANTS
  MaxVersion = 3
  Bad = {2}
  Worker = {w1, w2}
  NoWorker = none
  MaxFaults = 2
SYMMETRY Symmetry
INVARIANT RecordsTellTheSource
PROPERTY ChangesFitTheSource
CHECK_DEADLOCK FALSE
