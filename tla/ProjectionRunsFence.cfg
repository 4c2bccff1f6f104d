SPECIFICATION RunsSpec
CONSTANTS
  MaxVersion = 2
  Bad = {}
  Worker = {w1, w2}
  NoWorker = none
  MaxFaults = 0
SYMMETRY Symmetry
INVARIANT FencedOnlyByNewer
CHECK_DEADLOCK FALSE
