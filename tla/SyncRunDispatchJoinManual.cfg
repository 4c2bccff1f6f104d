SPECIFICATION Spec
CONSTANTS
  Trigger = {t1}
  NoRun = none
  Manual = {m1}
  Caller = {c1, c2}
  Worker = {w1, w2}
  UnstartedAttempts = 2
  MaxRequests = 2
  MaxFaults = 2
SYMMETRY Symmetry
INVARIANT TriggersAreCovered
CHECK_DEADLOCK FALSE
