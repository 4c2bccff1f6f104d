SPECIFICATION FairSpec
CONSTANTS
  Trigger = {t1, t2}
  NoRun = none
  Manual = {}
  Caller = {c1, c2}
  Worker = {w1, w2}
  UnstartedAttempts = 1
  MaxRequests = 0
  MaxFaults = 1
INVARIANT TypeOK
INVARIANT AnsweredRunHasJob
INVARIANT TriggersAreCovered
PROPERTY TriggerIsServed
CHECK_DEADLOCK FALSE
