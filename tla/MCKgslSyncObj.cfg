SPECIFICATION FairSpec
CONSTANTS
  Timestamps = {t1}
  Fences = {f1}
  Timelines = {l1}
  Failures <- AllFailures
CHECK_DEADLOCK FALSE
INVARIANT
  SyncObjInv
PROPERTIES
  ExpiredLeavesQueue
  DestroyEnds
