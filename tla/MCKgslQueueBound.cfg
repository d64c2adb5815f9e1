SPECIFICATION Spec
CONSTANTS
  c1 = c1
  t1 = t1
  t2 = t2
  Context = {c1}
  Thread = {t1, t2}
  Submits <- Synced
  Size = 3
  Burst = 1
  Limits = {2}
  MaxTs = 3
  MaxEvents = 0
  Failures = {}
CHECK_DEADLOCK FALSE
INVARIANT
  QueueBound
