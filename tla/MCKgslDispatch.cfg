SPECIFICATION FairSpec
CONSTANTS
  c1 = c1
  t1 = t1
  t2 = t2
  Context = {c1}
  Thread = {t1, t2}
  Submits <- Shared
  Size = 3
  Burst = 1
  Limits = {1, 2}
  MaxTs = 2
  MaxEvents = 1
  Failures = {"fault", "halt", "space", "detach", "guilty", "timeout", "defer"}
CHECK_DEADLOCK FALSE
INVARIANTS
  DispatchInv
PROPERTIES
  JobIsKept
  CommandsRetire
  SleeperWakes
