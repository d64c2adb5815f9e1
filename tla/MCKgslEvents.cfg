SPECIFICATION FairSpec
CONSTANTS
  Event = {e1, e2}
  User = {u1, u2}
  Dispatcher = {d1}
  Null = Null
  Window = 2
  Start = 3
  MaxTime = 4
  Wanted <- FirstOfRun
  UserTS = FALSE
  u1 = u1
  u2 = u2
  d1 = d1
  Calls <- Shares
  Failures = {"unregister"}
CHECK_DEADLOCK FALSE
INVARIANTS
  EventsInv
  EventsOnTime
PROPERTIES
  SleeperWakes
  DetachedIsFreed
