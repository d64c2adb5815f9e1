SPECIFICATION Spec
CONSTANTS
  Timeline = {t1}
  Fence = {f1, f2}
  Obj = {o1}
  Thread = {x1, x2, w1}
  Worker = {w1}
  Null = Null
  MaxSeq = 2
  Arrays <- OneOrBoth
  t1 = t1
  x1 = x1
  x2 = x2
  Calls <- Shares
  Failures = {"fence", "event"}
SYMMETRY Symmetry
CHECK_DEADLOCK FALSE
INVARIANTS
  TimelineInv
  NoMissedSignal
  EventsInOrder
PROPERTY
  QueryMonotonic
