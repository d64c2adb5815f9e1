SPECIFICATION ContractSpec
CONSTANTS
  p1 = p1
  v1 = v1
  v2 = v2
  Driver = driver
  Psocs = {p1}
  Vdevs = {v1, v2}
  PsocOf <- SiblingVdevs
  Client = {c1, c2, c3}
  NoClient = NoClient
  Churn = {driver, p1, v1, v2}
  Flags = {}
  Practices = {"stop_via_psoc"}
SYMMETRY Symmetry
INVARIANTS
  IInv
  TransExclusion
  FlushedIsQuiet
  NoLostWakeup
  NoStrandedWaiter
PROPERTIES
  GrantOrder
  ImplementsLock
