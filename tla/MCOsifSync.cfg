SPECIFICATION OsifContractSpec
CONSTANTS
  p1 = p1
  v1 = v1
  v2 = v2
  Driver = driver
  Psocs = {p1}
  Vdevs = {v1, v2}
  PsocOf <- SiblingVdevs
  Client = {c1, c2, c3}
  NoClient = NoClient
  Churn = {driver, p1, v1, v2}
  Flags = {"unloading"}
  Practices = {}
  DriverSlots = {1}
  PsocSlots = {2}
  VdevSlots = {3}
  NoNode = NoNode
  WaitNodes = {driver, p1, v1, v2}
SYMMETRY Symmetry
INVARIANT
  OsifInv
PROPERTY
  SettledIsIsolated
