SPECIFICATION CommandsContractSpec
CONSTANTS
  p1 = p1
  v1 = v1
  v2 = v2
  Driver = driver
  Psocs = {p1}
  Vdevs = {v1, v2}
  PsocOf <- SiblingVdevs
  Client = {c1, c2, c3}
  NoClient = NoClient
  Churn = {v1, v2}
  Flags = {}
  Practices = {}
  DriverSlots = {1}
  PsocSlots = {2}
  VdevSlots = {3, 4}
  WalkSlots = {3}
  Monitors = {v2}
  NoNode = NoNode
  WaitNodes = {p1, v1, v2}
SYMMETRY ClientSymmetry
INVARIANTS
  CommandsInv
  DownIsLastWord
PROPERTY
  ImplementsDsc
