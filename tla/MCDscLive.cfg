SPECIFICATION FairSpec
CONSTANTS
  p1 = p1
  v1 = v1
  v2 = v2
  Driver = driver
  Psocs = {p1}
  Vdevs = {v1}
  PsocOf <- OneVdev
  Client = {c1, c2, c3}
  NoClient = NoClient
  Churn = {}
  Flags = {"recovering"}
  Practices = {"stop_via_psoc"}
PROPERTIES
  WaiterServed
  FlushReturns
