SPECIFICATION RecoverySpec
CONSTANTS
  p1 = p1
  v1 = v1
  Driver = driver
  Psocs = {p1}
  Vdevs = {v1}
  PsocOf <- OneVdev
  Client = {c1, c2, c3}
  NoClient = NoClient
  Churn = {}
  Flags = {}
  Practices = {}
SYMMETRY ClientSymmetry
INVARIANT
  TransExclusion
