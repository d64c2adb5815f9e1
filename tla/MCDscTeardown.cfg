SPECIFICATION Spec
CONSTANTS
  p1 = p1
  v1 = v1
  v2 = v2
  Driver = driver
  Psocs = {p1}
  Vdevs = {v1}
  PsocOf <- OneVdev
  Client = {c1, c2}
  NoClient = NoClient
  Churn = {v1}
  Flags = {}
  Practices = {}
SYMMETRY Symmetry
INVARIANT
  FreedIsUnused
