SPECIFICATION MCSpec
CONSTANTS
  w1 = w1
  w2 = w2
  p1 = p1
  p2 = p2
  Workspaces = {w1, w2}
  Principals = {p1, p2}
  Home <- MCOneHome
  Revocable = {p1}
  RunIds = {r1}
  Sessions = {s1, s2}
  MaxHead = 2
  MaxEmits = 1
  MaxRestores = 2
  User = User
  NoRun = NoRun
  Nobody = Nobody
  Servers = {v1, v2}
  Operator = Operator
  Stores = {Main, Wrong}
  Backends <- MCBackends
  Bytes = {o1}
  Checkpoints = {k1}
  MaxOutages = 2
SYMMETRY Machines
INVARIANTS
  StorageKept
  GateNotStuck
  
PROPERTIES
  TrailKept
  
