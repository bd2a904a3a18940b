\* The accepted requests run out.
SPECIFICATION MCSpec
CHECK_DEADLOCK FALSE
CONSTANTS
  p1 = p1
  handoff = handoff
  other = other
  alone = alone
  query = query
  row = row
  row2 = row2
  item = item
  claim = claim
  Principals = {p1}
  Clients = {c1, c2}
  Keys = {k1, k2, k3}
  NoKey = NoKey
  Bodies = {handoff, other, alone, query}
  Plan <- MCPlan
  Keyed = {handoff, other}
  Objects = {row, row2, item, claim}
  Limits <- MCLimits
  Nobody = Nobody
  MaxMinute = 1
  MaxAccepted = 3
  Gone = Gone
  Us = Us
  Other = Other
  MaxByHand = 1
  MaxStops = 1
  TableNames = {t1, t2}
  MaxNodes = 3
  MaxDdl = 2
SYMMETRY Names
INVARIANTS
  OnceEach
  Accounted
  Provisioned
  PolicySeesAll
  
