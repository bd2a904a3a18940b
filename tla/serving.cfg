\* Updates and starts of the container run out.
SPECIFICATION MCSpec
CHECK_DEADLOCK FALSE
CONSTANTS
  Requests = {r1, r2, r3, r4}
  Limit = 2
  Streams = {s1, s2}
  Workspaces = {w1}
  Actors = {a1, a2}
  AppLimit = 2
  ActorLimit = 1
  Quotas = {1, 2}
  Width = 1
  Dispatches = {q1, q2}
  Deployments = {d1, d2}
  Contents = {1, 2}
  Images = {i1}
  MaxUpdates = 1
  MaxStarts = 1
  None = None
  ProbeId = ProbeId
INVARIANTS
  WaitsEnd
  StreamsAccounted
  RunsAsAdmitted
PROPERTIES
  OnlyExpected
  NothingHeld
