SPECIFICATION MCSpec
CONSTANTS
  Ids = {b1, b2}
  Deleters = {d1}
  Purger = Purger
  Nobody = Nobody
  Setups <- BothBackends
  PageSize = 2
  MaxFaults = 2
  Requests = {q1, q2}
  UseGit = TRUE
  Purges = TRUE
  None = None
  MaxRevision = 3
  MaxFailures = 2
  MaxCrashes = 1
  Invocations = {1, 2}
  PassSize = 1
  Attempts = 2
  MaxCallbacks = 1
  MaxRestores = 2
  MaxLosses = 2
  Free = Free
  Stranger = Stranger
SYMMETRY Uploads
INVARIANTS
  StoreTrue
  Readable
  HistoryKept
  LogConcludes
