SPECIFICATION MCSpec
CONSTANTS
  Commands = {c1, c2}
  Inodes = {1, 2}
  MaxRuns = 2
  MaxCrashes = 1
  Reuse = TRUE
  Free = Free
  Processes = {a1, a2}
  Nobody = Nobody
  Claims = {k1, k2}
  Summaries = {x1, x2}
  MaxLeases = 2
  MaxDeploys = 2
  MaxDeaths = 1
INVARIANTS
  OneInside
  Completed
PROPERTIES
  LockServes
