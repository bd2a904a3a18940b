\* Requests, migrations and faults run out.
SPECIFICATION MCSpec
CHECK_DEADLOCK FALSE
CONSTANTS
    Requests = {q1, q2}
    UseGit = TRUE
    Purges = TRUE
    MaxRevision = 3
    MaxFaults = 2
    MaxCrashes = 1
    None = None
    Ids = {b1, b2}
    Purger = Purger
    Nobody = Nobody
    MaxAccidents = 1
PROPERTIES
  EveryoneAnswered
  
