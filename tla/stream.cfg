SPECIFICATION FairSpec
CONSTANTS
  Event = {e1, e2}
  Clients = {c1}
  Page = 2
  Room = 2
  MaxHead = 3
  MaxRestores = 2
  Ready = Ready
  Unknown = Unknown
INVARIANTS
  Resumable

  
