SPECIFICATION MCSpec
CONSTANTS
  Invocations = {1, 2}
  PageSize = 1
  Attempts = 2
  MaxCallbacks = 1
  MaxRestores = 2
  MaxFaults = 2
  Free = Free
  Stranger = Stranger
PROPERTIES
  EachEnds
