\* The calls of a page run out.
SPECIFICATION MCSpec
CHECK_DEADLOCK FALSE
CONSTANTS
  m1 = m1
  m2 = m2
  r1 = r1
  r2 = r2
  p1 = p1
  p2 = p2
  Messages = {m1, m2}
  Legacy <- MCOneLegacy
  Payloads = {h1}
  Runs = {r1, r2}
  Principals = {p1, p2}
  PrincipalOf <- MCOneOwnerEach
  Revocable = {p1}
  EffectKeys = {k1}
  LeaseTime = 2
  RetryDelay = 1
  Retentions = {3}
  MaxAttempts = 2
  Batch = 2
  PurgeBudget = 2
  MaxChains = 1
  MaxRestores = 1
  NoRun = NoRun
  NoKey = NoKey
  NoPayload = NoPayload
  Event = {e1, e2}
  Mine = {e1}
  PageSize = 1
  MaxHead = 3
  MaxEpoch = 2
  Missing = Missing
  Numbers = {1, 2, 3}
  Judged = {1}
  Acted = {1, 2}
  Size = 2
  InboxCalls = 3
  ScreenCalls = 4
INVARIANTS
  DispatchMatchesLedger
PROPERTIES
  ScreensTrue
