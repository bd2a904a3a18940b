SPECIFICATION RetrySpec
CONSTANTS
  r1 = r1
  r2 = r2
  p1 = p1
  p2 = p2
  Messages = {m1}
  Legacy <- MCNoLegacy
  Payloads = {h1, h2}
  Runs = {r1, r2}
  Principals = {p1, p2}
  PrincipalOf <- MCOneOwnerEach
  Revocable = {}
  EffectKeys = {k1}
  LeaseTime = 2
  RetryDelay = 1
  Retentions = {3}
  MaxAttempts = 2
  Batch = 1
  PurgeBudget = 1
  MaxChains = 1
  MaxRestores = 0
  NoRun = NoRun
  NoKey = NoKey
  NoPayload = NoPayload
PROPERTIES
  ResendAnsweredWithOriginal
