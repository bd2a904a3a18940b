SPECIFICATION FairSpec
CONSTANTS
  m1 = m1
  m2 = m2
  r1 = r1
  r2 = r2
  p1 = p1
  p2 = p2
  Messages = {m1}
  Legacy <- MCNoLegacy
  Payloads = {h1}
  Runs = {r1, r2}
  Principals = {p1, p2}
  PrincipalOf <- MCOneOwnerEach
  Revocable = {p1}
  EffectKeys = {k1, k2}
  LeaseTime = 2
  RetryDelay = 1
  Retentions = {4}
  MaxAttempts = 2
  Batch = 1
  PurgeBudget = 1
  MaxChains = 2
  MaxRestores = 1
  NoRun = NoRun
  NoKey = NoKey
  NoPayload = NoPayload
INVARIANTS
  TypeOK
  ReceiptFence
  EffectBegunOnce
  PayloadKept
PROPERTIES
  DeadClaimsEnd
  WorkIsServed
  LedgerKeepsPromise
  RestoreEndsLeases
