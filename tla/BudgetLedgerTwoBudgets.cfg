SPECIFICATION Spec
CONSTANTS
  r1 = r1
  r2 = r2
  global = global
  client = client
  Requests = {r1, r2}
  Budgets = {global, client}
  MaxAttempts = 1
  ScopesOf <- MCScopesOf
  HardLimit <- MCHardLimit
  Ceiling <- MCCeiling
  NoCeiling = NoCeiling
  Estimates <- MCEstimates
  BatchLimit = 2
CHECK_DEADLOCK FALSE
INVARIANTS
  AbandonedIsChargedEverywhere
