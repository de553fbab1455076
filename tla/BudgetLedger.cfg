SPECIFICATION FairSpec
CONSTANTS
  r1 = r1
  r2 = r2
  global = global
  client = client
  Requests = {r1, r2}
  Budgets = {global, client}
  MaxAttempts = 2
  ScopesOf <- MCScopesOf
  HardLimit <- MCHardLimit
  Ceiling <- MCCeiling
  NoCeiling = NoCeiling
  Estimates <- MCEstimates
  BatchLimit = 1
CHECK_DEADLOCK FALSE
INVARIANTS
  TypeOK
  Conservation
  WithinHardLimit
  WithinCeiling
  FinishedHoldsNothing
  AbandonedIsCharged
PROPERTIES
  ResolvedOnce
  ImplementsBook
  EveryHoldResolved
