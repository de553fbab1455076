SPECIFICATION Spec
CONSTANTS
  t1 = t1
  t2 = t2
  t3 = t3
  global = global
  client = client
  month = month
  Tasks = {t1, t2, t3}
  Budgets = {global, client, month}
  ScopesOf <- MCScopesOf
  HardLimit <- MCHardLimit
  Estimate <- MCEstimate
  ScopeRank <- ByScope
  IdRank <- ById
  Reconciler = reconciler
  Nobody = nobody
CHECK_DEADLOCK FALSE
INVARIANTS
  NoGatewayDeadlock
