SPECIFICATION FairSpec
CONSTANTS
  r1 = r1
  r2 = r2
  acme = acme
  bolt = bolt
  ghost = ghost
  Requests = {r1, r2}
  Providers = {acme, bolt, ghost}
  Adapters = {acme, bolt}
  Route <- MCRoute
  MaxAttempts = 3
  MaxRepairs = 1
  Threshold = 2
  Failures <- MCFailures
  Horizon = 3
  Predicted = 1
  Margin = 1
CHECK_DEADLOCK FALSE
INVARIANTS
  RepeatedForAReason
  EndsAsItsLastAttempt
PROPERTIES
  NoCallIntoOpenCircuit
  EveryRequestEnds
