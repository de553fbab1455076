SPECIFICATION Spec
CONSTANTS
  Unset = Unset
  AnyClass = AnyClass
  DefaultMaxCost = 40
  DefaultMaxLatency = 6
  Models <- MCModels
  Entry <- MCEntry
  Registries <- MCRegistries
  PolicySets <- MCPolicySets
  Requests <- MCRequests
  Parts = 4
  ContextMargin = 1
  DefaultOutput = 2
CHECK_DEADLOCK FALSE
INVARIANTS
  FallbackIsAskedFor
