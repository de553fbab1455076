SPECIFICATION Spec
CONSTANT MaxDeltas = 3
CHECK_DEADLOCK FALSE
INVARIANTS
  VisibleIsCharged
