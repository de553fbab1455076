SPECIFICATION FairSpec
CONSTANT MaxDeltas = 3
CHECK_DEADLOCK FALSE
INVARIANTS
  WellFramed
  ToldTheTruth
  TerminalHoldsNothing
  VisibleIsChargedUnlessFault
PROPERTIES
  AbandonedStreamEnds
