SPECIFICATION RowsFairSpec
CONSTANTS
  whole = whole
  stream = stream
  Requests = {whole, stream}
  Streamed = {stream}
  MaxAttempts = 2
CHECK_DEADLOCK FALSE
INVARIANTS
  EndedRowsHoldNothing
PROPERTIES
  PunctualIsFinal
  LoopStopsAfterTheEnd
  EveryRowEnds
