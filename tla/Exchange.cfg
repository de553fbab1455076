SPECIFICATION FairSpec
CONSTANTS
  Absent = Absent
  NoText = NoText
  Adapters = {"openai_compatible", "commandcode", "fake", "alien"}
  Statuses = {400, 401, 413, 429, 503}
  Texts <- MCTexts
  JsonValues <- MCValues
  Schemas <- MCAllSchemas
  Height <- MCHeight
  Words <- MCWords
  Asks <- MCAsks
  Classes <- MCClasses
  Modes = {"auto", "none", "deterministic"}
CHECK_DEADLOCK FALSE
INVARIANTS
  AcceptedFits
  StopChangesNoDecision
  CallSaysWhatWasAsked
  RefusedBeforeWork
  NothingLeftBehind
PROPERTIES
  EveryExchangeEnds
