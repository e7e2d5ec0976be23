SPECIFICATION Spec
CONSTANTS
  MaxIter = 2
  MaxCalls = 3
INVARIANTS
  SolvesPresentIterate
  ConvergedStateIsConsistent
  HistoryExplainsResult
  ExtractedMatricesArePure
PROPERTIES
  OnlyFinishedLoopsPublish
  EveryCallCountsDown
CHECK_DEADLOCK FALSE
