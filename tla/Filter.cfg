CONSTANTS
  w1 = w1 w2 = w2 none = none
  NumAllNodes = 3
  NextStartNodeIndex = 1
  NumNodesToFind = 2
  Workers = {w1, w2}
  ChunkSize = 1
  CallerMayCancel = TRUE
  FiltersWatchContext = TRUE
  None = none
SPECIFICATION Spec
CHECK_DEADLOCK FALSE
INVARIANTS ResultSound SearchComplete MeetsContract FilterInv
PROPERTIES LimitStays SlotsWrittenOnce SearchReturns
