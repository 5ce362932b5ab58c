CONSTANTS
  Targets = {"text", "image"}
  Parts <- MCParts
  QtWindows = {1, 2}
  ForeignWindow = 100
  Properties = {"_QT_SELECTION", "CLIP_TEMPORARY", "other"}
  ClipTemporary = "CLIP_TEMPORARY"
  QtSelection = "_QT_SELECTION"
  MaxTime = 1
  Mixes <- MCMixes
  ForeignPairs <- MCForeignPairs
SPECIFICATION FairSpec
CHECK_DEADLOCK FALSE
INVARIANTS
  NoDanglingTransaction
  CompleteOrEmpty
  MissingOnlyByTie
  TransactionsReachable
PROPERTIES
  PartsAreNotOverwritten
  GetSelectionReturns
  TransactionsEnd
