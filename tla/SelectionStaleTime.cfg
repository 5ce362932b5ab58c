CONSTANTS
  Targets = {"text", "image"}
  Parts <- MCParts
  QtWindows = {1, 2}
  ForeignWindow = 100
  Properties = {"_QT_SELECTION", "CLIP_TEMPORARY", "other"}
  ClipTemporary = "CLIP_TEMPORARY"
  QtSelection = "_QT_SELECTION"
  MaxTime = 1
  Mixes <- MCMixes
  ForeignPairs <- MCForeignPairs
SPECIFICATION Spec
CHECK_DEADLOCK FALSE
INVARIANTS
  TimestampIsFresh
