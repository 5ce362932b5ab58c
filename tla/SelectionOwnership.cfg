CONSTANTS
  Mode = {"Clipboard", "Selection"}
  MimeData = {"text", "image"}
  MaxTime = 2
  MaxForeign = 2
  MaxCalls = 3
SPECIFICATION Spec
CHECK_DEADLOCK FALSE
INVARIANTS
  MimeDataFreedOnce
  OwnerHasData
  FormatsAreCurrent
