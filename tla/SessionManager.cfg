CONSTANTS
  MaxSaves = 2
  MaxCalls = 2
SPECIFICATION Spec
CHECK_DEADLOCK FALSE
INVARIANTS
  AnswersAreExpected
  InteractionAgrees
  CancelIsTold
PROPERTIES
  SaveIsAnswered
