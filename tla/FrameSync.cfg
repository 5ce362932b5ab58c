SPECIFICATION Spec
CONSTANTS
    MaxSize = 2
    MaxChanges = 5
    MaxQueue = 5
INVARIANTS
    DamageIsKept
    RestIsCurrent
PROPERTIES
    CounterIsHonest
    RequestIsAnswered
CHECK_DEADLOCK FALSE
