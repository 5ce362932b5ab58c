CONSTANTS
  PoolSize = 2
  HeapNodes = {h1, h2, h3}
  NullNode = NullNode
  MaxEvents = 4
  Traffic = {{}}
  Awaited = {4}
  Requests = {1, 2}
  CheckManager = TRUE
SPECIFICATION WaitSpec
INVARIANTS
  ServedInOrder
  AwaitedIsKept
PROPERTIES
  WaitEnds
