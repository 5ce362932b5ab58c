CONSTANTS
  PoolSize = 2
  HeapNodes = {h1, h2}
  NullNode = NullNode
  MaxEvents = 3
  Traffic = {{}}
  MaxPeekers = 2
  MaxDepth = 1
  IdsInCallback = FALSE
SPECIFICATION PeekSpec
INVARIANTS
  VisitsFlushedNodes
  CacheValid
  CachedPeekSkipsNothing
