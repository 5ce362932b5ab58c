CONSTANTS
  PoolSize = 2
  HeapNodes = {h1, h2}
  NullNode = NullNode
  MaxEvents = 3
  Traffic = {{2}, {1, 2}}
SPECIFICATION Spec
SYMMETRY HeapSymmetry
INVARIANTS
  NodesInOnePlace
  NoRaceOnNext
  NoLostSignal
  DispatcherOutlivesCall
  ExactlyOnce
  OnlyInputIsOvertaken
PROPERTIES
  ImplementsChannel
