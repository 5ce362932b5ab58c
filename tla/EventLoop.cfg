CONSTANTS
  PoolSize = 2
  HeapNodes = {h1, h2}
  NullNode = NullNode
  MaxEvents = 3
  Traffic <- MCTraffic
  Kindings <- MCKindings
  ErrorKind = "error"
  CompressibleKinds <- MCCompressible
  InputKinds = {"XI_Motion"}
  PeekedKinds = {"expose"}
SPECIFICATION LoopSpec
INVARIANTS
  CompressionKeepsLast
PROPERTIES
  WakeUpDelivers
  DestructorTerminates
