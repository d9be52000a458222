SPECIFICATION Spec
CONSTANTS
  ChunkSize = 2
  MaxSize = 5
  Bound <- TwiceTheSize
  Builds = {TRUE}
  Transports = {"lossy"}
  MaxCalls = 2
INVARIANTS
  ThrowsOnMismatch
