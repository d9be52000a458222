SPECIFICATION Spec
CONSTANTS
  ChunkSize = 2
  MaxSize = 6
  Bound <- TwiceTheSize
  Builds = {TRUE, FALSE}
  Transports = {"reliable", "lossy"}
  MaxCalls = 2
INVARIANTS
  TypeOK
  ResultsFresh
  RoomForChunk
  NoDataRaces
  AcceptedTail
PROPERTY KeepsPromise
