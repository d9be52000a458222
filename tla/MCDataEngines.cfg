SPECIFICATION Spec
CONSTANTS
  Lengths = 3
  Highs = 3
  Slots = {0, 1, 2, 3, 4, 5, 6, 7, 8}
  Inputs <- SomeInputs
  Hashes = {"collide", "first"}
  Hash <- SmallHash
  Rooms <- TightRooms
  Unrolled = 4
  Unroll = 1
  LongBlock = 7
  Names = {"LZF", "FastLZ", "Snappy", "ZSTD1"}
  Orders <- TwoOrders
  Rating <- Ratings
  NoRating = 1000
  Levels = {1, 2}
  Transports = {"reliable", "damaged"}
  Fragile <- Runs
  Longest = 7
  Gaps = {0, 19, 20, 21, 22, 98, 99}
  Ends = {0, 1, 2, 9}
INVARIANTS
  TypeOK
  RoundTrip
  FitsBound
  Contained
  AgreedEngine
PROPERTY KeepsPromise
