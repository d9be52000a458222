SPECIFICATION Spec
CONSTANTS
  MaxWord = 3
  Marker = 2
  MaxLen = 6
  Inputs <- AllInputs
INVARIANTS
  TypeOK
  RoundTrip
  StreamConsumed
  OutputBound
  RunsMaximal
PROPERTY KeepsPromise
