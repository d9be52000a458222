SPECIFICATION Spec
CONSTANTS
  Pixels <- ThePixels
  Generations = 2
INVARIANTS
  TypeOK
  Lossless
  MostSignificant
PROPERTY NoDrift
