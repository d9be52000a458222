SPECIFICATION Spec
CONSTANTS
  Base = 4
  Contents <- SomeContents
  Blocks = {2, 7}
  Small = 2
  Faults = {"read", "short", "write", "crash", "cut", "header", "changed", "exists"}
  MaxFaults = 2
  Absent = Absent
  Other = Other
  Name = Name
  End = End
  Junk = Junk
INVARIANTS
  TypeOK
  NothingLost
  
