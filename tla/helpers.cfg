SPECIFICATION Spec
CONSTANTS
  Cutoff = 3
  Fast = 4
  InoBits = 3
  Directories <- SomeDirectories
  FlagSets <- SomeFlags
  NamesAlloc = 4
  DentAlloc = 2
  Null = Null
  MallocFails = TRUE
  FileSize = 5
  Offsets = {0, 2, 6}
  Counts = {0, 1, 3, 5}
  BufSize = 2
  Page = 4
  Addresses = {0, 3, 4, 9, 14}
  Lengths = {0, 1, 4, 5, 11, 31}
  SizeMod = 32
  SystemFlags <- SomeSystems
  Positioners = {1, 2, 3}
  Positions = {0, 2, 5}
  Nobody = 0
INVARIANTS
  ListingComplete
  ListingOrdered
  SentinelHolds
  StacksFit
  BuffersOwned
  TransfersExact
  RangeCovered
  FlagsKept
  PositionsKept
