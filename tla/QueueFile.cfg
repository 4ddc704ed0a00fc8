CONSTANTS
  Base = 2
  Names = {0}
  Procs = {3}
  Garbage = {0, 1}
  MaxId = 1
  MaxCrashes = 2
SPECIFICATION FairSpec
INVARIANT
  BrokenFileLoads
PROPERTIES
  WholeFileLoads
  LoadEnds
