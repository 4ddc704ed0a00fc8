CONSTANTS
  FrontEnd = {f1, f2}
  Jobs = {j1, j2}
  MaxDaemons = 2
  MaxStarts = 2
  MaxTries = 2
SPECIFICATION FairSpec
INVARIANTS
  AddedIsKept
  RunOnce
  ServerIsFound
PROPERTY
  AddedIsRun
CHECK_DEADLOCK FALSE
