CONSTANTS
  Dir = {a, b}
  FirstDir = a
  Uncreatable = {}
  Optional = {"irc", "rst"}
  OtherNames = TRUE
  MaxMore = 1
  MaxJobs = 2
  MaxMoves = 1
  MaxCrashes = 1
SPECIFICATION SpoolSpec
INVARIANTS
  ResultIsOwn
  RerunIsClean
PROPERTY
  RestartFindsQueue
CHECK_DEADLOCK FALSE
