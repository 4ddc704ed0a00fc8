CONSTANTS
  Dir = {a, b}
  FirstDir = a
  Uncreatable = {}
  Optional = {"irc"}
  OtherNames = FALSE
  MaxMore = 1
  MaxJobs = 1
  MaxMoves = 2
  MaxCrashes = 0
SPECIFICATION SpoolSpec
INVARIANT
  StoredUntilRemoved
CHECK_DEADLOCK FALSE
