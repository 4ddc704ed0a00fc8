CONSTANTS
  MaxJobs = 2
  p1 = p1
  p2 = p2
  Proc = {p1, p2}
  Lines <- SomeLines
  IntSize = 8
SPECIFICATION LineSpec
INVARIANT
  ListIsTrue
CHECK_DEADLOCK FALSE
