CONSTANTS
  Session = {s1, s2}
  InitialFds = 2
  MaxCalls = 2
  ClientsMayDie = FALSE
SPECIFICATION FairSpec
INVARIANT
  FdsMirrorTable
PROPERTIES
  ImplementsService
  QuietQueueIsChecked
  QuitsWhenUnused
CHECK_DEADLOCK FALSE
