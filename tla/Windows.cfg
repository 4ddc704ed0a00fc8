CONSTANTS
  Jobs = {1, 2}
  MaxThreads = 2
  Unruly = {1}
  MaxFailing = 1
  MaxSuspend = 2
SPECIFICATION FairDaemonSpec
INVARIANTS
  LiveJobHasHandle
  SuspendedIffPaused
PROPERTIES
  UnaskedExitLosesNothing
  EndIsNoticed
CHECK_DEADLOCK FALSE
