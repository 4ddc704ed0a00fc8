CONSTANTS
  MaxJobs = 1
  MaxCrashes = 0
  MaxClients = 1
  ZombiesTakeSignals = TRUE
  ForkMayFail = FALSE
SPECIFICATION Spec
INVARIANT
  PausedListIsLive
