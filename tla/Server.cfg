CONSTANTS
  MaxJobs = 2
  MaxCrashes = 1
  MaxClients = 1
  ZombiesTakeSignals = TRUE
  ForkMayFail = TRUE
SPECIFICATION FairSpec
INVARIANTS
  TypeOK
  EachLaunchedOnce
  NoGhostJob
  EachSuspendedIsResumable
  PausedListComplete
  DiskHasQueue
  RestartKeepsStatus
PROPERTIES
  LaunchIsFifo
  ResumeAllRestores
  QuitLosesNothing
  SavedResultIsFinal
  PendingIsServed
